---------------------------- MODULE StorageView ----------------------------
(***************************************************************************)
(* ProxyApplicator: what a transaction has done to one storage key, and    *)
(* what it sees there.  A view begins with the committed object; optional  *)
(* fields of the class are sets of at most one element here, and the       *)
(* elements of a hash set are a set: their order is that of HashSetUtils.  *)
(***************************************************************************)
EXTENDS Outcomes, Sequences, SequencesExt

CONSTANT MaxLimit   \* UINT16_MAX

\* A StorageObject: a set of elements has an order, a value its range.
IsObject(o) ==
    \/ o = NoObject
    \/ o.type = "NONNEGATIVE_INT64" /\ o.value \in MinInt .. MaxInt
    \/ o.type = "RAW_MEMORY"
    \/ o.type = "KNOWN_SUPPLY_ASSET" /\ o.value \in 0 .. MaxUint
    \/ /\ o = [type |-> "HASH_SET", hashes |-> o.hashes, max_size |-> o.max_size]
       /\ IsFiniteSet(o.hashes) /\ \A h \in o.hashes : h.index \in Nat
       /\ o.max_size \in Nat

Fresh(object) ==
    [current |-> object, memory_write |-> {}, nnint64_delta |-> {}, hs_size_increase |-> {},
     new_hashes |-> <<>>, hs_clear_threshold |-> {}, delta |-> {}, is_deleted |-> FALSE]

\* make_current: the object that a first delta of a type makes.
DefaultObject(type) ==
    CASE type = "HASH_SET" -> [type |-> type, hashes |-> {}, max_size |-> StartSize]
      [] OTHER -> [type |-> type, value |-> 0]
Current(view, type) == IF view.current = NoObject THEN DefaultObject(type) ELSE view.current

DeltaTypes == [NONNEGATIVE_INT64_SET_ADD |-> "NONNEGATIVE_INT64",
               RAW_MEMORY_WRITE |-> "RAW_MEMORY",
               HASH_SET_INSERT |-> "HASH_SET",
               HASH_SET_INCREASE_LIMIT |-> "HASH_SET",
               HASH_SET_CLEAR |-> "HASH_SET",
               ASSET_OBJECT_ADD |-> "KNOWN_SUPPLY_ASSET"]

\* delta_apply_type_guard
TypeGuard(view, d) == view.current = NoObject \/ view.current.type = DeltaTypes[d.type]

\* Mutant of make_nnint64_delta: a reduction is checked by itself.
make_nnint64_delta_Alone(base, old_delta, new_delta) ==
    IF new_delta < 0 /\ base + new_delta < 0 THEN {}
    ELSE {Min({MaxInt, old_delta + new_delta})}

\* make_nnint64_delta: the sum of two deltas on one base, if there is one.
make_nnint64_delta(base, old_delta, new_delta) ==
    LET sum == old_delta + new_delta
    IN  IF new_delta < 0
        THEN IF sum < MinInt \/ base + sum < 0 \/ (base + sum > MaxInt /\ base < 0)
             THEN {} ELSE {sum}
        ELSE {Min({MaxInt, sum})}

\* The int case of try_apply and make_current_nnint64.
ApplySetAdd(view, d) ==
    LET old == {x.delta : x \in view.nnint64_delta}
        agreed == \A x \in view.nnint64_delta : x.set_value = d.set_value
        sums == IF ~agreed THEN {}
                ELSE make_nnint64_delta(d.set_value, IF old = {} THEN 0 ELSE Min(old), d.delta)
    IN  {[view EXCEPT !.nnint64_delta = {[set_value |-> d.set_value, delta |-> sum]},
                      !.current = [type |-> "NONNEGATIVE_INT64",
                                   value |-> Min({MaxInt, d.set_value + sum})]] : sum \in sums}

ApplyInsert(view, d) ==
    LET set == Current(view, "HASH_SET")
    IN  IF \/ d.hash \in set.hashes
           \/ Cardinality(set.hashes) >= set.max_size
           \/ \E n \in view.hs_clear_threshold : n >= d.hash.index
        THEN {}
        ELSE {[view EXCEPT !.current = [set EXCEPT !.hashes = @ \cup {d.hash}],
                           !.new_hashes = Append(@, d.hash)]}

\* The limit of the object changes with the end of the block.
ApplyIncreaseLimit(view, d) ==
    LET old == view.hs_size_increase
    IN  {[view EXCEPT !.current = Current(view, "HASH_SET"),
                      !.hs_size_increase = {IF old = {} THEN d.limit_increase
                                            ELSE Min(old) + d.limit_increase}]}

\* Mutant of ApplyClear: the view keeps what is cleared.
ApplyClear_Later(view, d) ==
    {[view EXCEPT !.current = Current(view, "HASH_SET"),
                  !.hs_clear_threshold = {Max(view.hs_clear_threshold \cup {d.threshold})}]}

ApplyClear(view, d) ==
    LET set == Current(view, "HASH_SET")
        top == Max(view.hs_clear_threshold \cup {d.threshold})
    IN  {[view EXCEPT !.current = [set EXCEPT !.hashes = {h \in @ : h.index > top}],
                      !.hs_clear_threshold = {top}]}

ApplyAssetAdd(view, d) ==
    LET asset == Current(view, "KNOWN_SUPPLY_ASSET")
        sum == d.asset_delta + (IF view.delta = {} THEN 0 ELSE Min(view.delta))
        amount == asset.value + d.asset_delta
    IN  IF sum \notin MinInt .. MaxInt \/ amount \notin 0 .. MaxUint THEN {}
        ELSE {[view EXCEPT !.current = [asset EXCEPT !.value = amount], !.delta = {sum}]}

\* try_apply: the view afterwards, if the delta is not refused.
TryApply(view, d) ==
    IF d.type = "DELETE_LAST" THEN {[view EXCEPT !.is_deleted = TRUE, !.current = NoObject]}
    ELSE IF view.is_deleted \/ ~TypeGuard(view, d) THEN {}
    ELSE CASE d.type = "RAW_MEMORY_WRITE" ->
                {[view EXCEPT !.memory_write = {d.data},
                              !.current = [type |-> "RAW_MEMORY", value |-> d.data]]}
           [] d.type = "NONNEGATIVE_INT64_SET_ADD" -> ApplySetAdd(view, d)
           [] d.type = "HASH_SET_INSERT" -> ApplyInsert(view, d)
           [] d.type = "HASH_SET_INCREASE_LIMIT" -> ApplyIncreaseLimit(view, d)
           [] d.type = "HASH_SET_CLEAR" -> ApplyClear(view, d)
           [] d.type = "ASSET_OBJECT_ADD" -> ApplyAssetAdd(view, d)

\* get_base_nnint64_set_value
BaseValues(view) ==
    IF view.nnint64_delta # {} THEN {x.set_value : x \in view.nnint64_delta}
    ELSE IF view.current = NoObject THEN {0}
    ELSE IF view.current.type = "NONNEGATIVE_INT64" THEN {view.current.value} ELSE {}

-----------------------------------------------------------------------------
(* make_delta.cc                                                           *)

SetAdd(v, d) == [type |-> "NONNEGATIVE_INT64_SET_ADD", set_value |-> v, delta |-> d]
Write(v) == [type |-> "RAW_MEMORY_WRITE", data |-> v]
Insert(h) == [type |-> "HASH_SET_INSERT", hash |-> h]
IncreaseLimit(n) == [type |-> "HASH_SET_INCREASE_LIMIT", limit_increase |-> n]
Clear(n) == [type |-> "HASH_SET_CLEAR", threshold |-> n]
AssetAdd(d) == [type |-> "ASSET_OBJECT_ADD", asset_delta |-> d]
DeleteLast == [type |-> "DELETE_LAST"]

\* The operations of StorageProxy that system calls reach, on a view; {} where
\* it throws a HostError.
raw_memory_write(view, v) == TryApply(view, Write(v))
nonnegative_int64_set_add(view, v, d) == TryApply(view, SetAdd(v, d))
delete_object_last(view) == TryApply(view, DeleteLast)
HashsetInsert(view, h) == TryApply(view, Insert(h))
HashsetClear(view, n) == TryApply(view, Clear(n))
nonnegative_int64_add(view, d) == UNION {TryApply(view, SetAdd(b, d)) : b \in BaseValues(view)}
hashset_increase_limit(view, n) ==
    IF n > MaxLimit THEN {} ELSE TryApply(view, IncreaseLimit(n))

\* get_deltas, in its order.
GetDeltas(view) ==
    LET each(S, D(_)) == SetToSeq({D(x) : x \in S})
    IN  IF ~view.is_deleted /\ view.current = NoObject THEN <<>>
        ELSE each(view.memory_write, Write)
          \o each(view.nnint64_delta, LAMBDA x : SetAdd(x.set_value, x.delta))
          \o each(view.hs_size_increase, LAMBDA n : IncreaseLimit(Min({n, MaxSize})))
          \o [i \in DOMAIN view.new_hashes |-> Insert(view.new_hashes[i])]
          \o each(view.hs_clear_threshold, Clear)
          \o each(view.delta, AssetAdd)
          \o (IF view.is_deleted THEN <<DeleteLast>> ELSE <<>>)
=============================================================================
