-------------------------- MODULE RevertableObject --------------------------
(***************************************************************************)
(* RevertableObject (object/revertable_object.{h,cc}): the value of one    *)
(* storage key during a block.                                             *)
(*                                                                         *)
(* The transactions of a block run concurrently on the value that the last *)
(* block committed.  A transaction offers its deltas with try_add_delta,   *)
(* which reserves room for each of them in shared counters, and later      *)
(* commits them or, by destroying its DeltaRewinds, reverts them.  At the  *)
(* end of the block commit_round merges the counters into the value.       *)
(*                                                                         *)
(* One member of Ops is one delta of one transaction.  Every access to a   *)
(* counter is a step of its own; a compare-exchange loop is one step, and  *)
(* so is a call of base_obj (RevertableBase, which implements AgreedBase)  *)
(* or of new_hashes (AtomicSet), whose own steps have modules of their own.*)
(*                                                                         *)
(*    idle -> based -> [insert | uncount ->] held | unbase -> void         *)
(*    held -> [raise ->] [final ->] committed                              *)
(*    held -> [erase ->] unbase -> void                                    *)
(***************************************************************************)
EXTENDS Outcomes

CONSTANTS Ops,             \* the deltas that a block may apply to the object
          Deltas,          \* the StorageDeltas they may be
          InitialObjects   \* the objects that may be found on disk

VARIABLES base,       \* base_obj: [agreed, counted, final]
          mods,       \* the counters of the round
          slots,      \* new_hashes.capacity
          committed,  \* committed_base
          pc,         \* where each delta is
          delta       \* the delta itself

vars == <<base, mods, slots, committed, pc, delta>>
shared == <<base, mods, slots, committed>>

NoDelta == [type |-> "none"]

\* The StorageDeltas of the XDR type: the amounts are int64, and a threshold,
\* an increase or an index is unsigned.
StorageDeltas ==
    [type : {"DELETE_LAST"}]
      \cup [type : {"RAW_MEMORY_WRITE"}, data : Nat]
      \cup [type : {"NONNEGATIVE_INT64_SET_ADD"},
            set_value : MinInt .. MaxInt, delta : MinInt .. MaxInt]
      \cup [type : {"ASSET_OBJECT_ADD"}, asset_delta : MinInt .. MaxInt]
      \cup [type : {"HASH_SET_INSERT"}, hash : [index : Nat, hash : Nat]]
      \cup [type : {"HASH_SET_INCREASE_LIMIT"}, limit_increase : Nat]
      \cup [type : {"HASH_SET_CLEAR"}, threshold : Nat]

\* The elements that a set may come to hold.
Entries == {d.hash : d \in {x \in Deltas : x.type = "HASH_SET_INSERT"}}

Objects ==
    [type : {"NONNEGATIVE_INT64"}, value : MinInt .. MaxInt]
      \cup [type : {"RAW_MEMORY"}, value : Nat]
      \cup [type : {"KNOWN_SUPPLY_ASSET"}, value : 0 .. MaxUint]
      \cup [type : {"HASH_SET"}, hashes : SUBSET Entries, max_size : 0 .. MaxSize]

ASSUME ObjectAssumption ==
    /\ MaxInt \in Nat /\ StartSize \in Nat /\ MaxSize \in Nat
    /\ IsFiniteSet(Ops) /\ IsFiniteSet(Deltas)
    /\ Deltas \subseteq StorageDeltas
    /\ InitialObjects \subseteq Objects

-----------------------------------------------------------------------------
(* Objects and counters.                                                   *)

object_from_delta_class(dc, prev) ==
    CASE dc.type \in {"NONNEGATIVE_INT64", "RAW_MEMORY"} -> dc
      [] dc.type = "HASH_SET" ->
            IF prev = NoObject
            THEN [type |-> "HASH_SET", hashes |-> {}, max_size |-> StartSize]
            ELSE prev
      [] dc.type = "KNOWN_SUPPLY_ASSET" -> IF prev = NoObject THEN dc ELSE prev

NewBase == [agreed |-> NoObject, counted |-> {}, final |-> FALSE]

\* The counters when no delta is in them: used are the slots of new_hashes that
\* an insertion took, those that are tombstones by now included.
NoMods(object, used) ==
    [total_subtracted |-> 0, total_added |-> 0, size_increase |-> 0,
     new_hashes |-> {}, used |-> used, num_new_elts |-> 0,
     hashset_clear_committed |-> FALSE, max_committed_clear_threshold |-> 0,
     delete_last_committed |-> FALSE,
     available_asset |-> Supply(object), available_asset_upperbound |-> Supply(object)]

clear_mods(object) == NoMods(object, 0)

\* The two constructors.
Init ==
    /\ committed \in InitialObjects \cup {NoObject}
    /\ base = NewBase
    /\ mods = clear_mods(committed)
    /\ slots = SlotsFor(committed)
    /\ pc = [o \in Ops |-> "idle"]
    /\ delta = [o \in Ops |-> NoDelta]

Goto(o, l) == pc' = [pc EXCEPT ![o] = l]

-----------------------------------------------------------------------------
(* base_obj, one step per call.                                            *)

CanSet(dc) == TypeAllowed(committed, dc) /\ base.agreed \in {NoObject, dc}

\* A finalized base needs no undoing: its Rewind is not counted.
BaseSet(o, dc) ==
    base' = [base EXCEPT !.agreed = dc,
                         !.counted = IF base.final THEN @ ELSE @ \cup {o}]

BaseCommit(o) ==
    base' = [base EXCEPT !.final = @ \/ o \in base.counted,
                         !.counted = @ \ {o}]

BaseRevert(o) ==
    base' = [base EXCEPT !.counted = @ \ {o},
                         !.agreed = IF o \in base.counted /\ ~base.final
                                       /\ base.counted = {o}
                                    THEN NoObject ELSE @]

-----------------------------------------------------------------------------
(* try_add_delta                                                           *)

\* Deltas that change no counter when they are added.
AddsNothing(d) == d.type \in {"DELETE_LAST", "RAW_MEMORY_WRITE", "HASH_SET_CLEAR"}

\* DELETE_LAST does not look at the base object.
AddDeleteLast(o, d) ==
    /\ pc[o] = "idle"
    /\ d.type = "DELETE_LAST"
    /\ delta' = [delta EXCEPT ![o] = d]
    /\ Goto(o, "held")
    /\ UNCHANGED shared

AddDelta(o, d) ==
    /\ pc[o] = "idle"
    /\ d.type # "DELETE_LAST"
    /\ delta' = [delta EXCEPT ![o] = d]
    /\ \/ /\ CanSet(DeltaClass(d))
          /\ BaseSet(o, DeltaClass(d))
          /\ Goto(o, IF AddsNothing(d) THEN "held" ELSE "based")
       \/ /\ ~CanSet(DeltaClass(d))
          /\ Goto(o, "void")
          /\ UNCHANGED base
    /\ UNCHANGED <<mods, slots, committed>>

\* Mutant of SubtractFits: nothing is compared.
SubtractFits_Unchecked(set_value, sub) == TRUE

\* Mutant of SubtractFits: the last unit cannot be taken.
SubtractFits_Strict(set_value, sub) ==
    sub >= MinInt /\ set_value >= 0 /\ set_value + sub > 0

\* The test of the loop on total_subtracted.
SubtractFits(set_value, sub) ==
    sub >= MinInt /\ set_value >= 0 /\ set_value + sub >= 0

ApplySetAdd(o) ==
    LET d == delta[o].delta
        sub == mods.total_subtracted + d
    IN  /\ pc[o] = "based"
        /\ delta[o].type = "NONNEGATIVE_INT64_SET_ADD"
        /\ \/ /\ d >= 0
              /\ mods' = [mods EXCEPT !.total_added = @ + d]
              /\ Goto(o, "held")
           \/ /\ d < 0 /\ SubtractFits(delta[o].set_value, sub)
              /\ mods' = [mods EXCEPT !.total_subtracted = sub]
              /\ Goto(o, "held")
           \/ /\ d < 0 /\ ~SubtractFits(delta[o].set_value, sub)
              /\ Goto(o, "unbase")
              /\ UNCHANGED mods
        /\ UNCHANGED <<base, slots, committed, delta>>

try_add_uint64(d, n) == n + d \in 0 .. MaxUint

\* available_asset is what is left if every pending subtraction commits and
\* no pending addition does; the upper bound is the opposite.
ApplyAssetAdd(o) ==
    LET d == delta[o].asset_delta
    IN  /\ pc[o] = "based"
        /\ delta[o].type = "ASSET_OBJECT_ADD"
        /\ \/ /\ d < 0 /\ try_add_uint64(d, mods.available_asset)
              /\ mods' = [mods EXCEPT !.available_asset = @ + d]
              /\ Goto(o, "held")
           \/ /\ d >= 0 /\ try_add_uint64(d, mods.available_asset_upperbound)
              /\ mods' = [mods EXCEPT !.available_asset_upperbound = @ + d]
              /\ Goto(o, "held")
           \/ /\ IF d < 0 THEN ~try_add_uint64(d, mods.available_asset)
                          ELSE ~try_add_uint64(d, mods.available_asset_upperbound)
              /\ Goto(o, "unbase")
              /\ UNCHANGED mods
        /\ UNCHANGED <<base, slots, committed, delta>>

ApplyIncreaseLimit(o) ==
    /\ pc[o] = "based"
    /\ delta[o].type = "HASH_SET_INCREASE_LIMIT"
    /\ mods' = [mods EXCEPT !.size_increase = @ + delta[o].limit_increase]
    /\ Goto(o, "held")
    /\ UNCHANGED <<base, slots, committed, delta>>

\* Mutant of RoomFor: the elements of the round alone are compared.
RoomFor_NewOnly(num) == num <= SizeLimit(committed)

RoomFor(num) == Cardinality(Hashes(committed)) + num <= SizeLimit(committed)

\* The committed set is searched, then the element is counted, then inserted.
CountElement(o) ==
    /\ pc[o] = "based"
    /\ delta[o].type = "HASH_SET_INSERT"
    /\ \/ /\ delta[o].hash \in Hashes(committed)
          /\ Goto(o, "unbase")
          /\ UNCHANGED mods
       \/ /\ delta[o].hash \notin Hashes(committed)
          /\ mods' = [mods EXCEPT !.num_new_elts = @ + 1]
          /\ Goto(o, IF RoomFor(mods.num_new_elts + 1) THEN "insert" ELSE "uncount")
    /\ UNCHANGED <<base, slots, committed, delta>>

\* Mutant of InsertHash: an element that is there already is inserted.
InsertHash_Again(o) ==
    /\ pc[o] = "insert"
    /\ mods.used < slots
    /\ mods' = [mods EXCEPT !.new_hashes = @ \cup {delta[o].hash},
                            !.used = @ + 1]
    /\ Goto(o, "held")
    /\ UNCHANGED <<base, slots, committed, delta>>

\* new_hashes.try_insert: a tombstone is not used again.
InsertHash(o) ==
    /\ pc[o] = "insert"
    /\ \/ /\ delta[o].hash \notin mods.new_hashes
          /\ mods.used < slots
          /\ mods' = [mods EXCEPT !.new_hashes = @ \cup {delta[o].hash},
                                  !.used = @ + 1]
          /\ Goto(o, "held")
       \/ /\ delta[o].hash \in mods.new_hashes \/ mods.used = slots
          /\ Goto(o, "uncount")
          /\ UNCHANGED mods
    /\ UNCHANGED <<base, slots, committed, delta>>

\* Mutant of UncountElement: the count of a refused element is kept.
UncountElement_Keeps(o) ==
    /\ pc[o] = "uncount"
    /\ Goto(o, "unbase")
    /\ UNCHANGED <<shared, delta>>

UncountElement(o) ==
    /\ pc[o] = "uncount"
    /\ mods' = [mods EXCEPT !.num_new_elts = @ - 1]
    /\ Goto(o, "unbase")
    /\ UNCHANGED <<base, slots, committed, delta>>

\* The destructor of the Rewind of base_obj: last, whether try_add_delta
\* returns nullopt or a DeltaRewind is destroyed.
Unbase(o) ==
    /\ pc[o] = "unbase"
    /\ BaseRevert(o)
    /\ Goto(o, "void")
    /\ UNCHANGED <<mods, slots, committed, delta>>

-----------------------------------------------------------------------------
(* DeltaRewind::commit: commit_delta, then the base object.                *)

wrap(n) == n % (MaxUint + 1)

CommittedMods(d) ==
    CASE d.type = "DELETE_LAST" -> [mods EXCEPT !.delete_last_committed = TRUE]
      [] d.type = "HASH_SET_CLEAR" -> [mods EXCEPT !.hashset_clear_committed = TRUE]
      [] d.type = "ASSET_OBJECT_ADD" ->
           IF d.asset_delta < 0
           THEN [mods EXCEPT !.available_asset_upperbound = wrap(@ + d.asset_delta)]
           ELSE [mods EXCEPT !.available_asset = wrap(@ + d.asset_delta)]
      [] OTHER -> mods

CommitDelta(o) ==
    /\ pc[o] = "held"
    /\ mods' = CommittedMods(delta[o])
    /\ Goto(o, CASE delta[o].type = "HASH_SET_CLEAR" -> "raise"
                 [] delta[o].type = "DELETE_LAST" -> "committed"
                 [] OTHER -> "final")
    /\ UNCHANGED <<base, slots, committed, delta>>

\* Mutant of RaiseThreshold: the last threshold wins, not the highest.
RaiseThreshold_Last(o) ==
    /\ pc[o] = "raise"
    /\ mods' = [mods EXCEPT !.max_committed_clear_threshold = delta[o].threshold]
    /\ Goto(o, "final")
    /\ UNCHANGED <<base, slots, committed, delta>>

RaiseThreshold(o) ==
    /\ pc[o] = "raise"
    /\ mods' = [mods EXCEPT !.max_committed_clear_threshold =
                                Max({@, delta[o].threshold})]
    /\ Goto(o, "final")
    /\ UNCHANGED <<base, slots, committed, delta>>

FinalizeBase(o) ==
    /\ pc[o] = "final"
    /\ BaseCommit(o)
    /\ Goto(o, "committed")
    /\ UNCHANGED <<mods, slots, committed, delta>>

-----------------------------------------------------------------------------
(* DeltaRewind::~DeltaRewind: revert_delta, then the base object.          *)

RevertedMods(d) ==
    CASE d.type = "NONNEGATIVE_INT64_SET_ADD" ->
           IF d.delta < 0 THEN [mods EXCEPT !.total_subtracted = @ - d.delta]
                          ELSE [mods EXCEPT !.total_added = @ - d.delta]
      [] d.type = "HASH_SET_INCREASE_LIMIT" ->
           [mods EXCEPT !.size_increase = @ - d.limit_increase]
      [] d.type = "HASH_SET_INSERT" -> [mods EXCEPT !.num_new_elts = @ - 1]
      [] d.type = "ASSET_OBJECT_ADD" ->
           IF d.asset_delta < 0
           THEN [mods EXCEPT !.available_asset = wrap(@ - d.asset_delta)]
           ELSE [mods EXCEPT !.available_asset_upperbound = wrap(@ - d.asset_delta)]
      [] OTHER -> mods

RevertDelta(o) ==
    /\ pc[o] = "held"
    /\ mods' = RevertedMods(delta[o])
    /\ Goto(o, CASE delta[o].type = "HASH_SET_INSERT" -> "erase"
                 [] delta[o].type = "DELETE_LAST" -> "void"
                 [] OTHER -> "unbase")
    /\ UNCHANGED <<base, slots, committed, delta>>

EraseHash(o) ==
    /\ pc[o] = "erase"
    /\ mods' = [mods EXCEPT !.new_hashes = @ \ {delta[o].hash}]
    /\ Goto(o, "unbase")
    /\ UNCHANGED <<base, slots, committed, delta>>

-----------------------------------------------------------------------------
(* The end of the block: never concurrent with a delta.                    *)

fetch_cap(n) == Min({n, MaxUint})

\* What commit_round makes of the object before it clears the counters.

\* Mutant of MergedInt: the sum is not saturated.
MergedInt_Wraps(object) ==
    LET sum == object.value + mods.total_subtracted + fetch_cap(mods.total_added)
    IN  [object EXCEPT !.value = IF sum > MaxInt THEN sum - (MaxUint + 1) ELSE sum]

MergedInt(object) ==
    LET subtracted == object.value + mods.total_subtracted
    IN  [object EXCEPT !.value = Min({MaxInt, subtracted + fetch_cap(mods.total_added)})]

MergedHashSet(object) ==
    [object EXCEPT
       !.max_size = Min({MaxSize, @ + mods.size_increase}),
       !.hashes = {h \in @ \cup mods.new_hashes :
                     ~mods.hashset_clear_committed
                       \/ h.index > mods.max_committed_clear_threshold}]

Merged ==
    LET object == IF base.agreed = NoObject THEN committed
                  ELSE object_from_delta_class(base.agreed, committed)
    IN  CASE object = NoObject -> NoObject
          [] object # NoObject /\ mods.delete_last_committed -> NoObject
          [] OTHER ->
               CASE object.type = "NONNEGATIVE_INT64" -> MergedInt(object)
                 [] object.type = "RAW_MEMORY" -> object
                 [] object.type = "HASH_SET" -> MergedHashSet(object)
                 [] object.type = "KNOWN_SUPPLY_ASSET" ->
                      [object EXCEPT !.value = mods.available_asset]

\* new_hashes grows with the limit, also past MaxSize.
GrownSlots ==
    IF Merged.type = "HASH_SET" /\ mods.size_increase > 0
    THEN Max({slots, Slots(mods.size_increase + SizeLimit(committed))})
    ELSE slots

Quiescent == \A o \in Ops : pc[o] \in {"idle", "committed", "void"}
Committed == {o \in Ops : pc[o] = "committed"}

NextBlock ==
    /\ pc' = [o \in Ops |-> "idle"]
    /\ delta' = [o \in Ops |-> NoDelta]

\* The key was logged by a transaction that committed.  An object that is left
\* without a value is destroyed by the state database.
CommitRound ==
    /\ Quiescent
    /\ Committed # {}
    /\ committed' = Merged
    /\ mods' = clear_mods(Merged)
    /\ base' = NewBase
    /\ slots' = IF Merged = NoObject THEN SlotsFor(NoObject) ELSE GrownSlots
    /\ NextBlock

\* The block is undone.
RewindRound ==
    /\ Quiescent
    /\ Committed # {}
    /\ base' = NewBase
    /\ mods' = clear_mods(committed)
    /\ UNCHANGED <<slots, committed>>
    /\ NextBlock

\* No transaction on this key committed: nobody logged the key, and neither
\* commit_round nor rewind_round is called on the object.
UnloggedRound ==
    /\ Quiescent
    /\ Committed = {}
    /\ NextBlock
    /\ UNCHANGED shared

AddStep(o) ==
    \/ \E d \in Deltas : AddDeleteLast(o, d) \/ AddDelta(o, d)
    \/ ApplySetAdd(o) \/ ApplyAssetAdd(o) \/ ApplyIncreaseLimit(o)
    \/ CountElement(o) \/ InsertHash(o) \/ UncountElement(o)

Next ==
    \/ \E o \in Ops : AddStep(o) \/ Unbase(o)
    \/ \E o \in Ops : CommitDelta(o) \/ RaiseThreshold(o) \/ FinalizeBase(o)
    \/ \E o \in Ops : RevertDelta(o) \/ EraseHash(o)
    \/ CommitRound \/ RewindRound \/ UnloggedRound

Spec == Init /\ [][Next]_vars

-----------------------------------------------------------------------------
(* Properties                                                              *)

Labels == {"idle", "based", "insert", "uncount", "held", "raise", "final",
           "erase", "unbase", "committed", "void"}

DeltaClasses ==
    [type : {"NONNEGATIVE_INT64"}, value : MinInt .. MaxInt]
      \cup [type : {"RAW_MEMORY"}, value : Nat]
      \cup [type : {"KNOWN_SUPPLY_ASSET", "HASH_SET"}, value : {0}]

\* The type invariant of the object's fields.  The counters hold in their
\* widths: an unsigned one never wraps below zero, and no element of the
\* block is in the committed set already.
TypeOK ==
    /\ base \in [agreed : DeltaClasses \cup {NoObject},
                 counted : SUBSET Ops, final : BOOLEAN]
    /\ mods \in [total_subtracted : MinInt .. 0, total_added : Nat,
                 size_increase : Nat,
                 new_hashes : SUBSET (Entries \ Hashes(committed)), used : 0 .. slots,
                 num_new_elts : 0 .. Cardinality(Ops),
                 hashset_clear_committed : BOOLEAN,
                 max_committed_clear_threshold : Nat,
                 delete_last_committed : BOOLEAN,
                 available_asset : 0 .. MaxUint,
                 available_asset_upperbound : 0 .. MaxUint]
    /\ Cardinality(mods.new_hashes) <= mods.used
    /\ slots \in Nat
    /\ committed \in Objects \cup {NoObject}
    /\ pc \in [Ops -> Labels]
    /\ delta \in [Ops -> Deltas \cup {NoDelta}]

\* The deltas that are in a DeltaRewind, which may be committed or destroyed,
\* and those that can no longer be reverted.
Standing == {o \in Ops : pc[o] = "held"}
Decided == {o \in Ops : pc[o] \in {"raise", "final", "committed"}}

\* What a reservation is for: whichever of the transactions that hold one go on
\* to commit, and whichever revert, the object gets a legal value: all agree
\* on the base, an integer does not become negative, an asset stays between
\* 0 and UINT64_MAX (revertable_object.h:138-140), and a set holds distinct elements
\* within its limit.
AnyOutcomeLegal == \A S \in SUBSET Standing : Legal(committed, delta, Decided \cup S)

\* commit_round gives the object the value that the deltas which committed give
\* it, whatever was reserved and reverted beside them and in whatever order
\* their steps came.
MergeIsOutcome ==
    Quiescent /\ Committed # {} => Merged = Outcome(committed, delta, Committed)

\* Deltas that are all refused or reverted leave the object as if they had not
\* been tried; only slots of new_hashes stay used.  Nothing else would clear
\* it, since the key is not logged and the next block goes on with it.
LeavesNoTrace ==
    Quiescent /\ Committed = {}
      => base = NewBase /\ mods = NoMods(committed, mods.used)

\* AtomicSet::erase throws, inside a destructor, when it does not find the
\* element: each delta that may yet erase one put it there, and nobody else
\* removes it.
Inserted(o) ==
    /\ delta[o].type = "HASH_SET_INSERT"
    /\ pc[o] \in {"held", "erase", "final", "committed"}
EraseFindsElement == \A o \in Ops : Inserted(o) => delta[o].hash \in mods.new_hashes

Admitted(o) == Admits(committed, delta, Standing, Decided, o)
HasAmount(o) == delta[o].type \in {"ASSET_OBJECT_ADD", "NONNEGATIVE_INT64_SET_ADD"}

\* Admits is when a delta is admitted.  None is reserved against it, and no
\* amount is refused within it: an addition to or a subtraction from an asset
\* or an integer is refused only because, with some of the deltas that stand,
\* it would make the value illegal.
AdmissionIsExact ==
    [][\A o \in Ops :
         /\ pc[o] \in {"based", "insert"} /\ pc'[o] = "held" => Admitted(o)
         /\ pc[o] = "based" /\ pc'[o] = "unbase" /\ HasAmount(o) => ~Admitted(o)]_vars
=============================================================================
