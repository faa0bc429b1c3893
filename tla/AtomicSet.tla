----------------------------- MODULE AtomicSet -----------------------------
(***************************************************************************)
(* AtomicSet (hash_set/atomic_set.{h,cc}): the lock-free hash table that   *)
(* holds the elements which the transactions of a block insert into a      *)
(* hash set object.                                                        *)
(*                                                                         *)
(* Open addressing with linear probing.  A slot is 0 (Empty), the index of *)
(* an entry in a thread's arena (here the entry itself), or TOMBSTONE.  A  *)
(* reservation inserts its element and, if its transaction is rolled back, *)
(* erases it again:                                                        *)
(*                                                                         *)
(*    idle -> probe <-> cas -> count -> in | out                           *)
(*    in -> eprobe <-> ecas -> uncount -> out          (or thrown)         *)
(***************************************************************************)
EXTENDS Naturals, FiniteSets

CONSTANTS Ops,              \* the reservations
          Entries,          \* the elements (HashSetEntry)
          Empty,            \* 0
          Tombstone,        \* TOMBSTONE
          NoEntry,          \* the argument of a reservation that has none
          Capacities,       \* the sizes that the array may have
          shorthash(_, _)   \* shorthash(hash, modulus) of crypto_utils

ASSUME SetAssumption ==
    /\ Empty \notin Entries /\ Tombstone \notin Entries /\ NoEntry \notin Entries
    /\ Empty # Tombstone
    /\ Capacities \subseteq Nat \ {0}
    /\ \A h \in Entries : \A c \in Capacities : shorthash(h, c) \in 0 .. c - 1

VARIABLES capacity,          \* the length of array
          array,             \* the slots
          num_filled_slots,  \* a count that lags behind the array
          pc,                \* where each reservation is
          arg,               \* its element
          idx                \* the slot it is looking at

vars == <<capacity, array, num_filled_slots, pc, arg, idx>>
table == <<capacity, array, num_filled_slots>>

Slots == 0 .. capacity - 1

Init ==
    /\ capacity \in Capacities
    /\ array = [i \in Slots |-> Empty]
    /\ num_filled_slots = 0
    /\ pc = [o \in Ops |-> "idle"]
    /\ arg = [o \in Ops |-> NoEntry]
    /\ idx = [o \in Ops |-> 0]

Goto(o, l) == pc' = [pc EXCEPT ![o] = l]

StartIdx(h) == shorthash(h, capacity)

\* idx++, and back to the first slot after the last.
NextIdx(i) == IF i + 1 = capacity THEN 0 ELSE i + 1

\* Mutant of ProbeOn: the scan does not end where it began.
ProbeOn_Forever(o, l, exhausted) ==
    Goto(o, l) /\ idx' = [idx EXCEPT ![o] = NextIdx(idx[o])]

\* The rest of the do-while: the next slot, or the end of the whole scan.
ProbeOn(o, l, exhausted) ==
    IF NextIdx(idx[o]) = StartIdx(arg[o])
    THEN Goto(o, exhausted) /\ UNCHANGED idx
    ELSE Goto(o, l) /\ idx' = [idx EXCEPT ![o] = NextIdx(idx[o])]

-----------------------------------------------------------------------------
(* try_insert                                                              *)

\* Mutant of TryInsert: the table is taken for full one element too soon.
TryInsert_FullEarly(o, h) ==
    /\ pc[o] = "idle"
    /\ arg' = [arg EXCEPT ![o] = h]
    /\ idx' = [idx EXCEPT ![o] = StartIdx(h)]
    /\ Goto(o, IF num_filled_slots + 1 >= capacity THEN "out" ELSE "probe")
    /\ UNCHANGED table

TryInsert(o, h) ==
    /\ pc[o] = "idle"
    /\ arg' = [arg EXCEPT ![o] = h]
    /\ idx' = [idx EXCEPT ![o] = StartIdx(h)]
    /\ Goto(o, IF num_filled_slots >= capacity THEN "out" ELSE "probe")
    /\ UNCHANGED table

\* Mutant of InsertProbe: a tombstone is overwritten.
InsertProbe_Overwrites(o) ==
    /\ pc[o] = "probe"
    /\ \/ /\ array[idx[o]] = Empty
          /\ Goto(o, "cas") /\ UNCHANGED <<table, idx>>
       \/ /\ array[idx[o]] = Tombstone
          /\ array' = [array EXCEPT ![idx[o]] = arg[o]]
          /\ Goto(o, "count") /\ UNCHANGED <<capacity, num_filled_slots, idx>>
       \/ /\ array[idx[o]] = arg[o]
          /\ Goto(o, "out") /\ UNCHANGED <<table, idx>>
       \/ /\ array[idx[o]] \in Entries \ {arg[o]}
          /\ ProbeOn(o, "probe", "out") /\ UNCHANGED table
    /\ UNCHANGED arg

InsertProbe(o) ==
    /\ pc[o] = "probe"
    /\ \/ /\ array[idx[o]] = Empty
          /\ Goto(o, "cas") /\ UNCHANGED idx
       \/ /\ array[idx[o]] = arg[o]
          /\ Goto(o, "out") /\ UNCHANGED idx
       \/ /\ array[idx[o]] \notin {Empty, arg[o]}
          /\ ProbeOn(o, "probe", "out")
    /\ UNCHANGED <<table, arg>>

\* compare_exchange_strong on a slot that was empty when it was loaded; when
\* the slot has been taken in the meantime the same slot is loaded again.
InsertCas(o) ==
    /\ pc[o] = "cas"
    /\ \/ /\ array[idx[o]] = Empty
          /\ array' = [array EXCEPT ![idx[o]] = arg[o]]
          /\ Goto(o, "count")
       \/ /\ array[idx[o]] # Empty
          /\ Goto(o, "probe") /\ UNCHANGED array
    /\ UNCHANGED <<capacity, num_filled_slots, arg, idx>>

CountFilled(o) ==
    /\ pc[o] = "count"
    /\ num_filled_slots' = num_filled_slots + 1
    /\ Goto(o, "in")
    /\ UNCHANGED <<capacity, array, arg, idx>>

-----------------------------------------------------------------------------
(* erase: called by the reservation that inserted the element.             *)

Erase(o) ==
    /\ pc[o] = "in"
    /\ idx' = [idx EXCEPT ![o] = StartIdx(arg[o])]
    /\ Goto(o, "eprobe")
    /\ UNCHANGED <<table, arg>>

EraseProbe(o) ==
    /\ pc[o] = "eprobe"
    /\ \/ /\ array[idx[o]] = arg[o]
          /\ Goto(o, "ecas") /\ UNCHANGED idx
       \/ /\ array[idx[o]] # arg[o]
          /\ ProbeOn(o, IF array[idx[o]] = Empty THEN "thrown" ELSE "eprobe", "thrown")
    /\ UNCHANGED <<table, arg>>

\* Mutant of EraseCas: the slot is made empty, not a tombstone.
EraseCas_ToEmpty(o) ==
    /\ pc[o] = "ecas"
    /\ array[idx[o]] = arg[o]
    /\ array' = [array EXCEPT ![idx[o]] = Empty]
    /\ Goto(o, "uncount")
    /\ UNCHANGED <<capacity, num_filled_slots, arg, idx>>

\* compare_exchange_strong on the slot that held the element when loaded.
EraseCas(o) ==
    LET same == array[idx[o]] = arg[o]
    IN  /\ pc[o] = "ecas"
        /\ array' = IF same THEN [array EXCEPT ![idx[o]] = Tombstone] ELSE array
        /\ Goto(o, IF same THEN "uncount" ELSE "eprobe")
        /\ UNCHANGED <<capacity, num_filled_slots, arg, idx>>

UncountFilled(o) ==
    /\ pc[o] = "uncount"
    /\ num_filled_slots' = num_filled_slots - 1
    /\ Goto(o, "out")
    /\ UNCHANGED <<capacity, array, arg, idx>>

-----------------------------------------------------------------------------
\* The thread goes on to its next reservation, in this block or, when the
\* object was not committed to, in a later one: the table is not cleared.
Again(o) ==
    /\ pc[o] = "out"
    /\ Goto(o, "idle")
    /\ arg' = [arg EXCEPT ![o] = NoEntry]
    /\ idx' = [idx EXCEPT ![o] = 0]
    /\ UNCHANGED table

Quiescent == \A o \in Ops : pc[o] \in {"idle", "in", "out"}

\* The end of a round: resize(new), which never shrinks, and clear.
EndRound(new) ==
    /\ Quiescent
    /\ capacity' = IF new < capacity THEN capacity ELSE new
    /\ array' = [i \in 0 .. capacity' - 1 |-> Empty]
    /\ num_filled_slots' = 0
    /\ pc' = [o \in Ops |-> "idle"]
    /\ arg' = [o \in Ops |-> NoEntry]
    /\ idx' = [o \in Ops |-> 0]

CallStep(o) ==
    \/ InsertProbe(o) \/ InsertCas(o) \/ CountFilled(o)
    \/ EraseProbe(o) \/ EraseCas(o) \/ UncountFilled(o)

Next ==
    \/ \E o \in Ops : \/ \E h \in Entries : TryInsert(o, h)
                      \/ Erase(o) \/ Again(o) \/ CallStep(o)
    \/ \E new \in Capacities : EndRound(new)

Spec == Init /\ [][Next]_vars

\* A thread that is inside try_insert or erase keeps running.
FairSpec == Spec /\ \A o \in Ops : WF_vars(CallStep(o))

-----------------------------------------------------------------------------
(* Properties                                                              *)

Labels == {"idle", "probe", "cas", "count", "in", "eprobe", "ecas", "uncount",
           "out", "thrown"}

\* The type invariant of the table and of the locals of try_insert and erase:
\* the count of filled slots never wraps below zero.
TypeOK ==
    /\ capacity \in Capacities
    /\ array \in [Slots -> Entries \cup {Empty, Tombstone}]
    /\ num_filled_slots \in Nat
    /\ pc \in [Ops -> Labels]
    /\ arg \in [Ops -> Entries \cup {NoEntry}]
    /\ idx \in [Ops -> Slots]

\* get_hashes returns an element once: no element is in two slots, however
\* the insertions and erasures of equal and of colliding elements interleave.
NoDuplicates ==
    \A i, j \in Slots : array[i] \in Entries /\ array[i] = array[j] => i = j

\* erase throws in a destructor if it does not find its element: it does not.
EraseFinds == \A o \in Ops : pc[o] # "thrown"

\* A call of try_insert or of erase returns: a scan that loses races, or meets
\* nothing but other elements and tombstones, comes to its end.
CallsReturn ==
    \A o \in Ops : pc[o] \notin {"idle", "in", "out", "thrown"}
                     ~> pc[o] \in {"in", "out"}

\* How the table stands for the state of SlotSet.
Elements == {array[i] : i \in Slots} \cap Entries
Used == {i \in Slots : array[i] # Empty}
StatusOf(label) ==
    CASE label \in {"probe", "cas"} -> "inserting"
      [] label \in {"count", "in", "eprobe", "ecas"} -> "in"
      [] label = "uncount" -> "out"
      [] OTHER -> label
Status == [o \in Ops |-> StatusOf(pc[o])]

Abstract == INSTANCE SlotSet WITH
    elements <- Elements, used <- Used, slots <- Slots, st <- Status

\* Every step of the table is a step of SlotSet or leaves its state unchanged.
ImplementsSlotSet == Abstract!Spec
=============================================================================
