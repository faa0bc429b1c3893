----------------------------- MODULE PartsProofs -----------------------------
(***************************************************************************)
(* The theorems about the parts that MCParts checks side by side: the set  *)
(* of hashes, the list of hashes that is cleared by a threshold, and the   *)
(* wide counter.  They share no variable and no constant, and each section *)
(* reasons about one of them alone.                                        *)
(***************************************************************************)
EXTENDS AtomicSet, HashSetUtils, AtomicUint128, SumTheorems, SequenceTheorems,
        FiniteSetTheorems, TLAPS

(***************************************************************************)
(* No element is twice in an AtomicSet and erase always finds its element, *)
(* for every number of threads, set of elements, table size and hash.      *)
(*                                                                         *)
(* A slot that was taken is never empty again.  So the slots between an    *)
(* element's first choice and the slot it is in stay taken, a second       *)
(* insertion of the element runs into it, and its erasure cannot stop      *)
(* before it.                                                              *)
(*                                                                         *)
(* The count of filled slots lags behind the table and never runs ahead,   *)
(* so try_insert reports a full table only when it is full, and the table  *)
(* implements the set of SlotSet, whose calls are single steps.            *)
(***************************************************************************)

\* The slots that a scan for h has left behind when it is at slot i.
Passed(h, i) ==
    IF StartIdx(h) <= i THEN {j \in Slots : StartIdx(h) <= j /\ j < i}
    ELSE {j \in Slots : StartIdx(h) <= j \/ j < i}

\* The reservations that own an element of the table.
Owner(o) == pc[o] \in {"count", "in", "eprobe", "ecas"}
Busy(o) == pc[o] \notin {"idle"}

ArgInv == \A o \in Ops : Busy(o) => arg[o] \in Entries

\* The count plays no part below.
TableOK ==
    /\ capacity \in Capacities
    /\ array \in [Slots -> Entries \cup {Empty, Tombstone}]
    /\ pc \in [Ops -> Labels]
    /\ arg \in [Ops -> Entries \cup {NoEntry}]
    /\ idx \in [Ops -> Slots]

\* The slots before an element's own are taken, and not by the element.
ChainInv ==
    \A i \in Slots : array[i] \in Entries =>
        \A j \in Passed(array[i], i) : array[j] # Empty /\ array[j] # array[i]

\* So are those that an insertion has passed.
ProbeInv ==
    \A o \in Ops : pc[o] \in {"probe", "cas"} =>
        \A j \in Passed(arg[o], idx[o]) : array[j] # Empty /\ array[j] # arg[o]

\* An erasure has not passed its element.
EraseInv ==
    \A o \in Ops :
        /\ pc[o] = "eprobe" => \A j \in Passed(arg[o], idx[o]) : array[j] # arg[o]
        /\ pc[o] = "ecas" => array[idx[o]] = arg[o]
        /\ pc[o] # "thrown"

\* An owner's element is in the table, and has no other owner.
OwnerInv ==
    /\ \A o \in Ops : Owner(o) => \E i \in Slots : array[i] = arg[o]
    /\ \A o, p \in Ops : Owner(o) /\ Owner(p) /\ arg[o] = arg[p] => o = p

IInv == TableOK /\ ArgInv /\ ChainInv /\ ProbeInv /\ EraseInv /\ OwnerInv

-----------------------------------------------------------------------------
(* Arithmetic of the scan.                                                 *)

LEMMA StartInSlots ==
  ASSUME TableOK, NEW h \in Entries
  PROVE  /\ StartIdx(h) \in Slots
         /\ capacity \in Nat \ {0}
  BY SetAssumption DEF TableOK, StartIdx, Slots

\* Of two slots one is before the other on a scan.
LEMMA PassedTotal ==
  ASSUME TableOK, NEW h \in Entries, NEW i \in Slots, NEW j \in Slots, i # j
  PROVE  i \in Passed(h, j) \/ j \in Passed(h, i)
  BY StartInSlots DEF Passed, Slots

LEMMA PassedStart ==
  ASSUME TableOK, NEW h \in Entries
  PROVE  Passed(h, StartIdx(h)) = {}
  BY StartInSlots DEF Passed, Slots

LEMMA PassedNext ==
  ASSUME TableOK, NEW h \in Entries, NEW i \in Slots
  PROVE  /\ NextIdx(i) \in Slots
         /\ NextIdx(i) # StartIdx(h) => Passed(h, NextIdx(i)) = Passed(h, i) \cup {i}
         /\ NextIdx(i) = StartIdx(h) => Slots = Passed(h, i) \cup {i}
  BY StartInSlots DEF Passed, Slots, NextIdx

LEMMA FirstSlot == \A c \in Capacities : 0 \in 0 .. c - 1
  <1>1. \A c \in Nat \ {0} : 0 \in 0 .. c - 1
    OBVIOUS
  <1>2. QED
    BY <1>1, SetAssumption

LEMMA PassedSlots ==
  ASSUME NEW h, NEW i
  PROVE  Passed(h, i) \subseteq Slots
  BY DEF Passed

-----------------------------------------------------------------------------
LEMMA InvInit == Init => IInv
  <1> SUFFICES ASSUME Init PROVE IInv
    OBVIOUS
  <1> USE SetAssumption DEF Init
  <1>1. TableOK
    BY DEF TableOK, Labels, Slots
  <1>2. QED
    BY <1>1 DEF IInv, ArgInv, Busy, ChainInv, ProbeInv, EraseInv, OwnerInv, Owner

\* A reservation moves to label l and slot i; the table is as it was.
LEMMA QuietMove ==
  ASSUME IInv, NEW o \in Ops, NEW l \in Labels,
         UNCHANGED <<capacity, array>>,
         pc' = [pc EXCEPT ![o] = l],
         arg' \in [Ops -> Entries \cup {NoEntry}],
         idx' \in [Ops -> Slots],
         \A p \in Ops \ {o} : arg'[p] = arg[p] /\ idx'[p] = idx[p],
         l # "thrown",
         l # "idle" => arg'[o] \in Entries,
         l \in {"count", "in", "eprobe", "ecas"} => Owner(o) /\ arg'[o] = arg[o],
         l \in {"probe", "cas"} =>
            \A j \in Passed(arg'[o], idx'[o]) : array[j] # Empty /\ array[j] # arg'[o],
         l = "eprobe" => \A j \in Passed(arg'[o], idx'[o]) : array[j] # arg'[o],
         l = "ecas" => array[idx'[o]] = arg'[o]
  PROVE  IInv'
  <1> USE DEF IInv
  <1>0. /\ pc \in [Ops -> Labels]
        /\ pc'[o] = l
        /\ \A p \in Ops \ {o} : pc'[p] = pc[p]
    BY DEF TableOK
  <1>a. /\ Slots' = Slots
        /\ \A h, i : Passed(h, i)' = Passed(h, i)
    BY DEF Slots, Passed, StartIdx
  <1>1. TableOK'
    BY <1>a DEF TableOK
  <1>2. ArgInv'
    BY <1>0 DEF ArgInv, Busy
  <1>3. ChainInv'
    BY <1>a DEF ChainInv, Passed, StartIdx
  <1>4. ProbeInv'
    BY <1>0, <1>a DEF ProbeInv, Passed, StartIdx
  <1>5. EraseInv'
    BY <1>0, <1>a DEF EraseInv, Passed, StartIdx
  <1>6. OwnerInv'
    BY <1>0, <1>a DEF OwnerInv, Owner
  <1>7. QED
    BY <1>1, <1>2, <1>3, <1>4, <1>5, <1>6

-----------------------------------------------------------------------------
(* One lemma for each step that changes a slot.                            *)

LEMMA InsertTakesSlot ==
  ASSUME IInv, NEW o \in Ops, pc[o] = "cas", array[idx[o]] = Empty,
         array' = [array EXCEPT ![idx[o]] = arg[o]],
         pc' = [pc EXCEPT ![o] = "count"],
         UNCHANGED <<capacity, arg, idx>>
  PROVE  IInv'
  <1> DEFINE h == arg[o]
             k == idx[o]
  <1> USE DEF IInv
  <1>0. /\ h \in Entries /\ k \in Slots
        /\ pc'[o] = "count"
        /\ \A p \in Ops \ {o} : pc'[p] = pc[p]
        /\ \A i \in Slots : array[i] \in Entries \cup {Empty, Tombstone}
        /\ Empty \notin Entries
    BY SetAssumption DEF TableOK, ArgInv, Busy
  <1>a. /\ Slots' = Slots
        /\ array'[k] = h
        /\ \A i \in Slots \ {k} : array'[i] = array[i]
    BY <1>0 DEF Slots, TableOK
  <1>b. \A j \in Passed(h, k) : array[j] # Empty /\ array[j] # h
    BY DEF ProbeInv
  <1>c. \A i \in Slots : array[i] # h
    <2> SUFFICES ASSUME NEW i \in Slots, array[i] = h PROVE FALSE
      OBVIOUS
    <2>1. i # k
      BY <1>0
    <2>2. i \in Passed(h, k) \/ k \in Passed(h, i)
      BY <1>0, <2>1, PassedTotal
    <2>3. \A j \in Passed(h, i) : array[j] # Empty
      BY <1>0 DEF ChainInv
    <2>4. QED
      BY <1>b, <2>2, <2>3
  <1>1. TableOK'
    BY <1>0, <1>a DEF TableOK, Labels
  <1>2. ArgInv'
    BY <1>0 DEF ArgInv, Busy
  <1>3. ChainInv'
    <2> SUFFICES ASSUME NEW i \in Slots, array'[i] \in Entries,
                        NEW j \in Passed(array'[i], i)
                 PROVE  array'[j] # Empty /\ array'[j] # array'[i]
      BY <1>a DEF ChainInv, Passed, StartIdx
    <2>1. j \in Slots
      BY PassedSlots
    <2>2. CASE i = k
      <3>1. j # k
        BY <1>0, <1>a, <2>2, StartInSlots DEF Passed, Slots
      <3>2. QED
        BY <1>a, <1>b, <2>1, <2>2, <3>1
    <2>3. CASE i # k
      <3>1. array[i] = array'[i] /\ array[j] # Empty /\ array[j] # array[i]
        BY <1>a, <2>3 DEF ChainInv
      <3>2. QED
        BY <1>0, <1>a, <1>c, <2>1, <2>3, <3>1
    <2>4. QED
      BY <2>2, <2>3
  <1>4. ProbeInv'
    <2> SUFFICES ASSUME NEW p \in Ops, pc'[p] \in {"probe", "cas"},
                        NEW j \in Passed(arg[p], idx[p])
                 PROVE  array'[j] # Empty /\ array'[j] # arg[p]
      BY DEF ProbeInv, Passed, Slots, StartIdx
    <2>1. p # o /\ j \in Slots
      BY <1>0, PassedSlots
    <2>2. array[j] # Empty /\ array[j] # arg[p]
      BY <1>0, <2>1 DEF ProbeInv
    <2>3. QED
      BY <1>0, <1>a, <2>1, <2>2
  <1>5. OwnerInv'
    <2>1. \A p \in Ops : Owner(p)' => p = o \/ Owner(p)
      BY <1>0 DEF Owner
    <2>2. \A p \in Ops : Owner(p) => arg[p] # h
      BY <1>c DEF OwnerInv
    <2>3. \A p \in Ops : Owner(p)' => \E i \in Slots : array'[i] = arg[p]
      <3> SUFFICES ASSUME NEW p \in Ops, p # o, Owner(p)
                   PROVE  \E i \in Slots : array'[i] = arg[p]
        BY <1>0, <1>a, <2>1
      <3>1. PICK i \in Slots : array[i] = arg[p]
        BY DEF OwnerInv
      <3>2. arg[p] \in Entries
        BY DEF Owner, ArgInv, Busy
      <3>3. QED
        BY <1>0, <1>a, <3>1, <3>2
    <2>4. \A p, q \in Ops : Owner(p)' /\ Owner(q)' /\ arg[p] = arg[q] => p = q
      BY <2>1, <2>2 DEF OwnerInv
    <2>5. QED
      BY <1>a, <2>3, <2>4 DEF OwnerInv
  <1>6. EraseInv'
    <2> SUFFICES ASSUME NEW p \in Ops
                 PROVE  /\ pc'[p] = "eprobe" =>
                             \A j \in Passed(arg[p], idx[p]) : array'[j] # arg[p]
                        /\ pc'[p] = "ecas" => array'[idx[p]] = arg[p]
                        /\ pc'[p] # "thrown"
      BY DEF EraseInv, Passed, Slots, StartIdx
    <2>1. CASE p = o
      BY <1>0, <2>1
    <2>2. CASE p # o /\ pc[p] \in {"eprobe", "ecas"}
      <3>1. arg[p] # h /\ arg[p] \in Entries /\ idx[p] \in Slots
        BY <1>c, <2>2 DEF OwnerInv, Owner, ArgInv, Busy, TableOK
      <3>2. \A j \in Passed(arg[p], idx[p]) : j \in Slots
        BY PassedSlots
      <3>3. QED
        BY <1>0, <1>a, <2>2, <3>1, <3>2 DEF EraseInv
    <2>3. CASE p # o /\ pc[p] \notin {"eprobe", "ecas"}
      BY <1>0, <2>3 DEF EraseInv
    <2>4. QED
      BY <2>1, <2>2, <2>3
  <1>7. QED
    BY <1>1, <1>2, <1>3, <1>4, <1>5, <1>6

LEMMA EraseLeavesTombstone ==
  ASSUME IInv, NEW o \in Ops, pc[o] = "ecas",
         array' = [array EXCEPT ![idx[o]] = Tombstone],
         pc' = [pc EXCEPT ![o] = "uncount"],
         UNCHANGED <<capacity, arg, idx>>
  PROVE  IInv'
  <1> DEFINE k == idx[o]
  <1> USE DEF IInv
  <1>0. /\ k \in Slots /\ arg[o] \in Entries
        /\ array[k] = arg[o]
        /\ pc'[o] = "uncount"
        /\ \A p \in Ops \ {o} : pc'[p] = pc[p]
        /\ Tombstone \notin Entries /\ Empty # Tombstone
    BY SetAssumption DEF TableOK, ArgInv, Busy, EraseInv
  <1>a. /\ Slots' = Slots
        /\ array'[k] = Tombstone
        /\ \A i \in Slots \ {k} : array'[i] = array[i]
    BY <1>0 DEF Slots, TableOK
  <1>b. \A j \in Slots : /\ array[j] # Empty => array'[j] # Empty
                         /\ \A h \in Entries : array[j] # h => array'[j] # h
    BY <1>0, <1>a
  <1>1. TableOK'
    BY <1>0, <1>a DEF TableOK, Labels
  <1>2. ArgInv'
    BY <1>0 DEF ArgInv, Busy
  <1>3. ChainInv'
    <2> SUFFICES ASSUME NEW i \in Slots, array'[i] \in Entries,
                        NEW j \in Passed(array'[i], i)
                 PROVE  array'[j] # Empty /\ array'[j] # array'[i]
      BY <1>a DEF ChainInv, Passed, StartIdx
    <2>1. array'[i] = array[i] /\ j \in Slots
      BY <1>0, <1>a, PassedSlots
    <2>2. QED
      BY <1>b, <2>1 DEF ChainInv
  <1>4. ProbeInv'
    <2> SUFFICES ASSUME NEW p \in Ops, pc'[p] \in {"probe", "cas"},
                        NEW j \in Passed(arg[p], idx[p])
                 PROVE  array'[j] # Empty /\ array'[j] # arg[p]
      BY DEF ProbeInv, Passed, Slots, StartIdx
    <2>1. p # o /\ j \in Slots
      BY <1>0, PassedSlots
    <2>2. array[j] # Empty /\ array[j] # arg[p] /\ arg[p] \in Entries
      BY <1>0, <2>1 DEF ProbeInv, ArgInv, Busy
    <2>3. QED
      BY <1>b, <2>1, <2>2
  <1>c. \A p \in Ops \ {o} : Owner(p) => arg[p] # arg[o] /\ arg[p] \in Entries
    BY DEF OwnerInv, Owner, ArgInv, Busy
  <1>5. OwnerInv'
    <2>1. \A p \in Ops : Owner(p)' => p # o /\ Owner(p)
      BY <1>0 DEF Owner
    <2>2. \A p \in Ops : Owner(p)' => \E i \in Slots : array'[i] = arg[p]
      BY <1>0, <1>a, <1>c, <2>1 DEF OwnerInv
    <2>3. QED
      BY <1>a, <2>1, <2>2 DEF OwnerInv
  <1>6. EraseInv'
    <2> SUFFICES ASSUME NEW p \in Ops
                 PROVE  /\ pc'[p] = "eprobe" =>
                             \A j \in Passed(arg[p], idx[p]) : array'[j] # arg[p]
                        /\ pc'[p] = "ecas" => array'[idx[p]] = arg[p]
                        /\ pc'[p] # "thrown"
      BY DEF EraseInv, Passed, Slots, StartIdx
    <2>1. CASE p = o
      BY <1>0, <2>1
    <2>2. CASE p # o /\ pc[p] \in {"eprobe", "ecas"}
      <3>1. arg[p] # arg[o] /\ arg[p] \in Entries /\ idx[p] \in Slots
        BY <1>c, <2>2 DEF Owner, TableOK
      <3>2. \A j \in Passed(arg[p], idx[p]) : j \in Slots
        BY PassedSlots
      <3>3. QED
        BY <1>0, <1>a, <1>b, <2>2, <3>1, <3>2 DEF EraseInv
    <2>3. CASE p # o /\ pc[p] \notin {"eprobe", "ecas"}
      BY <1>0, <2>3 DEF EraseInv
    <2>4. QED
      BY <2>1, <2>2, <2>3
  <1>7. QED
    BY <1>1, <1>2, <1>3, <1>4, <1>5, <1>6

-----------------------------------------------------------------------------
(* The other steps only move a reservation.                                *)

\* The scan of an insertion goes on past a slot taken by something else.
LEMMA InsertScans ==
  ASSUME IInv, NEW o \in Ops, InsertProbe(o)
  PROVE  IInv'
  <1> USE DEF IInv
  <1>0. /\ arg[o] \in Entries /\ idx[o] \in Slots
        /\ pc[o] = "probe"
        /\ UNCHANGED <<capacity, array, arg>>
        /\ \A j \in Passed(arg[o], idx[o]) : array[j] # Empty /\ array[j] # arg[o]
    BY DEF InsertProbe, table, TableOK, ArgInv, Busy, ProbeInv
  <1>1. CASE array[idx[o]] = Empty /\ Goto(o, "cas") /\ UNCHANGED idx
    BY <1>0, <1>1, QuietMove DEF Goto, TableOK, Labels
  <1>2. CASE array[idx[o]] = arg[o] /\ Goto(o, "out") /\ UNCHANGED idx
    BY <1>0, <1>2, QuietMove DEF Goto, TableOK, Labels
  <1>3. CASE array[idx[o]] \notin {Empty, arg[o]} /\ ProbeOn(o, "probe", "out")
    <2>1. CASE NextIdx(idx[o]) = StartIdx(arg[o])
      BY <1>0, <1>3, <2>1, QuietMove DEF ProbeOn, Goto, TableOK, Labels
    <2>2. CASE NextIdx(idx[o]) # StartIdx(arg[o])
      <3>1. /\ NextIdx(idx[o]) \in Slots
            /\ \A j \in Passed(arg[o], NextIdx(idx[o])) :
                  array[j] # Empty /\ array[j] # arg[o]
        BY <1>0, <1>3, <2>2, PassedNext
      <3>2. /\ pc' = [pc EXCEPT ![o] = "probe"]
            /\ idx' = [idx EXCEPT ![o] = NextIdx(idx[o])]
        BY <1>3, <2>2 DEF ProbeOn, Goto
      <3>3. /\ idx' \in [Ops -> Slots] /\ idx'[o] = NextIdx(idx[o])
            /\ \A p \in Ops \ {o} : idx'[p] = idx[p]
        BY <3>1, <3>2 DEF TableOK
      <3>4. QED
        BY <1>0, <3>1, <3>2, <3>3, QuietMove DEF TableOK, Labels
    <2>3. QED
      BY <2>1, <2>2
  <1>4. QED
    BY <1>1, <1>2, <1>3 DEF InsertProbe

\* The element of an erasure is ahead of it, with no empty slot in between.
LEMMA EraseScans ==
  ASSUME IInv, NEW o \in Ops, EraseProbe(o)
  PROVE  IInv'
  <1> USE DEF IInv
  <1>0. /\ arg[o] \in Entries /\ idx[o] \in Slots
        /\ pc[o] = "eprobe" /\ Owner(o)
        /\ UNCHANGED <<capacity, array, arg>>
        /\ \A j \in Passed(arg[o], idx[o]) : array[j] # arg[o]
    BY DEF EraseProbe, table, TableOK, ArgInv, Busy, EraseInv, Owner
  <1>1. CASE array[idx[o]] = arg[o] /\ Goto(o, "ecas") /\ UNCHANGED idx
    BY <1>0, <1>1, QuietMove DEF Goto, TableOK, Labels
  <1>2. CASE /\ array[idx[o]] # arg[o]
             /\ ProbeOn(o, IF array[idx[o]] = Empty THEN "thrown" ELSE "eprobe",
                        "thrown")
    <2>1. PICK i \in Slots : array[i] = arg[o]
      BY <1>0 DEF OwnerInv
    <2>2. i # idx[o] /\ i \notin Passed(arg[o], idx[o])
      BY <1>0, <1>2, <2>1
    <2>3. idx[o] \in Passed(arg[o], i)
      BY <1>0, <2>2, PassedTotal
    <2>4. array[idx[o]] # Empty
      BY <1>0, <2>1, <2>3 DEF ChainInv
    <2>5. NextIdx(idx[o]) # StartIdx(arg[o])
      BY <1>0, <2>2, PassedNext
    <2>6. /\ NextIdx(idx[o]) \in Slots
          /\ \A j \in Passed(arg[o], NextIdx(idx[o])) : array[j] # arg[o]
      BY <1>0, <1>2, <2>5, PassedNext
    <2>7. /\ pc' = [pc EXCEPT ![o] = "eprobe"]
          /\ idx' = [idx EXCEPT ![o] = NextIdx(idx[o])]
      BY <1>2, <2>4, <2>5 DEF ProbeOn, Goto
    <2>8. /\ idx' \in [Ops -> Slots] /\ idx'[o] = NextIdx(idx[o])
          /\ \A p \in Ops \ {o} : idx'[p] = idx[p]
      BY <2>6, <2>7 DEF TableOK
    <2>9. QED
      BY <1>0, <2>6, <2>7, <2>8, QuietMove DEF TableOK, Labels
  <1>3. QED
    BY <1>1, <1>2 DEF EraseProbe

LEMMA InvStep == IInv /\ [Next]_vars => IInv'
<1> SUFFICES ASSUME IInv, [Next]_vars PROVE IInv'
  OBVIOUS
<1>1. ASSUME NEW o \in Ops, NEW h \in Entries, TryInsert(o, h) PROVE IInv'
  <2>1. /\ StartIdx(h) \in Slots /\ Passed(h, StartIdx(h)) = {}
    BY StartInSlots, PassedStart DEF IInv
  <2>2. /\ arg' = [arg EXCEPT ![o] = h] /\ idx' = [idx EXCEPT ![o] = StartIdx(h)]
        /\ UNCHANGED <<capacity, array>>
        /\ \E l \in {"out", "probe"} : pc' = [pc EXCEPT ![o] = l]
    BY <1>1 DEF TryInsert, table, Goto
  <2>3. /\ arg' \in [Ops -> Entries \cup {NoEntry}] /\ idx' \in [Ops -> Slots]
        /\ arg'[o] = h /\ idx'[o] = StartIdx(h)
        /\ \A p \in Ops \ {o} : arg'[p] = arg[p] /\ idx'[p] = idx[p]
    BY <2>1, <2>2 DEF IInv, TableOK
  <2>4. QED
    BY <2>1, <2>2, <2>3, QuietMove DEF Labels
<1>2. ASSUME NEW o \in Ops, InsertProbe(o) PROVE IInv'
  BY <1>2, InsertScans
<1>3. ASSUME NEW o \in Ops, InsertCas(o) PROVE IInv'
  <2>1. CASE array[idx[o]] = Empty
    BY <1>3, <2>1, InsertTakesSlot DEF InsertCas, Goto
  <2>2. CASE array[idx[o]] # Empty
    BY <1>3, <2>2, QuietMove
       DEF InsertCas, Goto, IInv, TableOK, Labels, ArgInv, Busy, ProbeInv
  <2>3. QED
    BY <2>1, <2>2
<1>4. ASSUME NEW o \in Ops, CountFilled(o) PROVE IInv'
  BY <1>4, QuietMove DEF CountFilled, Goto, IInv, TableOK, Labels, ArgInv, Busy, Owner
<1>5. ASSUME NEW o \in Ops, Erase(o) PROVE IInv'
  <2>1. /\ arg[o] \in Entries /\ Owner(o)
        /\ StartIdx(arg[o]) \in Slots /\ Passed(arg[o], StartIdx(arg[o])) = {}
    BY <1>5, StartInSlots, PassedStart DEF Erase, IInv, ArgInv, Busy, Owner
  <2>2. /\ idx' = [idx EXCEPT ![o] = StartIdx(arg[o])]
        /\ UNCHANGED <<capacity, array, arg>>
        /\ pc' = [pc EXCEPT ![o] = "eprobe"]
    BY <1>5 DEF Erase, table, Goto
  <2>3. /\ arg' \in [Ops -> Entries \cup {NoEntry}] /\ idx' \in [Ops -> Slots]
        /\ idx'[o] = StartIdx(arg[o])
        /\ \A p \in Ops \ {o} : idx'[p] = idx[p]
    BY <2>1, <2>2 DEF IInv, TableOK
  <2>4. QED
    BY <2>1, <2>2, <2>3, QuietMove DEF Labels
<1>6. ASSUME NEW o \in Ops, EraseProbe(o) PROVE IInv'
  BY <1>6, EraseScans
<1>7. ASSUME NEW o \in Ops, EraseCas(o) PROVE IInv'
  <2>1. array[idx[o]] = arg[o]
    BY <1>7 DEF EraseCas, IInv, EraseInv
  <2>2. QED
    BY <1>7, <2>1, EraseLeavesTombstone DEF EraseCas, Goto
<1>8. ASSUME NEW o \in Ops, UncountFilled(o) PROVE IInv'
  BY <1>8, QuietMove DEF UncountFilled, Goto, IInv, TableOK, Labels, ArgInv, Busy
<1>9. ASSUME NEW o \in Ops, Again(o) PROVE IInv'
  <2>1. 0 \in Slots
    BY SetAssumption DEF IInv, TableOK, Slots
  <2>2. /\ arg' \in [Ops -> Entries \cup {NoEntry}] /\ idx' \in [Ops -> Slots]
        /\ \A p \in Ops \ {o} : arg'[p] = arg[p] /\ idx'[p] = idx[p]
    BY <1>9, <2>1 DEF Again, IInv, TableOK
  <2>3. QED
    BY <1>9, <2>2, QuietMove DEF Again, Goto, table, Labels
<1>10. ASSUME NEW new \in Capacities, EndRound(new) PROVE IInv'
  <2>1. /\ capacity' \in Capacities
        /\ array' = [i \in Slots' |-> Empty]
        /\ pc' = [p \in Ops |-> "idle"]
        /\ arg' = [p \in Ops |-> NoEntry]
        /\ idx' = [p \in Ops |-> 0]
    BY <1>10 DEF EndRound, IInv, TableOK, Slots
  <2>2. TableOK'
    <3>1. 0 \in Slots'
      BY <2>1, FirstSlot DEF Slots
    <3>2. QED
      BY <2>1, <3>1 DEF TableOK, Labels
  <2>3. ArgInv' /\ ChainInv' /\ ProbeInv' /\ EraseInv' /\ OwnerInv'
    BY <2>1, SetAssumption DEF ArgInv, Busy, ChainInv, ProbeInv, EraseInv, OwnerInv, Owner
  <2>4. QED
    BY <2>2, <2>3 DEF IInv
<1>11. CASE UNCHANGED vars
  <2>1. TableOK' /\ ArgInv' /\ EraseInv'
    BY <1>11 DEF vars, IInv, TableOK, Slots, ArgInv, Busy, EraseInv, Passed, StartIdx
  <2>2. ChainInv' /\ ProbeInv' /\ OwnerInv'
    BY <1>11 DEF vars, IInv, ChainInv, ProbeInv, OwnerInv, Owner, Slots, Passed, StartIdx
  <2>3. QED
    BY <2>1, <2>2 DEF IInv
<1>12. QED
  BY <1>1, <1>2, <1>3, <1>4, <1>5, <1>6, <1>7, <1>8, <1>9, <1>10, <1>11 DEF Next, CallStep

-----------------------------------------------------------------------------
LEMMA InvAlways == Spec => []IInv
  BY InvInit, InvStep, PTL DEF Spec

\* Two slots with one element: one of them would be on the way to the other.
LEMMA UniqueNow == IInv => NoDuplicates
<1> SUFFICES ASSUME IInv, NEW i \in Slots, NEW j \in Slots,
                    array[i] \in Entries, array[i] = array[j], i # j
             PROVE  FALSE
  BY DEF NoDuplicates
<1>1. i \in Passed(array[i], j) \/ j \in Passed(array[i], i)
  BY PassedTotal DEF IInv
<1>2. QED
  BY <1>1 DEF IInv, ChainInv

\* get_hashes returns no element twice.
THEOREM ElementsAreUnique == Spec => []NoDuplicates
<1>1. QED
  BY UniqueNow, InvAlways, PTL

\* erase, which throws inside the destructor of a DeltaRewind if it does not
\* find the element, always finds it.
THEOREM EraseAlwaysFinds == Spec => []EraseFinds
<1>1. IInv => EraseFinds
  BY DEF IInv, EraseInv, EraseFinds
<1>2. QED
  BY <1>1, InvAlways, PTL

-----------------------------------------------------------------------------
(* The count of filled slots                                               *)

\* The reservations whose slots are counted.
Counted == {o \in Ops : pc[o] \in {"in", "eprobe", "ecas", "uncount"}}
CountInv == IsFiniteSet(Counted) /\ num_filled_slots = Cardinality(Counted)

\* A slot that is to be taken out of the count is a tombstone of one erasure.
TombInv ==
    /\ \A o \in Ops : pc[o] = "uncount" => array[idx[o]] = Tombstone
    /\ \A o, p \in Ops :
         pc[o] = "uncount" /\ pc[p] = "uncount" /\ idx[o] = idx[p] => o = p

FillInv == IInv /\ TombInv /\ CountInv

\* Each reservation that is counted has a slot of its own, so that a table
\* whose count has reached its capacity has no empty slot: the count lags
\* behind, and never runs ahead.
LEMMA FullIsFull ==
  ASSUME FillInv, num_filled_slots >= capacity
  PROVE  Used = Slots
<1> DEFINE At(o) == IF pc[o] = "uncount" THEN idx[o] ELSE CHOOSE i \in Slots : array[i] = arg[o]
           f == [o \in Counted |-> At(o)]
<1>1. /\ TableOK /\ capacity \in Nat \ {0} /\ Empty # Tombstone
      /\ Empty \notin Entries /\ Tombstone \notin Entries
  BY SetAssumption DEF FillInv, IInv, TableOK
<1>2. ASSUME NEW o \in Counted
      PROVE  /\ At(o) \in Used
             /\ pc[o] = "uncount" => array[At(o)] = Tombstone
             /\ pc[o] # "uncount" => Owner(o) /\ array[At(o)] = arg[o] /\ arg[o] \in Entries
  <2>1. CASE pc[o] = "uncount"
    <3>1. At(o) = idx[o] /\ idx[o] \in Slots /\ array[idx[o]] = Tombstone
      BY <2>1, <1>1 DEF FillInv, TombInv, TableOK, Counted
    <3> HIDE DEF At
    <3> QED BY <3>1, <2>1, <1>1 DEF Used
  <2>2. CASE pc[o] # "uncount"
    <3>1. o \in Ops /\ Owner(o) /\ arg[o] \in Entries
      BY <2>2 DEF Counted, Owner, FillInv, IInv, ArgInv, Busy
    <3>2. \E i \in Slots : array[i] = arg[o]
      BY <3>1 DEF FillInv, IInv, OwnerInv
    <3>3. At(o) = CHOOSE i \in Slots : array[i] = arg[o]
      BY <2>2
    <3>4. At(o) \in Slots /\ array[At(o)] = arg[o]
      BY <3>2, <3>3, Zenon
    <3> HIDE DEF At
    <3> QED BY <3>1, <3>4, <2>2, <1>1 DEF Used
  <2> QED BY <2>1, <2>2
<1>3. ASSUME NEW o \in Counted, NEW p \in Counted, At(o) = At(p) PROVE o = p
  <2>0. o \in Ops /\ p \in Ops
    BY DEF Counted
  <2>1. CASE pc[o] = "uncount" /\ pc[p] = "uncount"
    BY <1>3, <2>0, <2>1 DEF FillInv, TombInv
  <2>2. CASE pc[o] # "uncount" /\ pc[p] # "uncount"
    <3> HIDE DEF At
    <3>1. Owner(o) /\ Owner(p) /\ arg[o] = arg[p]
      BY <1>2, <1>3, <2>2
    <3> QED BY <3>1, <2>0 DEF FillInv, IInv, OwnerInv
  <2>3. CASE (pc[o] = "uncount") # (pc[p] = "uncount")
    <3> HIDE DEF At
    <3> QED BY <1>1, <1>2, <1>3, <2>3
  <2> QED BY <2>1, <2>2, <2>3
<1>4. f \in Injection(Counted, Used)
  <2> HIDE DEF At
  <2> QED BY <1>2, <1>3 DEF Injection, IsInjective
<1>5. IsFiniteSet(Slots) /\ Cardinality(Slots) = capacity
  BY <1>1, FS_Interval DEF Slots
<1>6. Used \subseteq Slots
  BY DEF Used
<1>7. IsFiniteSet(Used) /\ Cardinality(Used) <= capacity /\ (Cardinality(Used) = capacity => Used = Slots)
  BY <1>5, <1>6, FS_Subset
<1> HIDE DEF f
<1>8. Cardinality(Counted) <= Cardinality(Used)
  BY <1>4, <1>7, FS_Injection
<1>9. Cardinality(Counted) >= capacity /\ Cardinality(Counted) \in Nat /\ Cardinality(Used) \in Nat
  BY <1>7, FS_CardinalityType DEF FillInv, CountInv
<1> QED BY <1>1, <1>7, <1>8, <1>9

\* A step that moves one reservation, neither counted nor taken out of the count.
LEMMA CountKept ==
  ASSUME CountInv, NEW o \in Ops, NEW l, pc \in [Ops -> Labels],
         pc' = [pc EXCEPT ![o] = l], UNCHANGED num_filled_slots,
         l \in {"in", "eprobe", "ecas", "uncount"} <=> o \in Counted
  PROVE  CountInv'
<1>1. Counted' = Counted
  BY DEF Counted
<1> QED BY <1>1 DEF CountInv

\* One that leaves the slots alone, and does not come from an erasure.
LEMMA TombKept ==
  ASSUME IInv, TombInv, NEW o \in Ops, NEW l, l # "uncount",
         pc' = [pc EXCEPT ![o] = l], UNCHANGED array,
         \A p \in Ops \ {o} : idx'[p] = idx[p]
  PROVE  TombInv'
<1>1. pc \in [Ops -> Labels]
  BY DEF IInv, TableOK
<1>2. \A p \in Ops : pc'[p] = "uncount" => p # o /\ pc[p] = "uncount" /\ idx'[p] = idx[p]
  BY <1>1
<1> QED BY <1>2 DEF TombInv

\* The count and the tombstones are kept by every step of every thread: the
\* fetch_adds of try_insert and erase count each reservation once.
LEMMA FillStep == FillInv /\ [Next]_vars => FillInv'
<1> SUFFICES ASSUME FillInv, [Next]_vars PROVE TombInv' /\ CountInv'
  BY InvStep DEF FillInv
<1>0. /\ IInv /\ TombInv /\ CountInv /\ pc \in [Ops -> Labels] /\ idx \in [Ops -> Slots]
      /\ Tombstone # Empty /\ Tombstone \notin Entries /\ array \in [Slots -> Entries \cup {Empty, Tombstone}]
  BY SetAssumption DEF FillInv, IInv, TableOK
<1>1. ASSUME NEW o \in Ops, NEW h \in Entries, TryInsert(o, h) PROVE TombInv' /\ CountInv'
  <2>1. PICK l \in {"out", "probe"} : pc' = [pc EXCEPT ![o] = l]
    BY <1>1 DEF TryInsert, Goto
  <2>2. /\ o \notin Counted /\ UNCHANGED <<array, num_filled_slots>>
        /\ \A p \in Ops \ {o} : idx'[p] = idx[p]
    BY <1>0, <1>1 DEF TryInsert, table, Counted
  <2> QED BY <1>0, <2>1, <2>2, CountKept, TombKept
<1>2. ASSUME NEW o \in Ops, InsertProbe(o) PROVE TombInv' /\ CountInv'
  <2>1. PICK l \in {"out", "probe", "cas"} : pc' = [pc EXCEPT ![o] = l]
    BY <1>2 DEF InsertProbe, ProbeOn, Goto
  <2>2. /\ o \notin Counted /\ UNCHANGED <<array, num_filled_slots>>
        /\ \A p \in Ops \ {o} : idx'[p] = idx[p]
    BY <1>0, <1>2 DEF InsertProbe, ProbeOn, table, Counted
  <2> QED BY <1>0, <2>1, <2>2, CountKept, TombKept
<1>3. ASSUME NEW o \in Ops, InsertCas(o) PROVE TombInv' /\ CountInv'
  <2>1. PICK l \in {"count", "probe"} : pc' = [pc EXCEPT ![o] = l]
    BY <1>3 DEF InsertCas, Goto
  <2>2. o \notin Counted /\ UNCHANGED <<num_filled_slots, idx>>
    BY <1>3 DEF InsertCas, Counted
  <2>3. CountInv'
    BY <1>0, <2>1, <2>2, CountKept
  <2>4. \A i \in Slots : array[i] = Tombstone => array'[i] = Tombstone
    BY <1>0, <1>3 DEF InsertCas
  <2>5. \A p \in Ops : pc'[p] = "uncount" => pc[p] = "uncount"
    BY <1>0, <2>1
  <2>6. TombInv'
    BY <1>0, <2>2, <2>4, <2>5 DEF TombInv
  <2> QED BY <2>3, <2>6
<1>4. ASSUME NEW o \in Ops, CountFilled(o) PROVE TombInv' /\ CountInv'
  <2>1. /\ pc[o] = "count" /\ pc' = [pc EXCEPT ![o] = "in"] /\ UNCHANGED <<array, idx>>
        /\ num_filled_slots' = num_filled_slots + 1
    BY <1>4 DEF CountFilled, Goto
  <2>2. TombInv'
    BY <1>0, <2>1, TombKept
  <2>3. Counted' = Counted \cup {o} /\ o \notin Counted
    BY <1>0, <2>1 DEF Counted
  <2> QED BY <2>1, <2>2, <2>3, <1>0, FS_AddElement DEF CountInv
<1>5. ASSUME NEW o \in Ops, Erase(o) PROVE TombInv' /\ CountInv'
  <2>1. /\ o \in Counted /\ pc' = [pc EXCEPT ![o] = "eprobe"]
        /\ UNCHANGED <<array, num_filled_slots>>
        /\ \A p \in Ops \ {o} : idx'[p] = idx[p]
    BY <1>0, <1>5 DEF Erase, Goto, table, Counted
  <2> QED BY <1>0, <2>1, CountKept, TombKept
<1>6. ASSUME NEW o \in Ops, EraseProbe(o) PROVE TombInv' /\ CountInv'
  <2>1. PICK l \in {"ecas", "eprobe", "thrown"} : pc' = [pc EXCEPT ![o] = l]
    BY <1>6 DEF EraseProbe, ProbeOn, Goto
  <2>2. l # "thrown"
    <3>1. IInv'
      BY <1>0, InvStep
    <3> QED BY <3>1, <2>1, <1>0 DEF IInv, EraseInv
  <2>3. /\ o \in Counted /\ UNCHANGED <<array, num_filled_slots>>
        /\ \A p \in Ops \ {o} : idx'[p] = idx[p]
    BY <1>0, <1>6 DEF EraseProbe, ProbeOn, table, Counted
  <2> QED BY <1>0, <2>1, <2>2, <2>3, CountKept, TombKept
<1>7. ASSUME NEW o \in Ops, EraseCas(o) PROVE TombInv' /\ CountInv'
  <2>1. pc[o] = "ecas" /\ array[idx[o]] = arg[o] /\ arg[o] \in Entries /\ idx[o] \in Slots
    BY <1>0, <1>7 DEF EraseCas, IInv, EraseInv, ArgInv, Busy
  <2>2. /\ pc' = [pc EXCEPT ![o] = "uncount"] /\ UNCHANGED <<num_filled_slots, idx>>
        /\ array' = [array EXCEPT ![idx[o]] = Tombstone]
    BY <1>7, <2>1 DEF EraseCas, Goto
  <2>3. CountInv'
    BY <1>0, <2>1, <2>2, CountKept DEF Counted
  <2>4. \A p \in Ops : pc'[p] = "uncount" => p = o \/ (pc[p] = "uncount" /\ idx[p] # idx[o])
    BY <1>0, <2>1, <2>2 DEF TombInv
  <2>5. TombInv'
    BY <1>0, <2>1, <2>2, <2>4 DEF TombInv
  <2> QED BY <2>3, <2>5
<1>8. ASSUME NEW o \in Ops, UncountFilled(o) PROVE TombInv' /\ CountInv'
  <2>1. /\ pc[o] = "uncount" /\ pc' = [pc EXCEPT ![o] = "out"] /\ UNCHANGED <<array, idx>>
        /\ num_filled_slots' = num_filled_slots - 1
    BY <1>8 DEF UncountFilled, Goto
  <2>2. TombInv'
    BY <1>0, <2>1, TombKept
  <2>3. Counted' = Counted \ {o} /\ o \in Counted
    BY <1>0, <2>1 DEF Counted
  <2> QED BY <2>1, <2>2, <2>3, <1>0, FS_RemoveElement DEF CountInv
<1>9. ASSUME NEW o \in Ops, Again(o) PROVE TombInv' /\ CountInv'
  <2>1. /\ o \notin Counted /\ pc' = [pc EXCEPT ![o] = "idle"]
        /\ UNCHANGED <<array, num_filled_slots>>
        /\ \A p \in Ops \ {o} : idx'[p] = idx[p]
    BY <1>0, <1>9 DEF Again, Goto, table, Counted
  <2> QED BY <1>0, <2>1, CountKept, TombKept
<1>10. ASSUME NEW new \in Capacities, EndRound(new) PROVE TombInv' /\ CountInv'
  <2>1. Counted' = {} /\ \A o \in Ops : pc'[o] = "idle"
    BY <1>10 DEF EndRound, Counted
  <2> QED BY <2>1, <1>10, FS_EmptySet DEF EndRound, TombInv, CountInv
<1>11. CASE UNCHANGED vars
  BY <1>0, <1>11 DEF vars, TombInv, CountInv, Counted
<1> QED
  BY <1>1, <1>2, <1>3, <1>4, <1>5, <1>6, <1>7, <1>8, <1>9, <1>10, <1>11 DEF Next, CallStep

\* A new table counts nothing.
LEMMA FillInit == Init => FillInv
<1> SUFFICES ASSUME Init PROVE FillInv
  OBVIOUS
<1>1. IInv
  BY InvInit
<1>2. Counted = {} /\ \A o \in Ops : pc[o] = "idle"
  BY DEF Init, Counted
<1> QED BY <1>1, <1>2, FS_EmptySet DEF Init, FillInv, TombInv, CountInv

\* The table, the locals of try_insert and erase and the count keep their types:
\* num_filled_slots, which is unsigned, never wraps below zero.
THEOREM SetTypeCorrect == Spec => []TypeOK
<1>1. FillInv => TypeOK
  BY FS_CardinalityType DEF FillInv, IInv, TableOK, CountInv, TypeOK
<1> QED BY <1>1, FillInit, FillStep, PTL DEF Spec

-----------------------------------------------------------------------------
(* The refinement of SlotSet                                               *)

\* The element of an insertion that finds an empty slot is not in the table.
LEMMA NotThere ==
  ASSUME IInv, NEW o \in Ops, pc[o] = "cas", array[idx[o]] = Empty
  PROVE  arg[o] \notin Elements
<1>1. /\ TableOK /\ arg[o] \in Entries /\ idx[o] \in Slots
      /\ \A j \in Passed(arg[o], idx[o]) : array[j] # arg[o]
  BY DEF IInv, TableOK, ArgInv, Busy, ProbeInv
<1>2. ASSUME NEW i \in Slots, array[i] = arg[o] PROVE FALSE
  <2>1. i # idx[o]
    BY <1>1, <1>2, SetAssumption
  <2>2. i \in Passed(arg[o], idx[o]) \/ idx[o] \in Passed(arg[o], i)
    BY <1>1, <2>1, PassedTotal
  <2>3. \A j \in Passed(arg[o], i) : array[j] # Empty
    BY <1>1, <1>2 DEF IInv, ChainInv
  <2> QED BY <1>1, <1>2, <2>2, <2>3
<1> QED BY <1>2 DEF Elements

\* Where the table is as it was, so is the set.
LEMMA SameTable ==
  ASSUME UNCHANGED <<capacity, array>>
  PROVE  Elements' = Elements /\ Used' = Used /\ Slots' = Slots
BY DEF Elements, Used, Slots

\* What a reservation that moves becomes.
LEMMA StatusStep ==
  ASSUME TableOK, NEW o \in Ops, NEW l, pc' = [pc EXCEPT ![o] = l]
  PROVE  /\ Status' = [Status EXCEPT ![o] = StatusOf(l)]
         /\ Status[o] = StatusOf(pc[o])
         /\ StatusOf(l) = Status[o] => Status' = Status
<1>1. pc \in [Ops -> Labels]
  BY DEF TableOK
<1>2. \A p \in Ops : pc'[p] = IF p = o THEN l ELSE pc[p]
  BY <1>1
<1>3. \A p \in Ops : StatusOf(pc[p])' = IF p = o THEN StatusOf(l) ELSE StatusOf(pc[p])
  BY <1>2 DEF StatusOf
<1>4. Status \in [Ops -> {StatusOf(pc[p]) : p \in Ops}]
  BY DEF Status
<1>5. Status[o] = StatusOf(pc[o]) /\ \A p \in Ops : Status[p] = StatusOf(pc[p])
  BY DEF Status
<1>6. Status' = [p \in Ops |-> IF p = o THEN StatusOf(l) ELSE StatusOf(pc[p])]
  BY <1>3 DEF Status
<1>7. Status' = [Status EXCEPT ![o] = StatusOf(l)]
  BY <1>5, <1>6 DEF Status
<1>8. ASSUME StatusOf(l) = Status[o] PROVE Status' = Status
  BY <1>5, <1>6, <1>8 DEF Status
<1> QED BY <1>5, <1>7, <1>8

\* The steps of try_insert,
LEMMA InsertSteps ==
  ASSUME FillInv, NEW o \in Ops
  PROVE  /\ \A h \in Entries : TryInsert(o, h) => Abstract!Begin(o, h)
         /\ InsertProbe(o) => UNCHANGED Abstract!vars \/ Abstract!Refuse(o)
         /\ InsertCas(o) => UNCHANGED Abstract!vars \/ Abstract!Insert(o)
         /\ CountFilled(o) => UNCHANGED Abstract!vars
<1> USE DEF Abstract!vars, Abstract!Become, Abstract!MayRefuse
<1>0. TableOK /\ IInv
  BY DEF FillInv, IInv
<1>1. ASSUME NEW h \in Entries, TryInsert(o, h) PROVE Abstract!Begin(o, h)
  <2>1. /\ pc[o] = "idle" /\ arg' = [arg EXCEPT ![o] = h] /\ UNCHANGED <<capacity, array>>
        /\ \/ pc' = [pc EXCEPT ![o] = "probe"]
           \/ pc' = [pc EXCEPT ![o] = "out"] /\ num_filled_slots >= capacity
    BY <1>1 DEF TryInsert, Goto, table
  <2>2. Elements' = Elements /\ Used' = Used /\ Slots' = Slots
    BY <2>1, SameTable
  <2>3. CASE pc' = [pc EXCEPT ![o] = "probe"]
    <3>1. Status' = [Status EXCEPT ![o] = "inserting"] /\ Status[o] = "idle"
      BY <1>0, <2>1, <2>3, StatusStep DEF StatusOf
    <3> QED BY <2>1, <2>2, <3>1 DEF Abstract!Begin
  <2>4. CASE pc' = [pc EXCEPT ![o] = "out"] /\ num_filled_slots >= capacity
    <3>1. Status' = [Status EXCEPT ![o] = "out"] /\ Status[o] = "idle"
      BY <1>0, <2>1, <2>4, StatusStep DEF StatusOf
    <3>2. Used = Slots
      BY <2>4, FullIsFull
    <3> QED BY <2>1, <2>2, <3>1, <3>2 DEF Abstract!Begin
  <2> QED BY <2>1, <2>3, <2>4
<1>2. ASSUME InsertProbe(o) PROVE UNCHANGED Abstract!vars \/ Abstract!Refuse(o)
  <2>1. /\ pc[o] = "probe" /\ UNCHANGED <<capacity, array, arg>>
        /\ arg[o] \in Entries /\ idx[o] \in Slots
        /\ \A j \in Passed(arg[o], idx[o]) : array[j] # Empty
    BY <1>2, <1>0 DEF InsertProbe, table, TableOK, IInv, ArgInv, Busy, ProbeInv
  <2>2. Elements' = Elements /\ Used' = Used /\ Slots' = Slots
    BY <2>1, SameTable
  <2>3. \/ pc' = [pc EXCEPT ![o] = "cas"] \/ pc' = [pc EXCEPT ![o] = "probe"]
        \/ /\ pc' = [pc EXCEPT ![o] = "out"]
           /\ \/ array[idx[o]] = arg[o]
              \/ array[idx[o]] # Empty /\ NextIdx(idx[o]) = StartIdx(arg[o])
    BY <1>2 DEF InsertProbe, ProbeOn, Goto
  <2>4. CASE pc' = [pc EXCEPT ![o] = "cas"] \/ pc' = [pc EXCEPT ![o] = "probe"]
    <3>1. Status' = Status
      BY <1>0, <2>1, <2>4, StatusStep DEF StatusOf
    <3> QED BY <2>1, <2>2, <3>1
  <2>5. CASE /\ pc' = [pc EXCEPT ![o] = "out"]
             /\ \/ array[idx[o]] = arg[o]
                \/ array[idx[o]] # Empty /\ NextIdx(idx[o]) = StartIdx(arg[o])
    <3>1. Status' = [Status EXCEPT ![o] = "out"] /\ Status[o] = "inserting"
      BY <1>0, <2>1, <2>5, StatusStep DEF StatusOf
    <3>2. CASE array[idx[o]] = arg[o]
      <4>1. arg[o] \in Elements
        BY <2>1, <3>2 DEF Elements
      <4> QED BY <2>1, <2>2, <3>1, <4>1 DEF Abstract!Refuse
    <3>3. CASE array[idx[o]] # Empty /\ NextIdx(idx[o]) = StartIdx(arg[o])
      <4>1. Slots = Passed(arg[o], idx[o]) \cup {idx[o]}
        BY <1>0, <2>1, <3>3, PassedNext
      <4>2. Used = Slots
        BY <2>1, <3>3, <4>1 DEF Used
      <4> QED BY <2>1, <2>2, <3>1, <4>2 DEF Abstract!Refuse
    <3> QED BY <2>5, <3>2, <3>3
  <2> QED BY <2>3, <2>4, <2>5
<1>3. ASSUME InsertCas(o) PROVE UNCHANGED Abstract!vars \/ Abstract!Insert(o)
  <2>1. pc[o] = "cas" /\ UNCHANGED <<capacity, arg>> /\ arg[o] \in Entries /\ idx[o] \in Slots
    BY <1>3, <1>0 DEF InsertCas, TableOK, IInv, ArgInv, Busy
  <2>2. CASE array[idx[o]] # Empty
    <3>1. UNCHANGED array /\ pc' = [pc EXCEPT ![o] = "probe"]
      BY <1>3, <2>2 DEF InsertCas, Goto
    <3>2. Status' = Status
      BY <1>0, <2>1, <3>1, StatusStep DEF StatusOf
    <3> QED BY <2>1, <3>1, <3>2, SameTable
  <2>3. CASE array[idx[o]] = Empty
    <3>1. array' = [array EXCEPT ![idx[o]] = arg[o]] /\ pc' = [pc EXCEPT ![o] = "count"]
      BY <1>3, <2>3 DEF InsertCas, Goto
    <3>2. Status' = [Status EXCEPT ![o] = "in"] /\ Status[o] = "inserting"
      BY <1>0, <2>1, <3>1, StatusStep DEF StatusOf
    <3>3. arg[o] \notin Elements
      BY <1>0, <2>1, <2>3, NotThere
    <3>4. /\ Slots' = Slots
          /\ \A i \in Slots : array'[i] = IF i = idx[o] THEN arg[o] ELSE array[i]
      BY <1>0, <2>1, <3>1 DEF Slots, TableOK
    <3>5. Elements' = Elements \cup {arg[o]}
      BY <2>1, <2>3, <3>4, SetAssumption DEF Elements
    <3>6. Used' = Used \cup {idx[o]} /\ idx[o] \in Slots \ Used
      BY <2>1, <2>3, <3>4, SetAssumption DEF Used
    <3> QED BY <2>1, <3>2, <3>3, <3>4, <3>5, <3>6 DEF Abstract!Insert
  <2> QED BY <2>2, <2>3
<1>4. ASSUME CountFilled(o) PROVE UNCHANGED Abstract!vars
  <2>1. pc[o] = "count" /\ pc' = [pc EXCEPT ![o] = "in"] /\ UNCHANGED <<capacity, array, arg>>
    BY <1>4 DEF CountFilled, Goto
  <2>2. Status' = Status
    BY <1>0, <2>1, StatusStep DEF StatusOf
  <2> QED BY <2>1, <2>2, SameTable
<1> QED BY <1>1, <1>2, <1>3, <1>4

\* those of erase,
LEMMA EraseSteps ==
  ASSUME FillInv, FillInv', NEW o \in Ops
  PROVE  /\ Erase(o) \/ EraseProbe(o) \/ UncountFilled(o) => UNCHANGED Abstract!vars
         /\ EraseCas(o) => Abstract!Erase(o)
<1> USE DEF Abstract!vars, Abstract!Become
<1>0. TableOK /\ IInv /\ pc'[o] # "thrown"
  BY DEF FillInv, IInv, EraseInv
<1>1. ASSUME Erase(o) \/ EraseProbe(o) \/ UncountFilled(o) PROVE UNCHANGED Abstract!vars
  <2>1. /\ UNCHANGED <<capacity, array, arg>>
        /\ \/ pc[o] \in {"in", "eprobe"} /\ \E l \in {"eprobe", "ecas", "thrown"} : pc' = [pc EXCEPT ![o] = l]
           \/ pc[o] = "uncount" /\ pc' = [pc EXCEPT ![o] = "out"]
    BY <1>1 DEF Erase, EraseProbe, UncountFilled, ProbeOn, Goto, table
  <2>2. /\ \/ pc[o] \in {"in", "eprobe"} /\ \E l \in {"eprobe", "ecas"} : pc' = [pc EXCEPT ![o] = l]
           \/ pc[o] = "uncount" /\ pc' = [pc EXCEPT ![o] = "out"]
    BY <1>0, <2>1 DEF TableOK
  <2>3. Status' = Status
    BY <1>0, <2>2, StatusStep DEF StatusOf
  <2> QED BY <2>1, <2>3, SameTable
<1>2. ASSUME EraseCas(o) PROVE Abstract!Erase(o)
  <2>1. /\ pc[o] = "ecas" /\ array[idx[o]] = arg[o] /\ arg[o] \in Entries /\ idx[o] \in Slots
        /\ UNCHANGED <<capacity, arg>>
    BY <1>0, <1>2 DEF EraseCas, IInv, EraseInv, ArgInv, Busy, TableOK
  <2>2. /\ pc' = [pc EXCEPT ![o] = "uncount"]
        /\ array' = [array EXCEPT ![idx[o]] = Tombstone]
    BY <1>2, <2>1 DEF EraseCas, Goto
  <2>3. Status' = [Status EXCEPT ![o] = "out"] /\ Status[o] = "in"
    BY <1>0, <2>1, <2>2, StatusStep DEF StatusOf
  <2>4. /\ Slots' = Slots
        /\ \A i \in Slots : array'[i] = IF i = idx[o] THEN Tombstone ELSE array[i]
    BY <1>0, <2>1, <2>2 DEF Slots, TableOK
  <2>5. \A i \in Slots : array[i] = arg[o] => i = idx[o]
    BY <1>0, <2>1, UniqueNow DEF NoDuplicates
  <2>6. Elements' = Elements \ {arg[o]} /\ arg[o] \in Elements
    BY <2>1, <2>4, <2>5, SetAssumption DEF Elements
  <2>7. Used' = Used
    BY <2>1, <2>4, SetAssumption DEF Used
  <2> QED BY <2>1, <2>3, <2>4, <2>6, <2>7 DEF Abstract!Erase
<1> QED BY <1>1, <1>2

\* and the others.
LEMMA OtherSteps ==
  ASSUME FillInv
  PROVE  /\ \A o \in Ops : Again(o) => Abstract!Again(o)
         /\ \A new \in Capacities : EndRound(new) => Abstract!EndRound
         /\ UNCHANGED vars => UNCHANGED Abstract!vars
<1> USE DEF Abstract!vars, Abstract!Become
<1>0. TableOK /\ capacity \in Nat
  BY SetAssumption DEF FillInv, IInv, TableOK
<1>1. ASSUME NEW o \in Ops, Again(o) PROVE Abstract!Again(o)
  <2>1. /\ pc[o] = "out" /\ pc' = [pc EXCEPT ![o] = "idle"] /\ arg' = [arg EXCEPT ![o] = NoEntry]
        /\ UNCHANGED <<capacity, array>>
    BY <1>1 DEF Again, Goto, table
  <2>2. Status' = [Status EXCEPT ![o] = "idle"] /\ Status[o] = "out"
    BY <1>0, <2>1, StatusStep DEF StatusOf
  <2> QED BY <2>1, <2>2, SameTable DEF Abstract!Again
<1>2. ASSUME NEW new \in Capacities, EndRound(new) PROVE Abstract!EndRound
  <2>1. /\ Quiescent /\ pc' = [p \in Ops |-> "idle"] /\ arg' = [p \in Ops |-> NoEntry]
        /\ capacity' \in Nat /\ capacity <= capacity'
        /\ array' = [i \in Slots' |-> Empty]
    BY <1>0, <1>2, SetAssumption DEF EndRound, Slots
  <2>2. \A p \in Ops : Status[p] \in {"idle", "in", "out"}
    BY <2>1 DEF Quiescent, Status, StatusOf
  <2>3. Status' = [p \in Ops |-> "idle"]
    BY <2>1 DEF Status, StatusOf
  <2>4. Elements' = {} /\ Used' = {}
    BY <2>1, SetAssumption DEF Elements, Used
  <2>5. Slots \subseteq Slots'
    <3>1. \A a, b \in Nat : a <= b => 0 .. a - 1 \subseteq 0 .. b - 1
      OBVIOUS
    <3> QED BY <1>0, <2>1, <3>1 DEF Slots
  <2> QED BY <2>1, <2>2, <2>3, <2>4, <2>5 DEF Abstract!EndRound
<1>3. ASSUME UNCHANGED vars PROVE UNCHANGED Abstract!vars
  <2>1. Status' = Status
    BY <1>3 DEF vars, Status, StatusOf
  <2> QED BY <1>3, <2>1, SameTable DEF vars
<1> QED BY <1>1, <1>2, <1>3

\* The loads and compare_exchanges of try_insert and erase act like single
\* steps on a set: an insertion takes effect when its compare_exchange does,
\* and is refused only if at that moment the element is there or the slots
\* are used up, however many threads scan the table.
THEOREM TableImplementsSlotSet == Spec => ImplementsSlotSet
<1>1. Init => FillInv /\ Abstract!Init
  <2> SUFFICES ASSUME Init PROVE FillInv /\ Abstract!Init
    OBVIOUS
  <2>1. Elements = {} /\ Used = {}
    BY SetAssumption DEF Init, Elements, Used
  <2>2. Status = [o \in Ops |-> "idle"]
    BY DEF Init, Status, StatusOf
  <2> QED BY <2>1, <2>2, FillInit DEF Init, Abstract!Init
<1>2. FillInv /\ [Next]_vars => FillInv' /\ [Abstract!Next]_(Abstract!vars)
  <2> SUFFICES ASSUME FillInv, [Next]_vars, FillInv' PROVE [Abstract!Next]_(Abstract!vars)
    BY FillStep
  <2>1. CASE \E o \in Ops : \E h \in Entries : TryInsert(o, h)
    BY <2>1, InsertSteps DEF Abstract!Next
  <2>2. ASSUME NEW o \in Ops, CallStep(o) PROVE [Abstract!Next]_(Abstract!vars)
    BY <2>2, InsertSteps, EraseSteps DEF CallStep, Abstract!Next
  <2>3. CASE \E o \in Ops : Erase(o) \/ Again(o)
    BY <2>3, EraseSteps, OtherSteps DEF Abstract!Next
  <2>4. CASE (\E new \in Capacities : EndRound(new)) \/ UNCHANGED vars
    BY <2>4, OtherSteps DEF Abstract!Next
  <2> QED BY <2>1, <2>2, <2>3, <2>4 DEF Next
<1> QED BY <1>1, <1>2, PTL DEF Spec, ImplementsSlotSet, Abstract!Spec

-----------------------------------------------------------------------------
(***************************************************************************)
(* clear_hashset keeps exactly the elements above the threshold, for every *)
(* list and every threshold.                                               *)
(***************************************************************************)

\* What the search has found out: the list is sorted, everything before min is
\* above the threshold and nothing from max on is.
SearchInv ==
    /\ SearchTypeOK
    /\ stage \in {"search", "test"} =>
         /\ list = normalized
         /\ Descending(list)
         /\ min <= max /\ max <= Len(list)
         /\ \A i \in DOMAIN list : i <= min => list[i] > threshold
         /\ \A i \in DOMAIN list : i > max => ~(list[i] > threshold)
    /\ stage = "test" => min <= med /\ med < max
    /\ ClearsExactly

LEMMA HalveBounds ==
  ASSUME NEW a \in Nat, NEW b \in Nat, a <= b
  PROVE  /\ (b + a) \div 2 \in Nat
         /\ a <= (b + a) \div 2 /\ (b + a) \div 2 <= b
         /\ a # b => (b + a) \div 2 < b
  OBVIOUS

LEMMA ListIsSeq == ASSUME NEW s \in Lists PROVE s \in Seq(Indices)
  BY IndicesAssumption DEF Lists

LEMMA SearchInitInv == SearchInit => SearchInv
  BY ListIsSeq, IndicesAssumption DEF SearchInit, SearchInv, SearchTypeOK, ClearsExactly

LEMMA SearchStepInv == SearchInv /\ [SearchNext]_search_vars => SearchInv'
<1> SUFFICES ASSUME SearchInv, [SearchNext]_search_vars PROVE SearchInv'
  OBVIOUS
<1> USE IndicesAssumption DEF SearchInv, SearchTypeOK
<1>1. CASE normalize_hashset
  <2>1. PICK p \in Renumberings(list) : list' = [i \in DOMAIN list |-> list[p[i]]]
    BY <1>1 DEF normalize_hashset
  <2>2. DOMAIN list = 1 .. Len(list) /\ Len(list) \in Nat
    OBVIOUS
  <2>3. \A i \in DOMAIN list : p[i] \in DOMAIN list
    BY DEF Renumberings
  <2>4. /\ list' \in Seq(Indices)
        /\ Len(list') = Len(list)
    BY <2>1, <2>2, <2>3
  <2>5. QED
    BY <1>1, <2>2, <2>4 DEF normalize_hashset, ClearsExactly
<1>2. CASE Search
  <2>1. /\ Halve \in Nat
        /\ min <= Halve /\ Halve <= max
        /\ min # max => Halve < max
    BY <1>2, HalveBounds DEF Search, Halve
  <2>2. CASE max = min
    <3>1. list' = SubSeq(list, 1, min) /\ med' = min /\ stage' = "done"
      BY <1>2, <2>1, <2>2 DEF Search
    <3>2. /\ list' \in Seq(Indices)
          /\ Len(list') = min
          /\ \A i \in 1 .. min : list'[i] = list[i]
      BY <1>2, <2>2, <3>1 DEF Search
    <3>3. QED
      BY <1>2, <2>1, <2>2, <3>1, <3>2 DEF Search, ClearsExactly
  <2>3. CASE max # min
    BY <1>2, <2>1, <2>3 DEF Search, ClearsExactly
  <2>4. QED
    BY <2>2, <2>3
<1>3. CASE Test
  <2>1. /\ med + 1 \in DOMAIN list
        /\ \A i \in DOMAIN list : list[i] \in Nat
        /\ threshold \in Nat
    <3>1. DOMAIN list = 1 .. Len(list) /\ Len(list) \in Nat
      OBVIOUS
    <3>2. \A i \in DOMAIN list : list[i] \in Indices
      BY <3>1
    <3>3. med \in Nat /\ med < Len(list)
      BY <1>3 DEF Test
    <3>4. med + 1 \in DOMAIN list
      BY <3>1, <3>3
    <3>5. QED
      BY <3>2, <3>4
  <2>2. CASE list[med + 1] > threshold /\ min' = med + 1 /\ UNCHANGED max
    <3>1. \A i \in DOMAIN list : i <= med + 1 => list[i] > threshold
      BY <1>3, <2>1, <2>2 DEF Test, Descending
    <3>2. QED
      BY <1>3, <2>1, <2>2, <3>1 DEF Test, Descending, ClearsExactly
  <2>3. CASE list[med + 1] <= threshold /\ max' = med /\ UNCHANGED min
    <3>1. \A i \in DOMAIN list : i > med => ~(list[i] > threshold)
      BY <1>3, <2>1, <2>3 DEF Test, Descending
    <3>2. QED
      BY <1>3, <2>1, <2>3, <3>1 DEF Test, Descending, ClearsExactly
  <2>4. QED
    BY <1>3, <2>2, <2>3 DEF Test
<1>4. CASE Cleared \/ UNCHANGED search_vars
  BY <1>4 DEF Cleared, search_vars, ClearsExactly, Descending
<1>5. QED
  BY <1>1, <1>2, <1>3, <1>4 DEF SearchNext, SearchStep

\* The middle that the loop computes is a position of the list whenever
\* clear_hashset reads it.
THEOREM ReadsInBounds == SearchSpec => []SearchTypeOK
<1>1. SearchInv => SearchTypeOK
  BY DEF SearchInv
<1>2. QED
  BY <1>1, SearchInitInv, SearchStepInv, PTL DEF SearchSpec

\* What clear_hashset leaves is the part of the sorted list above the threshold.
THEOREM ClearIsExact == SearchSpec => []ClearsExactly
<1>1. SearchInv => ClearsExactly
  BY DEF SearchInv
<1>2. QED
  BY <1>1, SearchInitInv, SearchStepInv, PTL DEF SearchSpec

-----------------------------------------------------------------------------
(***************************************************************************)
(* Behind a barrier the two words of an AtomicUint128 are the sum of the   *)
(* additions, for any width of the words and any number of additions that  *)
(* the two words can hold.                                                 *)
(*                                                                         *)
(* In between, they are off by the carries and borrows under way.  The     *)
(* invariant gives every addition a weight that makes up for its own, so   *)
(* that the words are the sum of the weights at every step, up to a        *)
(* multiple of Word^2: a borrow that overtakes its carry wraps the high    *)
(* word, and the carry wraps it back.                                      *)
(***************************************************************************)

WeightBy(l, v) ==
    CASE l = "in" -> v
      [] l = "carry" -> v - Word
      [] l = "borrow" -> Word
      [] OTHER -> 0

\* What each addition has put into the words so far.
Weight(P, A) == [o \in Adds |-> WeightBy(P[o], A[o])]

SumTypeOK ==
    /\ lowbits \in 0 .. Word - 1
    /\ highbits \in 0 .. Word - 1
    /\ word_pc \in [Adds -> {"idle", "carry", "in", "borrow", "out"}]
    /\ amount \in [Adds -> 0 .. Word - 1]

\* The words are the sum of the weights, up to wraps of the high word.
Balanced ==
    \E k \in Int : highbits * Word + lowbits =
                     SumFunctionOnSet(Weight(word_pc, amount), Adds) + k * (Word * Word)

SumInv == SumTypeOK /\ Balanced

\* One step of an addition or a subtraction in a word.
LEMMA Modular ==
  ASSUME NEW n \in -(Word - 1) .. (2 * Word - 1)
  PROVE  /\ n < 0 => n % Word = n + Word
         /\ n >= 0 /\ n < Word => n % Word = n
         /\ n >= Word => n % Word = n - Word
         /\ n % Word \in 0 .. Word - 1
BY WordAssumption

\* The weights are integers.
LEMMA WeightType ==
  ASSUME NEW l, NEW v \in 0 .. Word - 1 PROVE WeightBy(l, v) \in Int
BY WordAssumption DEF WeightBy

\* When one addition moves, the sum changes by its weight.
LEMMA WeightMoves ==
  ASSUME SumTypeOK, SumTypeOK', NEW o \in Adds,
         \A p \in Adds \ {o} : word_pc'[p] = word_pc[p] /\ amount'[p] = amount[p]
  PROVE  /\ SumFunctionOnSet(Weight(word_pc', amount'), Adds) =
              SumFunctionOnSet(Weight(word_pc, amount), Adds)
                - WeightBy(word_pc[o], amount[o]) + WeightBy(word_pc'[o], amount'[o])
         /\ SumFunctionOnSet(Weight(word_pc, amount), Adds) \in Int
<1>1. \A p \in Adds : /\ Weight(word_pc, amount)[p] \in Int
                      /\ Weight(word_pc', amount')[p] \in Int
  BY WeightType DEF Weight, SumTypeOK
<1>2. \A p \in Adds \ {o} : Weight(word_pc', amount')[p] = Weight(word_pc, amount)[p]
  BY DEF Weight
<1>3. SumFunctionOnSet(Weight(word_pc', amount'), Adds) =
        SumFunctionOnSet(Weight(word_pc, amount), Adds)
          - Weight(word_pc, amount)[o] + Weight(word_pc', amount')[o]
  BY <1>1, <1>2, SumUpdate, WordAssumption
<1>4. SumFunctionOnSet(Weight(word_pc, amount), Adds) \in Int
  BY <1>1, SumInt, WordAssumption
<1> QED BY <1>3, <1>4 DEF Weight

\* A step that changes the words as it changes the weight keeps them balanced.
LEMMA BalancedStep ==
  ASSUME SumInv, SumTypeOK', NEW o \in Adds,
         \A p \in Adds \ {o} : word_pc'[p] = word_pc[p] /\ amount'[p] = amount[p],
         NEW j \in Int,
         highbits' * Word + lowbits' =
           (highbits * Word + lowbits) - WeightBy(word_pc[o], amount[o])
             + WeightBy(word_pc'[o], amount'[o]) + j * (Word * Word)
  PROVE  Balanced'
<1>1. PICK k \in Int : highbits * Word + lowbits =
                         SumFunctionOnSet(Weight(word_pc, amount), Adds) + k * (Word * Word)
  BY DEF SumInv, Balanced
<1>2. /\ SumFunctionOnSet(Weight(word_pc', amount'), Adds) =
           SumFunctionOnSet(Weight(word_pc, amount), Adds)
             - WeightBy(word_pc[o], amount[o]) + WeightBy(word_pc'[o], amount'[o])
      /\ SumFunctionOnSet(Weight(word_pc, amount), Adds) \in Int
  BY WeightMoves DEF SumInv
<1>3. WeightBy(word_pc[o], amount[o]) \in Int /\ WeightBy(word_pc'[o], amount'[o]) \in Int
  BY WeightType DEF SumInv, SumTypeOK
<1>4. (k + j) * (Word * Word) = k * (Word * Word) + j * (Word * Word)
      /\ k * (Word * Word) \in Int /\ j * (Word * Word) \in Int
  BY WordAssumption
<1>5. highbits' * Word + lowbits' =
        SumFunctionOnSet(Weight(word_pc', amount'), Adds) + (k + j) * (Word * Word)
  <2> DEFINE kw == k * (Word * Word)
             jw == j * (Word * Word)
             v == highbits * Word + lowbits
             w == highbits' * Word + lowbits'
             old == SumFunctionOnSet(Weight(word_pc, amount), Adds)
             new == SumFunctionOnSet(Weight(word_pc', amount'), Adds)
  <2>1. kw \in Int /\ jw \in Int /\ old \in Int /\ (k + j) * (Word * Word) = kw + jw
    BY <1>2, <1>4
  <2>2. v = old + kw
    BY <1>1, Zenon
  <2>3. new = old - WeightBy(word_pc[o], amount[o]) + WeightBy(word_pc'[o], amount'[o])
    BY <1>2, Zenon
  <2>4. w = v - WeightBy(word_pc[o], amount[o]) + WeightBy(word_pc'[o], amount'[o]) + jw
    BY Zenon
  <2> HIDE DEF kw, jw, old, new, v, w
  <2>5. w = new + (kw + jw)
    BY <1>3, <2>1, <2>2, <2>3, <2>4
  <2> QED BY <2>1, <2>5 DEF new, w
<1>6. k + j \in Int
  OBVIOUS
<1> QED BY <1>5, <1>6 DEF Balanced

\* At the beginning, and after clear, everything is zero.
LEMMA ZeroBalanced == SumInit => SumInv
<1> SUFFICES ASSUME SumInit PROVE SumInv
  OBVIOUS
<1>1. SumTypeOK
  BY WordAssumption DEF SumInit, SumTypeOK
<1>2. \A o \in Adds : Weight(word_pc, amount)[o] = 0
  BY DEF Weight, WeightBy, SumInit
<1>3. SumFunctionOnSet(Weight(word_pc, amount), Adds) = 0
  BY <1>2, SumZero, WordAssumption
<1>4. highbits * Word + lowbits = 0 /\ 0 * (Word * Word) = 0
  BY WordAssumption DEF SumInit
<1> QED BY <1>1, <1>3, <1>4 DEF SumInv, Balanced

LEMMA ZeroBalancedNext == SumInit' => SumInv'
BY ZeroBalanced, PTL

\* Every step keeps the balance.
LEMMA SumStep == SumInv /\ [SumNext]_word_vars => SumInv'
<1> SUFFICES ASSUME SumInv, [SumNext]_word_vars PROVE SumInv'
  OBVIOUS
<1>0. /\ SumTypeOK /\ Word \in Nat /\ Word > 0
      /\ lowbits \in Int /\ 0 <= lowbits /\ lowbits < Word
      /\ highbits \in Int /\ 0 <= highbits /\ highbits < Word
  BY WordAssumption DEF SumInv, SumTypeOK
<1>1. ASSUME NEW o \in Adds, NEW v \in Amounts, AddLow(o, v) PROVE SumInv'
  <2>1. v \in 0 .. Word - 1
    BY WordAssumption
  <2>2. /\ lowbits + v < Word => lowbits' = lowbits + v
        /\ lowbits + v >= Word => lowbits' = lowbits + v - Word
        /\ lowbits' \in 0 .. Word - 1
    BY <1>0, <1>1, <2>1, Modular DEF AddLow
  <2>3. SumTypeOK'
    BY <1>0, <1>1, <2>1, <2>2 DEF AddLow, AddAt, SumTypeOK
  <2>4. /\ word_pc[o] = "idle" /\ amount'[o] = v /\ highbits' = highbits
        /\ word_pc'[o] = IF lowbits + v >= Word THEN "carry" ELSE "in"
        /\ \A p \in Adds \ {o} : word_pc'[p] = word_pc[p] /\ amount'[p] = amount[p]
    BY <1>0, <1>1 DEF AddLow, AddAt, SumTypeOK
  <2>5. lowbits' = lowbits - WeightBy(word_pc[o], amount[o]) + WeightBy(word_pc'[o], amount'[o])
    BY <1>0, <2>1, <2>2, <2>4 DEF WeightBy
  <2>6. highbits * Word \in Int /\ 0 * (Word * Word) = 0
    BY <1>0
  <2>7. /\ WeightBy(word_pc[o], amount[o]) \in Int /\ WeightBy(word_pc'[o], amount'[o]) \in Int
        /\ lowbits' \in Int
    BY <1>0, <2>2, <2>3, WeightType DEF SumTypeOK
  <2>8. highbits' * Word + lowbits' =
          (highbits * Word + lowbits) - WeightBy(word_pc[o], amount[o])
            + WeightBy(word_pc'[o], amount'[o]) + 0 * (Word * Word)
    BY <1>0, <2>4, <2>5, <2>6, <2>7
  <2> QED BY <2>3, <2>4, <2>8, BalancedStep DEF SumInv
<1>2. ASSUME NEW o \in Adds, AddHigh(o) PROVE SumInv'
  <2>1. /\ highbits + 1 < Word => highbits' = highbits + 1
        /\ highbits + 1 >= Word => highbits' = 0
        /\ highbits' \in 0 .. Word - 1
    BY <1>0, <1>2, Modular DEF AddHigh
  <2>2. SumTypeOK'
    BY <1>0, <1>2, <2>1 DEF AddHigh, AddAt, SumTypeOK
  <2>3. /\ word_pc[o] = "carry" /\ word_pc'[o] = "in" /\ amount' = amount /\ lowbits' = lowbits
        /\ \A p \in Adds \ {o} : word_pc'[p] = word_pc[p]
    BY <1>0, <1>2 DEF AddHigh, AddAt, SumTypeOK
  <2>4. amount[o] \in Int
    BY <1>0 DEF SumTypeOK
  <2>5. WeightBy(word_pc[o], amount[o]) = amount[o] - Word
        /\ WeightBy(word_pc'[o], amount'[o]) = amount[o]
    BY <2>3 DEF WeightBy
  <2>6. CASE highbits + 1 < Word
    <3>1. (highbits + 1) * Word = highbits * Word + Word /\ 0 * (Word * Word) = 0
          /\ highbits * Word \in Int
      BY <1>0
    <3>2. highbits' * Word + lowbits' =
            (highbits * Word + lowbits) - WeightBy(word_pc[o], amount[o])
              + WeightBy(word_pc'[o], amount'[o]) + 0 * (Word * Word)
      BY <1>0, <2>1, <2>3, <2>4, <2>5, <2>6, <3>1
    <3> QED BY <2>2, <2>3, <3>2, BalancedStep DEF SumInv
  <2>7. CASE highbits + 1 >= Word
    <3>1. highbits = Word - 1 /\ highbits' = 0
      BY <1>0, <2>1, <2>7
    <3>2. (Word - 1) * Word = Word * Word - Word /\ (-1) * (Word * Word) = -(Word * Word)
          /\ 0 * Word = 0 /\ Word * Word \in Int
      BY <1>0
    <3>3. highbits' * Word + lowbits' =
            (highbits * Word + lowbits) - WeightBy(word_pc[o], amount[o])
              + WeightBy(word_pc'[o], amount'[o]) + (-1) * (Word * Word)
      BY <1>0, <2>3, <2>4, <2>5, <3>1, <3>2
    <3> QED BY <2>2, <2>3, <3>3, BalancedStep DEF SumInv
  <2> QED BY <1>0, <2>6, <2>7
<1>3. ASSUME NEW o \in Adds, SubLow(o) PROVE SumInv'
  <2>1. amount[o] \in 0 .. Word - 1
    BY <1>0 DEF SumTypeOK
  <2>2. /\ lowbits < amount[o] => lowbits' = lowbits - amount[o] + Word
        /\ ~(lowbits < amount[o]) => lowbits' = lowbits - amount[o]
        /\ lowbits' \in 0 .. Word - 1
    BY <1>0, <1>3, <2>1, Modular DEF SubLow
  <2>3. SumTypeOK'
    BY <1>0, <1>3, <2>2 DEF SubLow, AddAt, SumTypeOK
  <2>4. /\ word_pc[o] = "in" /\ amount' = amount /\ highbits' = highbits
        /\ word_pc'[o] = IF lowbits < amount[o] THEN "borrow" ELSE "out"
        /\ \A p \in Adds \ {o} : word_pc'[p] = word_pc[p]
    BY <1>0, <1>3 DEF SubLow, AddAt, SumTypeOK
  <2>5. lowbits' = lowbits - WeightBy(word_pc[o], amount[o]) + WeightBy(word_pc'[o], amount'[o])
    BY <1>0, <2>1, <2>2, <2>4 DEF WeightBy
  <2>6. highbits * Word \in Int /\ 0 * (Word * Word) = 0
    BY <1>0
  <2>7. /\ WeightBy(word_pc[o], amount[o]) \in Int /\ WeightBy(word_pc'[o], amount'[o]) \in Int
        /\ lowbits' \in Int
    BY <1>0, <2>2, <2>3, WeightType DEF SumTypeOK
  <2>8. highbits' * Word + lowbits' =
          (highbits * Word + lowbits) - WeightBy(word_pc[o], amount[o])
            + WeightBy(word_pc'[o], amount'[o]) + 0 * (Word * Word)
    BY <1>0, <2>4, <2>5, <2>6, <2>7
  <2> QED BY <2>3, <2>4, <2>8, BalancedStep DEF SumInv
<1>4. ASSUME NEW o \in Adds, SubHigh(o) PROVE SumInv'
  <2>1. /\ highbits >= 1 => highbits' = highbits - 1
        /\ highbits < 1 => highbits' = Word - 1
        /\ highbits' \in 0 .. Word - 1
    <3>1. CASE highbits >= 1 \/ Word > 1
      BY <1>0, <1>4, <3>1, Modular DEF SubHigh
    <3>2. CASE highbits < 1 /\ Word = 1
      BY <1>0, <1>4, <3>2 DEF SubHigh
    <3> QED BY <1>0, <3>1, <3>2
  <2>2. SumTypeOK'
    BY <1>0, <1>4, <2>1 DEF SubHigh, AddAt, SumTypeOK
  <2>3. /\ word_pc[o] = "borrow" /\ word_pc'[o] = "out" /\ amount' = amount /\ lowbits' = lowbits
        /\ \A p \in Adds \ {o} : word_pc'[p] = word_pc[p]
    BY <1>0, <1>4 DEF SubHigh, AddAt, SumTypeOK
  <2>4. WeightBy(word_pc[o], amount[o]) = Word /\ WeightBy(word_pc'[o], amount'[o]) = 0
    BY <2>3 DEF WeightBy
  <2>5. CASE highbits >= 1
    <3>1. (highbits - 1) * Word = highbits * Word - Word /\ 0 * (Word * Word) = 0
          /\ highbits * Word \in Int
      BY <1>0
    <3>2. highbits' * Word + lowbits' =
            (highbits * Word + lowbits) - WeightBy(word_pc[o], amount[o])
              + WeightBy(word_pc'[o], amount'[o]) + 0 * (Word * Word)
      BY <1>0, <2>1, <2>3, <2>4, <2>5, <3>1
    <3> QED BY <2>2, <2>3, <3>2, BalancedStep DEF SumInv
  <2>6. CASE highbits < 1
    <3>1. highbits = 0 /\ highbits' = Word - 1
      BY <1>0, <2>1, <2>6
    <3>2. (Word - 1) * Word = Word * Word - Word /\ 1 * (Word * Word) = Word * Word
          /\ 0 * Word = 0 /\ Word * Word \in Int
      BY <1>0
    <3>3. highbits' * Word + lowbits' =
            (highbits * Word + lowbits) - WeightBy(word_pc[o], amount[o])
              + WeightBy(word_pc'[o], amount'[o]) + 1 * (Word * Word)
      BY <1>0, <2>3, <2>4, <3>1, <3>2
    <3> QED BY <2>2, <2>3, <3>3, BalancedStep DEF SumInv
  <2> QED BY <1>0, <2>5, <2>6
<1>5. CASE SumClear
  <2>1. SumInit'
    BY <1>5 DEF SumClear, SumInit
  <2> QED BY <2>1, ZeroBalancedNext
<1>6. CASE UNCHANGED word_vars
  BY <1>6 DEF SumInv, SumTypeOK, Balanced, Weight, WeightBy, word_vars
<1> QED BY <1>1, <1>2, <1>3, <1>4, <1>5, <1>6 DEF SumNext

\* Behind the barrier there is no carry and no borrow, and the sum is too small
\* for a wrap.
LEMMA BalancedReads == SumInv => BarrierReadsSum
<1> DEFINE In == {o \in Adds : word_pc[o] = "in"}
           sum == SumFunctionOnSet(amount, In)
<1> SUFFICES ASSUME SumInv, SumQuiescent
             PROVE  fetch_cap = Min({sum, Word - 1}) /\ highbits * Word + lowbits = sum
  BY DEF BarrierReadsSum
<1>0. /\ Word \in Nat /\ Word > 0
      /\ lowbits \in Int /\ 0 <= lowbits /\ lowbits < Word
      /\ highbits \in Int /\ 0 <= highbits /\ highbits < Word
  BY WordAssumption DEF SumInv, SumTypeOK
<1>1. IsFiniteSet(Adds) /\ IsFiniteSet(In) /\ In \subseteq Adds
  BY WordAssumption, FS_Subset
<1>2. \A o \in Adds : Weight(word_pc, amount)[o] = IF o \in In THEN amount[o] ELSE 0
  BY DEF Weight, WeightBy, SumQuiescent
<1>3. \A o \in Adds : amount[o] \in 0 .. Word - 1
  BY DEF SumInv, SumTypeOK
<1> HIDE DEF In
<1>4. SumFunctionOnSet(Weight(word_pc, amount), Adds) = sum
  <2>1. \A o \in Adds : Weight(word_pc, amount)[o] \in Int
    BY <1>0, <1>2, <1>3
  <2>2. SumFunctionOnSet(Weight(word_pc, amount), Adds)
          = SumFunctionOnSet(Weight(word_pc, amount), In)
    BY <1>1, <1>2, <2>1, SumSupport
  <2>3. SumFunctionOnSet(Weight(word_pc, amount), In) = sum
    BY <1>1, <1>2, <1>3, <2>1, SumEq
  <2> QED BY <2>2, <2>3
<1>5. sum \in 0 .. (Word - 1) * Cardinality(In)
  BY <1>0, <1>1, <1>3, SumBound
<1>6. Cardinality(In) \in Nat /\ Cardinality(In) <= Word
  <2>1. Cardinality(In) <= Cardinality(Adds) /\ Cardinality(In) \in Nat /\ Cardinality(Adds) \in Nat
    BY <1>1, FS_Subset, FS_CardinalityType
  <2> QED BY <2>1, <1>0, WordAssumption
<1> HIDE DEF sum
<1>7. sum \in Int /\ 0 <= sum /\ sum < Word * Word /\ Word * Word \in Int
  <2>1. (Word - 1) * Cardinality(In) <= (Word - 1) * Word
    BY <1>0, <1>6
  <2>2. (Word - 1) * Word < Word * Word /\ Word * Word \in Int
    BY <1>0
  <2> QED BY <1>0, <1>5, <1>6, <2>1, <2>2
<1>8. PICK k \in Int : highbits * Word + lowbits = sum + k * (Word * Word)
  BY <1>4 DEF SumInv, Balanced
<1>9. highbits * Word + lowbits \in Int /\ 0 <= highbits * Word + lowbits
      /\ highbits * Word + lowbits < Word * Word
  <2>1. highbits * Word <= (Word - 1) * Word /\ 0 <= highbits * Word /\ highbits * Word \in Int
    BY <1>0
  <2>2. (Word - 1) * Word = Word * Word - Word
    BY <1>0
  <2> QED BY <1>0, <1>7, <2>1, <2>2
<1>10. k = 0
  <2>1. k >= 1 => k * (Word * Word) >= Word * Word
    BY <1>7, <1>0
  <2>2. k <= -1 => k * (Word * Word) <= -(Word * Word)
    BY <1>7, <1>0
  <2>3. k * (Word * Word) \in Int
    BY <1>7
  <2> QED BY <1>7, <1>8, <1>9, <2>1, <2>2, <2>3
<1>11. highbits * Word + lowbits = sum
  <2>1. 0 * (Word * Word) = 0
    BY <1>7
  <2> QED BY <1>7, <1>8, <1>10, <2>1
<1>12. fetch_cap = Min({sum, Word - 1})
  <2>1. Min({sum, Word - 1}) = IF sum <= Word - 1 THEN sum ELSE Word - 1
    BY <1>0, <1>7, MinPair
  <2>2. CASE highbits = 0
    <3>1. 0 * Word = 0
      BY <1>0
    <3> QED BY <1>0, <1>11, <2>1, <2>2, <3>1 DEF fetch_cap
  <2>3. CASE highbits > 0
    <3>1. highbits * Word >= Word /\ highbits * Word \in Int
      BY <1>0, <2>3
    <3> QED BY <1>0, <1>7, <1>11, <2>1, <2>3, <3>1 DEF fetch_cap
  <2> QED BY <1>0, <2>2, <2>3
<1> QED BY <1>11, <1>12

\* fetch_cap, read behind the barrier at the end of a block, is the saturated
\* sum of the additions that were not taken back, however the steps of add and
\* sub on the two words interleave.
THEOREM BarrierReadsTheSum == SumSpec => []BarrierReadsSum
<1>1. SumInit => SumInv
  BY ZeroBalanced
<1>2. SumInv /\ [SumNext]_word_vars => SumInv'
  BY SumStep
<1> QED BY <1>1, <1>2, BalancedReads, PTL DEF SumSpec

=============================================================================
