------------------------------ MODULE BlockProofs ------------------------------
(***************************************************************************)
(* Proofs about module Block, for any number of machines and threads, any  *)
(* keys, any programs and any pools and blocks: when the threads are at    *)
(* rest the deltas on the objects are those of the transactions that       *)
(* tx_set lists, all of them, and between blocks there are none at all;    *)
(* whichever of them commit, every object gets a legal value; a block of   *)
(* payments neither makes money nor destroys it; and a block that one      *)
(* machine proposes is accepted by another, which it leaves in the same    *)
(* state.                                                                  *)
(*                                                                         *)
(* The invariant follows every delta from the push that reserves it to     *)
(* the commit or the destruction of its DeltaRewind.  It rests on two      *)
(* things that are not written down anywhere in the code: that no two      *)
(* threads have the same entry of the block, and that the deltas which a   *)
(* failed transaction has reserved are a prefix of the ones it would have, *)
(* so that destroying them in order up to the first that was not reserved  *)
(* destroys them all.                                                      *)
(***************************************************************************)
EXTENDS Block, SumTheorems, TLAPS

-----------------------------------------------------------------------------
(* The inductive invariant                                                 *)

\* Width and KeyOf, for any list of entries.
Width(list, i) == Len(Writes(list[i].tx))
KeyIn(list, x) == Writes(list[x[1]].tx)[x[3]].key

NameSet == Nat \X Nat \X Nat
DeltaSets == [held : SUBSET NameSet, done : SUBSET NameSet, used : Nat]
Busy == {"push", "add", "commit", "undo"}
Labels == {"push", "add", "commit", "undo", "run", "idle", "read", "store"}
ThreadStates == [pc : Labels, i : Nat, j : Nat, hi : Nat, k : Nat, err : BOOLEAN]

\* A list of transactions to execute.
IsList(list) ==
    /\ Len(list) \in Nat
    /\ \A i \in 1 .. Len(list) : list[i].tx \in Txs

Types ==
    /\ objs \in [Nodes -> [Keys -> DeltaSets]]
    /\ at \in Nodes
    /\ th \in [Threads -> ThreadStates]
    /\ found_error \in BOOLEAN
    /\ IsList(entries) /\ IsList(offer.block)
    /\ next \in 1 .. Len(entries) + 1
    /\ txset \subseteq (1 .. next - 1) \X Nat

\* A thread executes entries that have been handed out, at a position of the
\* program of one of them,
Executes(t) == th[t].pc = "run" \/ th[t].pc \in Busy
Ranges ==
    \A t \in Threads :
      Executes(t) => 1 <= th[t].i /\ th[t].i <= th[t].hi /\ th[t].hi < next
Positioned ==
    \A t \in Threads :
      /\ th[t].pc \in Busy => 1 <= th[t].k /\ th[t].k <= Width(entries, th[t].i) + 1
      /\ th[t].pc = "push" => th[t].k <= Width(entries, th[t].i)
\* and no two threads have the same entry.
Apart ==
    \A t, u \in Threads :
      t # u /\ Executes(t) /\ Executes(u) => th[t].hi < th[u].i \/ th[u].hi < th[t].i

\* Of the entries that a thread has, tx_set lists what lies behind it.
Committing(t, a, b) == th[t].pc = "commit" /\ th[t].i = a /\ th[t].j = b
Lists ==
    /\ \A t \in Threads : Executes(t) =>
         \A e \in txset :
           th[t].i <= e[1] /\ e[1] <= th[t].hi =>
             e[1] = th[t].i /\ (e[2] < th[t].j \/ Committing(t, e[1], e[2]))
    /\ \A t \in Threads : th[t].pc = "commit" => <<th[t].i, th[t].j>> \in txset

\* The deltas that a thread has reserved and that are neither committed nor undone.
MayHold(t, m) ==
    \/ th[t].pc = "push" /\ m < th[t].k
    \/ th[t].pc = "add"
    \/ th[t].pc \in {"commit", "undo"} /\ th[t].k <= m
HolderOf(t, x) ==
    /\ th[t].pc \in Busy /\ x[1] = th[t].i /\ x[2] = th[t].j
    /\ 1 <= x[3] /\ x[3] <= Width(entries, x[1])
    /\ MayHold(t, x[3])
HeldBySomeone ==
    \A key \in Keys : \A x \in objs[at][key].held :
      KeyIn(entries, x) = key /\ \E t \in Threads : HolderOf(t, x)

\* They have no gap: a thread that undoes them in order meets all of them.
Name(t, m) == <<th[t].i, th[t].j, m>>
HeldAt(t, m) == Name(t, m) \in objs[at][KeyIn(entries, Name(t, m))].held
NoGap ==
    \A t \in Threads :
      /\ th[t].pc = "push" =>
           \A m \in 1 .. Width(entries, th[t].i) : m < th[t].k => HeldAt(t, m)
      /\ th[t].pc = "add" => \A m \in 1 .. Width(entries, th[t].i) : HeldAt(t, m)
      /\ th[t].pc = "undo" =>
           \A m, l \in 1 .. Width(entries, th[t].i) :
             th[t].k <= l /\ l <= m /\ HeldAt(t, m) => HeldAt(t, l)
      /\ th[t].pc = "commit" =>
           \A m \in 1 .. Width(entries, th[t].i) : th[t].k <= m => HeldAt(t, m)

\* The deltas that are committed are those of the executions that tx_set lists,
\* but for the ones that a thread has still to commit.
Finished(x) ==
    /\ <<x[1], x[2]>> \in txset
    /\ 1 <= x[3] /\ x[3] <= Width(entries, x[1])
    /\ \A t \in Threads : Committing(t, x[1], x[2]) => x[3] < th[t].k
DoneIsListed ==
    \A key \in Keys : \A x \in NameSet :
      x \in objs[at][key].done <=> Finished(x) /\ KeyIn(entries, x) = key
KeysLogged ==
    \A e \in txset :
      \/ \E t \in Threads : Committing(t, e[1], e[2])
      \/ Written(entries[e[1]].tx) \subseteq logged

\* The machines that do not have the turn, and between blocks this one.
Empty(n) == \A key \in Keys : objs[n][key].held = {} /\ objs[n][key].done = {}
OthersClean == \A n \in Nodes : n # at => Empty(n)
IdleClean ==
    stage = "idle" => Empty(at) /\ txset = {} /\ \A t \in Threads : th[t].pc = "idle"

BlockInv ==
    /\ Types /\ Ranges /\ Positioned /\ Apart /\ Lists
    /\ HeldBySomeone /\ NoGap /\ DoneIsListed /\ KeysLogged
    /\ OthersClean /\ IdleClean

-----------------------------------------------------------------------------
(* Facts about programs and names                                          *)

\* KeyOf, with the list of entries as a parameter.
LEMMA KeyOfIsKeyIn == \A x : KeyOf(x) = KeyIn(entries, x)
BY DEF KeyOf, KeyIn

\* A program is a sequence of operations on distinct keys.
LEMMA ProgramShape ==
  ASSUME NEW tx \in Txs
  PROVE  /\ Len(Writes(tx)) \in Nat
         /\ DOMAIN Writes(tx) = 1 .. Len(Writes(tx))
         /\ Writes(tx) = <<>> <=> Len(Writes(tx)) = 0
         /\ \A m \in 1 .. Len(Writes(tx)) : Writes(tx)[m].key \in Keys
         /\ Written(tx) = {Writes(tx)[m].key : m \in 1 .. Len(Writes(tx))}
<1> DEFINE w == Writes(tx)
           S == {w[i] : i \in DOMAIN w}
<1>1. w \in Seq(S) /\ \A i \in DOMAIN w : w[i].key \in Keys
  BY BlockAssumption DEF Writes
<1> HIDE DEF S
<1>2. Len(w) \in Nat /\ DOMAIN w = 1 .. Len(w) /\ (w = <<>> <=> Len(w) = 0)
  BY <1>1
<1>3. \A m \in 1 .. Len(w) : w[m].key \in Keys
  BY <1>1, <1>2
<1>4. Written(tx) = {w[m].key : m \in 1 .. Len(w)}
  BY <1>2 DEF Written
<1> QED BY <1>2, <1>3, <1>4

\* The same of an entry of a list.
LEMMA EntryShape ==
  ASSUME NEW list, IsList(list), NEW i \in 1 .. Len(list)
  PROVE  /\ Width(list, i) \in Nat
         /\ \A x : x[1] = i /\ x[3] \in 1 .. Width(list, i) =>
              /\ KeyIn(list, x) \in Keys
              /\ KeyIn(list, x) \in Written(list[i].tx)
         /\ \A key \in Written(list[i].tx) :
              \E m \in 1 .. Width(list, i) : key = Writes(list[i].tx)[m].key
<1>1. list[i].tx \in Txs
  BY DEF IsList
<1> QED BY <1>1, ProgramShape DEF Width, KeyIn

\* The entry of a thread that executes.
LEMMA ThreadEntry ==
  ASSUME Types, Ranges, NEW t \in Threads, Executes(t)
  PROVE  /\ th[t].i \in 1 .. Len(entries)
         /\ entries[th[t].i].tx \in Txs
         /\ Width(entries, th[t].i) \in Nat
         /\ \A m \in 1 .. Width(entries, th[t].i) :
              /\ Name(t, m) \in NameSet
              /\ KeyIn(entries, Name(t, m)) \in Keys
<1>1. th[t] \in ThreadStates /\ next \in 1 .. Len(entries) + 1 /\ Len(entries) \in Nat
  BY DEF Types, IsList
<1>2. th[t].i \in Nat /\ th[t].j \in Nat /\ th[t].hi \in Nat
  BY <1>1 DEF ThreadStates
<1>3. th[t].i \in 1 .. Len(entries)
  BY <1>1, <1>2 DEF Ranges
<1>4. IsList(entries)
  BY DEF Types
<1>5. entries[th[t].i].tx \in Txs
  BY <1>3, <1>4 DEF IsList
<1>6. Width(entries, th[t].i) \in Nat
  BY <1>3, <1>4, EntryShape
<1>7. ASSUME NEW m \in 1 .. Width(entries, th[t].i)
      PROVE  Name(t, m) \in NameSet /\ KeyIn(entries, Name(t, m)) \in Keys
  <2>1. m \in Nat
    BY <1>6
  <2>2. Name(t, m) \in NameSet
    BY <1>2, <2>1 DEF Name, NameSet
  <2>3. Name(t, m)[1] = th[t].i /\ Name(t, m)[3] = m
    BY DEF Name
  <2> QED BY <2>2, <2>3, <1>3, <1>4, EntryShape
<1> QED BY <1>3, <1>5, <1>6, <1>7

\* Two threads that work on the same entry are the same one.
LEMMA OneThread ==
  ASSUME Types, Ranges, Apart, NEW t \in Threads, NEW u \in Threads,
         Executes(t), Executes(u), th[t].i = th[u].i
  PROVE  t = u
<1>1. th[t] \in ThreadStates /\ th[u] \in ThreadStates
  BY DEF Types
<1>2. th[t].i \in Nat /\ th[t].hi \in Nat /\ th[u].i \in Nat /\ th[u].hi \in Nat
  BY <1>1 DEF ThreadStates
<1>3. th[t].i <= th[t].hi /\ th[u].i <= th[u].hi
  BY DEF Ranges
<1> QED BY <1>2, <1>3 DEF Apart

\* The deltas of an object are names of the set.
LEMMA ObjectTypes ==
  ASSUME Types, NEW n \in Nodes, NEW key \in Keys
  PROVE  /\ objs[n][key] \in DeltaSets
         /\ objs[n][key].held \subseteq NameSet /\ objs[n][key].done \subseteq NameSet
         /\ objs[n][key].used \in Nat
<1>1. objs[n][key] \in DeltaSets
  BY DEF Types
<1> QED BY <1>1 DEF DeltaSets

-----------------------------------------------------------------------------
(* What the steps of a thread have in common                               *)

\* A step of thread t alone, which does not begin or end a block.
Alone(t) ==
    /\ \A u \in Threads : u # t => th'[u] = th[u]
    /\ UNCHANGED <<stage, at, entries, offer>>
    /\ \A n \in Nodes : n # at => objs'[n] = objs[n]

\* It stays with the entries that it has.
Within(t) ==
    /\ Executes(t)
    /\ next' = next
    /\ Executes(t)' => /\ th[t].i <= th'[t].i /\ th'[t].i <= th[t].hi
                       /\ th'[t].hi = th[t].hi

\* The fields of a thread.
LEMMA ThreadTypes ==
  ASSUME Types, NEW t \in Threads
  PROVE  /\ th[t] \in ThreadStates /\ th[t].pc \in Labels
         /\ th[t].i \in Nat /\ th[t].j \in Nat /\ th[t].hi \in Nat /\ th[t].k \in Nat
         /\ th[t].err \in BOOLEAN
<1>1. th[t] \in ThreadStates
  BY DEF Types
<1> QED BY <1>1 DEF ThreadStates

\* A thread that changes, and no other.
LEMMA BecomeStep ==
  ASSUME Types, NEW t \in Threads, NEW s, Become(t, s)
  PROVE  /\ th'[t] = s
         /\ \A u \in Threads : u # t => th'[u] = th[u]
         /\ s \in ThreadStates => th' \in [Threads -> ThreadStates]
<1>1. th \in [Threads -> ThreadStates]
  BY DEF Types
<1>2. th' = [th EXCEPT ![t] = s]
  BY DEF Become
<1> QED BY <1>1, <1>2

\* A step within one execution.
LEMMA GotoStep ==
  ASSUME Types, NEW t \in Threads, NEW pc \in Labels, NEW k \in Nat, Goto(t, pc, k)
  PROVE  /\ th'[t].pc = pc /\ th'[t].k = k
         /\ th'[t].i = th[t].i /\ th'[t].j = th[t].j /\ th'[t].hi = th[t].hi
         /\ \A u \in Threads : u # t => th'[u] = th[u]
         /\ th' \in [Threads -> ThreadStates]
<1> DEFINE s == [th[t] EXCEPT !.pc = pc, !.k = k]
<1>1. th[t] \in ThreadStates
  BY DEF Types
<1>2. /\ s \in ThreadStates /\ s.pc = pc /\ s.k = k
      /\ s.i = th[t].i /\ s.j = th[t].j /\ s.hi = th[t].hi
  BY <1>1 DEF ThreadStates
<1>3. Become(t, s)
  BY DEF Goto
<1> HIDE DEF s
<1>4. th'[t] = s /\ (\A u \in Threads : u # t => th'[u] = th[u]) /\ th' \in [Threads -> ThreadStates]
  BY <1>2, <1>3, BecomeStep
<1> QED BY <1>2, <1>4

\* The end of an execution: the thread stops, or it is before the next one.
LEMMA ReturnStep ==
  ASSUME Types, Ranges, NEW t \in Threads, NEW success \in BOOLEAN, Executes(t), Return(t, success)
  PROVE  /\ th'[t].pc \notin Busy
         /\ Executes(t)' =>
              /\ th'[t].hi = th[t].hi
              /\ \/ success /\ th'[t].i = th[t].i /\ th'[t].j = th[t].j + 1
                 \/ th'[t].i = th[t].i + 1 /\ th'[t].i <= th[t].hi
         /\ \A u \in Threads : u # t => th'[u] = th[u]
         /\ th' \in [Threads -> ThreadStates]
<1> DEFINE again == success /\ th[t].j < entries[th[t].i].n
           repeat == [th[t] EXCEPT !.pc = "run", !.j = th[t].j + 1, !.k = 0]
           pc == IF th[t].i < th[t].hi THEN "run" ELSE "read"
           after == [th[t] EXCEPT !.pc = pc, !.i = th[t].i + 1, !.j = 1, !.k = 0,
                                  !.err = th[t].err \/ ~success]
           s == IF stage = "assembling" THEN Resting ELSE IF again THEN repeat ELSE after
<1>1. Become(t, s)
  BY DEF Return
<1>2. th[t] \in ThreadStates /\ th[t].i \in Nat /\ th[t].j \in Nat /\ th[t].hi \in Nat
      /\ th[t].err \in BOOLEAN
  BY ThreadTypes
<1>3. Resting \in ThreadStates /\ Resting.pc = "idle"
  BY DEF Resting, ThreadStates, Labels
<1>4. repeat \in ThreadStates /\ repeat.pc = "run" /\ repeat.i = th[t].i
      /\ repeat.j = th[t].j + 1 /\ repeat.hi = th[t].hi
  <2>1. "run" \in Labels /\ th[t].j + 1 \in Nat /\ 0 \in Nat
    BY <1>2 DEF Labels
  <2> DEFINE j == th[t].j + 1
  <2> HIDE DEF j
  <2> QED BY <1>2, <2>1 DEF ThreadStates, j
<1>5. (th[t].err \/ ~success) \in BOOLEAN
  BY <1>2
<1>6. pc \in Labels
  BY DEF Labels
<1>7. after \in ThreadStates /\ after.pc = pc /\ after.i = th[t].i + 1 /\ after.hi = th[t].hi
  <2> DEFINE e == th[t].err \/ ~success
             i == th[t].i + 1
             a == [th[t] EXCEPT !.pc = pc, !.i = i, !.j = 1, !.k = 0, !.err = e]
  <2>1. e \in BOOLEAN /\ i \in Nat
    BY <1>2, <1>5
  <2> HIDE DEF e, pc, i
  <2>2. a \in ThreadStates /\ a.pc = pc /\ a.i = i /\ a.hi = th[t].hi
    BY <1>2, <1>6, <2>1 DEF ThreadStates
  <2> QED BY <2>2 DEF i, e
<1>8. s = Resting \/ (again /\ s = repeat) \/ s = after
  OBVIOUS
<1> HIDE DEF s, repeat, after
<1>9. s \in ThreadStates
  BY <1>3, <1>4, <1>7, <1>8
<1>10. /\ th'[t] = s
       /\ \A u \in Threads : u # t => th'[u] = th[u]
       /\ th' \in [Threads -> ThreadStates]
  BY <1>1, <1>9, BecomeStep
<1>11. /\ s.pc \notin Busy
       /\ s.pc = "run" => /\ s.hi = th[t].hi
                          /\ \/ success /\ s.i = th[t].i /\ s.j = th[t].j + 1
                             \/ s.i = th[t].i + 1 /\ s.i <= th[t].hi
  BY <1>2, <1>3, <1>4, <1>7, <1>8 DEF Busy
<1> QED BY <1>10, <1>11 DEF Executes

\* An object that is replaced.
LEMMA SetObjectStep ==
  ASSUME Types, NEW key \in Keys, NEW o \in DeltaSets, SetObject(key, o)
  PROVE  /\ objs' \in [Nodes -> [Keys -> DeltaSets]]
         /\ objs'[at][key] = o
         /\ \A q \in Keys : q # key => objs'[at][q] = objs[at][q]
         /\ \A n \in Nodes : n # at => objs'[n] = objs[n]
<1>1. objs \in [Nodes -> [Keys -> DeltaSets]] /\ at \in Nodes
  BY DEF Types
<1>2. objs' = [objs EXCEPT ![at] = [objs[at] EXCEPT ![key] = o]]
  BY DEF SetObject
<1> DEFINE row == [objs[at] EXCEPT ![key] = o]
<1>3. row \in [Keys -> DeltaSets] /\ row[key] = o /\ \A q \in Keys : q # key => row[q] = objs[at][q]
  BY <1>1
<1> HIDE DEF row
<1>4. objs' = [objs EXCEPT ![at] = row]
  BY <1>2 DEF row
<1>5. objs'[at] = row /\ \A n \in Nodes : n # at => objs'[n] = objs[n]
  BY <1>1, <1>4
<1>6. objs' \in [Nodes -> [Keys -> DeltaSets]]
  BY <1>1, <1>3, <1>4
<1> QED BY <1>3, <1>5, <1>6

\* The entries of the threads stay apart.
LEMMA WithinStep ==
  ASSUME Types, Types', Ranges, Apart, NEW t \in Threads, Alone(t), Within(t)
  PROVE  Ranges' /\ Apart'
<1>1. \A u \in Threads : /\ th[u].i \in Nat /\ th[u].hi \in Nat
                         /\ th'[u].i \in Nat /\ th'[u].hi \in Nat
  BY ThreadTypes DEF Types, ThreadStates
<1>2. next \in Nat /\ next' = next
  BY DEF Types, IsList, Within
<1>3. \A u \in Threads : u # t => th'[u] = th[u] /\ (Executes(u)' <=> Executes(u))
  BY DEF Alone, Executes
<1>4. Executes(t)' => Executes(t) /\ th[t].i <= th'[t].i /\ th'[t].i <= th[t].hi /\ th'[t].hi = th[t].hi
  BY DEF Within
<1>5. Ranges'
  BY <1>1, <1>2, <1>3, <1>4 DEF Ranges
<1>6. ASSUME NEW u \in Threads, NEW v \in Threads, u # v, Executes(u)', Executes(v)'
      PROVE  th'[u].hi < th'[v].i \/ th'[v].hi < th'[u].i
  BY <1>1, <1>3, <1>4, <1>6 DEF Apart
<1> QED BY <1>5, <1>6 DEF Apart

\* A thread that does not commit leaves what is committed alone.
LEMMA QuietStep ==
  ASSUME DoneIsListed, KeysLogged, NEW t \in Threads, Alone(t),
         th[t].pc # "commit", th'[t].pc # "commit", UNCHANGED <<txset, logged>>,
         \A key \in Keys : objs'[at][key].done = objs[at][key].done
  PROVE  DoneIsListed' /\ KeysLogged'
<1>1. at' = at /\ entries' = entries /\ txset' = txset /\ logged' = logged
  BY DEF Alone
<1>2. \A u \in Threads : \A a, b : Committing(u, a, b)' <=> Committing(u, a, b)
  BY DEF Alone, Committing
<1>3. \A u \in Threads : u # t => th'[u] = th[u]
  BY DEF Alone
<1>4. \A a, b : ~Committing(t, a, b)
  BY DEF Committing
<1>5. \A x : Finished(x)' <=> Finished(x)
  BY <1>1, <1>2, <1>3, <1>4 DEF Finished
<1>6. DoneIsListed'
  BY <1>1, <1>5 DEF DoneIsListed
<1>7. KeysLogged'
  BY <1>1, <1>2 DEF KeysLogged
<1> QED BY <1>6, <1>7

\* The machines that do not have the turn.
LEMMA CleanStep ==
  ASSUME OthersClean, IdleClean, NEW t \in Threads, Alone(t), th[t].pc # "idle" \/ stage # "idle"
  PROVE  OthersClean' /\ IdleClean'
BY DEF OthersClean, IdleClean, Alone, Empty

\* The other threads hold what they held.
LEMMA HolderKept ==
  ASSUME NEW t \in Threads, Alone(t), NEW u \in Threads, u # t, NEW x, HolderOf(u, x)
  PROVE  HolderOf(u, x)'
BY DEF Alone, HolderOf, MayHold

-----------------------------------------------------------------------------
(* The steps of an execution                                               *)

\* A step that leaves the objects alone, after which the thread holds no more
\* than it did: what is held is still held by someone.
LEMMA HeldKept ==
  ASSUME Types, HeldBySomeone, NEW t \in Threads, Alone(t),
         \A key \in Keys : objs'[at][key].held \subseteq objs[at][key].held,
         \A key \in Keys : \A x \in objs'[at][key].held : HolderOf(t, x) => HolderOf(t, x)'
  PROVE  HeldBySomeone'
<1> SUFFICES ASSUME NEW key \in Keys, NEW x \in objs'[at'][key].held
             PROVE  KeyIn(entries', x) = key /\ \E u \in Threads : HolderOf(u, x)'
  BY DEF HeldBySomeone
<1>1. at' = at /\ entries' = entries
  BY DEF Alone
<1>2. x \in objs[at][key].held
  BY <1>1
<1>3. KeyIn(entries, x) = key
  BY <1>2 DEF HeldBySomeone
<1>4. PICK u \in Threads : HolderOf(u, x)
  BY <1>2 DEF HeldBySomeone
<1>5. HolderOf(u, x)'
  BY <1>1, <1>4, HolderKept
<1> QED BY <1>1, <1>3, <1>5

\* The other threads have no gap if their names stay where they are.
LEMMA OthersNoGap ==
  ASSUME NoGap, NEW t \in Threads, Alone(t),
         \A u \in Threads : u # t /\ Executes(u) =>
           \A m \in 1 .. Width(entries, th[u].i) : HeldAt(u, m)' <=> HeldAt(u, m),
         th'[t].pc = "push" =>
           \A m \in 1 .. Width(entries, th'[t].i) : m < th'[t].k => HeldAt(t, m)',
         th'[t].pc = "add" => \A m \in 1 .. Width(entries, th'[t].i) : HeldAt(t, m)',
         th'[t].pc = "undo" =>
           \A m, l \in 1 .. Width(entries, th'[t].i) :
             th'[t].k <= l /\ l <= m /\ HeldAt(t, m)' => HeldAt(t, l)',
         th'[t].pc = "commit" =>
           \A m \in 1 .. Width(entries, th'[t].i) : th'[t].k <= m => HeldAt(t, m)'
  PROVE  NoGap'
<1>1. entries' = entries
  BY DEF Alone
<1>2. ASSUME NEW u \in Threads, u # t
      PROVE  /\ th'[u].pc = "push" =>
                  \A m \in 1 .. Width(entries', th'[u].i) : m < th'[u].k => HeldAt(u, m)'
             /\ th'[u].pc = "add" => \A m \in 1 .. Width(entries', th'[u].i) : HeldAt(u, m)'
             /\ th'[u].pc = "undo" =>
                  \A m, l \in 1 .. Width(entries', th'[u].i) :
                    th'[u].k <= l /\ l <= m /\ HeldAt(u, m)' => HeldAt(u, l)'
             /\ th'[u].pc = "commit" =>
                  \A m \in 1 .. Width(entries', th'[u].i) : th'[u].k <= m => HeldAt(u, m)'
  <2>1. th'[u] = th[u]
    BY <1>2 DEF Alone
  <2>2. th[u].pc \in {"push", "add", "undo", "commit"} => Executes(u)
    BY DEF Executes, Busy
  <2>3. ASSUME th[u].pc \in {"push", "add", "undo", "commit"}
        PROVE  \A m \in 1 .. Width(entries, th[u].i) : HeldAt(u, m)' <=> HeldAt(u, m)
    BY <1>2, <2>2, <2>3
  <2>4. CASE th[u].pc = "push"
    BY <1>1, <2>1, <2>3, <2>4 DEF NoGap
  <2>5. CASE th[u].pc = "add"
    BY <1>1, <2>1, <2>3, <2>5 DEF NoGap
  <2>6. CASE th[u].pc = "undo"
    BY <1>1, <2>1, <2>3, <2>6 DEF NoGap
  <2>7. CASE th[u].pc = "commit"
    BY <1>1, <2>1, <2>3, <2>7 DEF NoGap
  <2> QED BY <2>1, <2>4, <2>5, <2>6, <2>7
<1>3. /\ th'[t].pc = "push" =>
           \A m \in 1 .. Width(entries', th'[t].i) : m < th'[t].k => HeldAt(t, m)'
      /\ th'[t].pc = "add" => \A m \in 1 .. Width(entries', th'[t].i) : HeldAt(t, m)'
      /\ th'[t].pc = "undo" =>
           \A m, l \in 1 .. Width(entries', th'[t].i) :
             th'[t].k <= l /\ l <= m /\ HeldAt(t, m)' => HeldAt(t, l)'
      /\ th'[t].pc = "commit" =>
           \A m \in 1 .. Width(entries', th'[t].i) : th'[t].k <= m => HeldAt(t, m)'
  BY <1>1
<1> QED BY <1>2, <1>3, Zenon DEF NoGap

\* Objects that stay as they are.
LEMMA SameHeldAt ==
  ASSUME NEW t \in Threads, Alone(t), UNCHANGED objs
  PROVE  \A u \in Threads : u # t /\ Executes(u) =>
           \A m \in 1 .. Width(entries, th[u].i) : HeldAt(u, m)' <=> HeldAt(u, m)
BY DEF Alone, HeldAt, Name

\* tx_set is behind a thread that does not commit, or has just returned.
LEMMA ListsStep ==
  ASSUME Types, Ranges, Lists, NEW t \in Threads, Alone(t), UNCHANGED txset,
         Executes(t), th'[t].pc # "commit",
         Executes(t)' =>
           /\ th'[t].hi = th[t].hi
           /\ \/ th'[t].i = th[t].i /\ th'[t].j = th[t].j /\ th[t].pc # "commit"
              \/ th'[t].i = th[t].i /\ th'[t].j = th[t].j + 1
              \/ th'[t].i = th[t].i + 1
  PROVE  Lists'
<1>1. \A u \in Threads : u # t => /\ th'[u] = th[u] /\ (Executes(u)' <=> Executes(u))
                                  /\ \A a, b : Committing(u, a, b)' <=> Committing(u, a, b)
  BY DEF Alone, Executes, Committing
<1>2. th[t].i \in Nat /\ th[t].j \in Nat /\ th[t].hi \in Nat
  BY ThreadTypes
<1>3. \A e \in txset : e[1] \in Nat /\ e[2] \in Nat
  BY DEF Types, IsList
<1>4. ASSUME Executes(t)', NEW e \in txset, th'[t].i <= e[1], e[1] <= th'[t].hi
      PROVE  e[1] = th'[t].i /\ e[2] < th'[t].j
  <2>1. th[t].i <= e[1] /\ e[1] <= th[t].hi
    BY <1>2, <1>3, <1>4
  <2>2. e[1] = th[t].i /\ (e[2] < th[t].j \/ Committing(t, e[1], e[2]))
    BY <2>1 DEF Lists
  <2>3. Committing(t, e[1], e[2]) => th[t].pc = "commit" /\ e[2] = th[t].j
    BY DEF Committing
  <2> QED BY <1>2, <1>3, <1>4, <2>2, <2>3
<1>5. ASSUME NEW u \in Threads, Executes(u)'
      PROVE  \A e \in txset' :
               th'[u].i <= e[1] /\ e[1] <= th'[u].hi =>
                 e[1] = th'[u].i /\ (e[2] < th'[u].j \/ Committing(u, e[1], e[2])')
  BY <1>1, <1>4, <1>5 DEF Lists
<1>6. \A u \in Threads : th'[u].pc = "commit" => <<th'[u].i, th'[u].j>> \in txset'
  BY <1>1 DEF Lists
<1> QED BY <1>5, <1>6 DEF Lists

\* A transaction that is run, with a HostError or with deltas to push.
LEMMA RunKeeps ==
  ASSUME BlockInv, NEW t \in Threads, Run(t)
  PROVE  BlockInv'
<1> USE DEF BlockInv
<1>1. th[t].pc = "run" /\ Executes(t)
  BY DEF Run, Executes
<1>2. /\ UNCHANGED <<stage, at, entries, offer, objs, next, txset, logged, found_error>>
  BY DEF Run, machine, block_context
<1>3. /\ th' \in [Threads -> ThreadStates]
      /\ \A u \in Threads : u # t => th'[u] = th[u]
      /\ Executes(t)' => /\ th'[t].hi = th[t].hi
                         /\ \/ th'[t].i = th[t].i /\ th'[t].j = th[t].j
                            \/ th'[t].i = th[t].i + 1 /\ th'[t].i <= th[t].hi
      /\ th'[t].pc \in Busy => /\ th'[t].i = th[t].i /\ th'[t].k = 1
                               /\ th'[t].pc = "push" => Width(entries, th[t].i) > 0
                               /\ th'[t].pc = "add" => Width(entries, th[t].i) = 0
                               /\ th'[t].pc \in {"push", "add"}
  <2>1. CASE Return(t, FALSE)
    BY <1>1, <2>1, ReturnStep DEF Executes
  <2>2. CASE Goto(t, IF Writes(Tx(t)) = <<>> THEN "add" ELSE "push", 1)
    <3> DEFINE pc == IF Writes(Tx(t)) = <<>> THEN "add" ELSE "push"
    <3>1. pc \in Labels /\ pc \in {"push", "add"} /\ 1 \in Nat
      BY DEF Labels
    <3>2. entries[th[t].i].tx \in Txs /\ Tx(t) = entries[th[t].i].tx
      BY <1>1, ThreadEntry DEF Tx
    <3>3. /\ pc = "push" => Width(entries, th[t].i) > 0
          /\ pc = "add" => Width(entries, th[t].i) = 0
      BY <3>2, ProgramShape DEF Width
    <3> HIDE DEF pc
    <3>4. Goto(t, pc, 1)
      BY <2>2 DEF pc
    <3> QED BY <3>1, <3>3, <3>4, GotoStep
  <2> QED BY <2>1, <2>2 DEF Run
<1>4. Alone(t)
  BY <1>2, <1>3 DEF Alone
<1>5. Types'
  BY <1>2, <1>3 DEF Types
<1>6. th[t].i \in Nat /\ th[t].hi \in Nat /\ th[t].i <= th[t].hi
  BY <1>1, ThreadTypes DEF Ranges
<1>7. Ranges' /\ Apart'
  <2>1. Within(t)
    BY <1>1, <1>2, <1>3, <1>6 DEF Within
  <2> QED BY <2>1, <1>4, <1>5, WithinStep
<1>8. th'[t].pc # "commit"
  BY <1>3 DEF Busy
<1>9. Lists'
  <2>1. Executes(t)' =>
           /\ th'[t].hi = th[t].hi
           /\ \/ th'[t].i = th[t].i /\ th'[t].j = th[t].j /\ th[t].pc # "commit"
              \/ th'[t].i = th[t].i /\ th'[t].j = th[t].j + 1
              \/ th'[t].i = th[t].i + 1
    BY <1>1, <1>3
  <2> QED BY <2>1, <1>1, <1>2, <1>4, <1>8, ListsStep
<1>10. Width(entries, th[t].i) \in Nat
  BY <1>1, ThreadEntry
<1>11. Positioned'
  BY <1>2, <1>3, <1>10 DEF Positioned, Busy
<1>12. HeldBySomeone'
  <2>1. \A x : ~HolderOf(t, x)
    BY <1>1 DEF HolderOf, Busy
  <2> QED BY <1>2, <1>4, <2>1, HeldKept
<1>13. NoGap'
  <2>1. th'[t].pc # "undo"
    BY <1>3 DEF Busy
  <2>2. th'[t].pc = "push" =>
          \A m \in 1 .. Width(entries, th'[t].i) : m < th'[t].k => HeldAt(t, m)'
    BY <1>3, <1>10 DEF Busy
  <2>3. th'[t].pc = "add" => \A m \in 1 .. Width(entries, th'[t].i) : HeldAt(t, m)'
    BY <1>3, <1>10 DEF Busy
  <2> QED BY <1>2, <1>4, <1>8, <2>1, <2>2, <2>3, SameHeldAt, OthersNoGap
<1>14. DoneIsListed' /\ KeysLogged'
  BY <1>1, <1>2, <1>4, <1>8, QuietStep
<1>15. OthersClean' /\ IdleClean'
  BY <1>1, <1>4, CleanStep
<1> QED BY <1>5, <1>7, <1>9, <1>11, <1>12, <1>13, <1>14, <1>15

\* The delta that a thread is at, and its object.
LEMMA AtDelta ==
  ASSUME Types, Ranges, NEW t \in Threads, Executes(t),
         1 <= th[t].k, th[t].k <= Width(entries, th[t].i)
  PROVE  /\ Named(t) = Name(t, th[t].k)
         /\ Named(t) \in NameSet
         /\ Named(t)[1] = th[t].i /\ Named(t)[2] = th[t].j /\ Named(t)[3] = th[t].k
         /\ KeyOf(Named(t)) = KeyIn(entries, Named(t))
         /\ KeyIn(entries, Named(t)) \in Keys
         /\ Object(t) = objs[at][KeyIn(entries, Named(t))]
         /\ Object(t) \in DeltaSets
<1>1. th[t].k \in Nat /\ Width(entries, th[t].i) \in Nat
  BY ThreadTypes, ThreadEntry
<1>2. th[t].k \in 1 .. Width(entries, th[t].i)
  BY <1>1
<1>3. Named(t) = Name(t, th[t].k)
  BY DEF Named, Name
<1>4. Named(t) \in NameSet /\ KeyIn(entries, Named(t)) \in Keys
  BY <1>2, <1>3, ThreadEntry
<1>5. Named(t)[1] = th[t].i /\ Named(t)[2] = th[t].j /\ Named(t)[3] = th[t].k
  BY DEF Named
<1>6. KeyOf(Named(t)) = KeyIn(entries, Named(t))
  BY KeyOfIsKeyIn
<1>7. Object(t) = objs[at][KeyIn(entries, Named(t))]
  BY <1>6 DEF Object
<1>8. at \in Nodes
  BY DEF Types
<1>9. Object(t) \in DeltaSets
  BY <1>4, <1>7, <1>8, ObjectTypes
<1> QED BY <1>3, <1>4, <1>5, <1>6, <1>7, <1>9

\* A name of another thread is a different one.
LEMMA OtherName ==
  ASSUME Types, Ranges, Apart, NEW t \in Threads, NEW u \in Threads, u # t,
         Executes(t), Executes(u), NEW m
  PROVE  Name(u, m) # Named(t)
<1>1. Name(u, m)[1] = th[u].i /\ Named(t)[1] = th[t].i
  BY DEF Name, Named
<1> QED BY <1>1, OneThread

\* One delta is pushed, or it is refused and the others will be undone.
LEMMA PushKeeps ==
  ASSUME BlockInv, NEW t \in Threads, Push(t)
  PROVE  BlockInv'
<1> USE DEF BlockInv
<1> DEFINE name == Named(t)
           key == KeyIn(entries, name)
           W == Width(entries, th[t].i)
<1>0. PICK k : k = th[t].k
  OBVIOUS
<1>1. th[t].pc = "push" /\ Executes(t) /\ th[t].pc \in Busy
  BY DEF Push, Executes, Busy
<1>2. UNCHANGED <<stage, at, entries, offer, next, txset, logged, found_error>>
  BY DEF Push, machine, block_context
<1>3. k \in Nat /\ W \in Nat /\ 1 <= k /\ k <= W
  BY <1>0, <1>1, ThreadTypes, ThreadEntry DEF Positioned
<1>4. /\ name = Name(t, k) /\ name \in NameSet
      /\ name[1] = th[t].i /\ name[2] = th[t].j /\ name[3] = k
      /\ KeyOf(name) = key /\ key \in Keys
      /\ Object(t) = objs[at][key] /\ Object(t) \in DeltaSets
  BY <1>0, <1>1, <1>3, AtDelta
<1>5. W = Len(Writes(Tx(t)))
  BY DEF Width, Tx
<1>6. PICK pc \in {"push", "add", "undo"}, q \in Nat :
        /\ Goto(t, pc, q)
        /\ \/ /\ pc \in {"push", "add"} /\ SetObject(key, Reserved(objs[at][key], name))
              /\ pc = "push" => k < W /\ q = k + 1
              /\ pc = "add" => k = W /\ q = 1
           \/ pc = "undo" /\ q = 1 /\ UNCHANGED objs
  <2>1. CASE /\ SetObject(KeyOf(name), Reserved(Object(t), name))
             /\ IF k = Len(Writes(Tx(t))) THEN Goto(t, "add", 1) ELSE Goto(t, "push", k + 1)
    <3>1. CASE k = W
      BY <2>1, <3>1, <1>4, <1>5
    <3>2. CASE k # W
      <4>1. k < W /\ k + 1 \in Nat
        BY <1>3, <3>2
      <4> QED BY <2>1, <3>2, <4>1, <1>4, <1>5
    <3> QED BY <3>1, <3>2
  <2>2. CASE Goto(t, "undo", 1) /\ UNCHANGED objs
    BY <2>2
  <2> QED BY <1>0, <2>1, <2>2 DEF Push
<1> HIDE DEF name, key, W
<1>7. pc \in Labels /\ pc \in Busy
  BY DEF Labels, Busy
<1>8. /\ th'[t].pc = pc /\ th'[t].k = q
      /\ th'[t].i = th[t].i /\ th'[t].j = th[t].j /\ th'[t].hi = th[t].hi
      /\ \A u \in Threads : u # t => th'[u] = th[u]
      /\ th' \in [Threads -> ThreadStates]
  BY <1>6, <1>7, GotoStep
<1>9. at \in Nodes
  BY DEF Types
<1>10. /\ objs' \in [Nodes -> [Keys -> DeltaSets]]
       /\ \A n \in Nodes : n # at => objs'[n] = objs[n]
       /\ \A p \in Keys : objs'[at][p].done = objs[at][p].done
       /\ \A p \in Keys : p # key => objs'[at][p].held = objs[at][p].held
       /\ pc = "undo" => objs' = objs
       /\ pc # "undo" => objs'[at][key].held = objs[at][key].held \cup {name}
  <2>1. CASE UNCHANGED objs /\ pc = "undo"
    BY <2>1 DEF Types
  <2>2. CASE SetObject(key, Reserved(objs[at][key], name)) /\ pc # "undo"
    <3> DEFINE o == objs[at][key]
               n == o.used + (IF IsInsert(name) THEN 1 ELSE 0)
               r == [o EXCEPT !.held = o.held \cup {name}, !.used = n]
    <3>1. o \in DeltaSets /\ o.held \in SUBSET NameSet /\ o.done \in SUBSET NameSet /\ o.used \in Nat
      BY <1>4, <1>9, ObjectTypes
    <3>2. n \in Nat /\ o.held \cup {name} \in SUBSET NameSet
      BY <3>1, <1>4
    <3>3. Reserved(o, name) = r
      BY DEF Reserved
    <3> HIDE DEF n, o
    <3>4. r \in DeltaSets /\ r.held = o.held \cup {name} /\ r.done = o.done
      BY <3>1, <3>2 DEF DeltaSets
    <3> HIDE DEF r
    <3>5. SetObject(key, r)
      BY <2>2, <3>3 DEF o
    <3>6. /\ objs' \in [Nodes -> [Keys -> DeltaSets]]
          /\ objs'[at][key] = r
          /\ \A p \in Keys : p # key => objs'[at][p] = objs[at][p]
          /\ \A m \in Nodes : m # at => objs'[m] = objs[m]
      BY <1>4, <3>4, <3>5, SetObjectStep
    <3> QED BY <2>2, <3>4, <3>6 DEF o
  <2> QED BY <1>6, <2>1, <2>2
<1>11. Alone(t)
  BY <1>2, <1>8, <1>10 DEF Alone
<1>12. Types'
  BY <1>2, <1>8, <1>10 DEF Types
<1>13. th[t].i \in Nat /\ th[t].hi \in Nat /\ th[t].i <= th[t].hi
  BY <1>1, ThreadTypes DEF Ranges
<1>14. Ranges' /\ Apart'
  <2>1. Within(t)
    BY <1>1, <1>2, <1>8, <1>13 DEF Within
  <2> QED BY <2>1, <1>11, <1>12, WithinStep
<1>15. Lists'
  BY <1>1, <1>2, <1>8, <1>11, ListsStep
<1>16. Positioned'
  BY <1>2, <1>3, <1>6, <1>8 DEF Positioned, Busy, W
<1>17. HeldBySomeone'
  <2> SUFFICES ASSUME NEW p \in Keys, NEW x \in objs'[at][p].held
               PROVE  KeyIn(entries, x) = p /\ \E u \in Threads : HolderOf(u, x)'
    BY <1>2 DEF HeldBySomeone
  <2>1. CASE x \in objs[at][p].held
    <3>1. PICK u \in Threads : HolderOf(u, x)
      BY <2>1 DEF HeldBySomeone
    <3>2. CASE u = t
      <4>1. /\ x[1] = th[t].i /\ x[2] = th[t].j
            /\ 1 <= x[3] /\ x[3] <= Width(entries, x[1]) /\ x[3] < k
        BY <1>0, <1>1, <3>1, <3>2 DEF HolderOf, MayHold
      <4>2. x \in NameSet
        BY <2>1, <1>9, ObjectTypes
      <4>3. x[3] \in Nat
        BY <4>2 DEF NameSet
      <4>4. MayHold(t, x[3])'
        BY <1>3, <1>6, <1>8, <4>1, <4>3 DEF MayHold
      <4>5. HolderOf(t, x)'
        BY <1>2, <1>7, <1>8, <4>1, <4>4 DEF HolderOf
      <4> QED BY <2>1, <4>5 DEF HeldBySomeone
    <3>3. CASE u # t
      BY <2>1, <3>1, <3>3, <1>11, HolderKept DEF HeldBySomeone
    <3> QED BY <3>2, <3>3
  <2>2. CASE x \notin objs[at][p].held
    <3>1. x = name /\ p = key /\ pc # "undo"
      BY <2>2, <1>10
    <3>2. MayHold(t, k)'
      BY <1>3, <1>6, <1>8, <3>1 DEF MayHold
    <3>3. HolderOf(t, x)'
      BY <1>2, <1>3, <1>4, <1>7, <1>8, <3>1, <3>2 DEF HolderOf, W
    <3> QED BY <3>1, <3>3 DEF key
  <2> QED BY <2>1, <2>2
<1>18. \A u \in Threads : \A m : HeldAt(u, m) /\ KeyIn(entries, Name(u, m)) \in Keys
          /\ th'[u].i = th[u].i /\ th'[u].j = th[u].j => HeldAt(u, m)'
  BY <1>2, <1>10 DEF HeldAt, Name
<1>19. NoGap'
  <2>1. ASSUME NEW u \in Threads, u # t, Executes(u), NEW m \in 1 .. Width(entries, th[u].i)
        PROVE  HeldAt(u, m)' <=> HeldAt(u, m)
    <3>1. th'[u] = th[u] /\ KeyIn(entries, Name(u, m)) \in Keys
      BY <1>8, <2>1, ThreadEntry
    <3>2. Name(u, m) # name
      BY <1>1, <2>1, OtherName DEF name
    <3>3. Name(u, m)' = Name(u, m)
      BY <3>1 DEF Name
    <3> QED BY <1>2, <1>10, <3>1, <3>2, <3>3 DEF HeldAt
  <2>2. \A m \in 1 .. W : KeyIn(entries, Name(t, m)) \in Keys
    BY <1>1, ThreadEntry DEF W
  <2>3. Name(t, k)' = name
    BY <1>4, <1>8 DEF Name
  <2>4. \A m \in 1 .. W : m < k => HeldAt(t, m)
    BY <1>0, <1>1 DEF NoGap, W
  <2>5. \A m \in 1 .. W : m < k => HeldAt(t, m)'
    BY <2>2, <2>4, <1>8, <1>18
  <2>6. pc # "undo" => HeldAt(t, k)'
    BY <2>3, <1>2, <1>10 DEF HeldAt, key
  <2>7. Width(entries, th'[t].i) = W
    BY <1>8 DEF W
  <2>8. th'[t].pc = "push" => \A m \in 1 .. W : m < th'[t].k => HeldAt(t, m)'
    BY <1>3, <1>6, <1>8, <2>5, <2>6
  <2>9. th'[t].pc = "add" => \A m \in 1 .. W : HeldAt(t, m)'
    BY <1>3, <1>6, <1>8, <2>5, <2>6
  <2>10. ASSUME pc = "undo", NEW m \in 1 .. W, NEW l \in 1 .. W, l <= m, HeldAt(t, m)'
         PROVE  HeldAt(t, l)'
    <3>1. HeldAt(t, m)
      BY <1>2, <1>8, <1>10, <2>10 DEF HeldAt, Name
    <3> DEFINE x == Name(t, m)
    <3>2. x[1] = th[t].i /\ x[3] = m
      BY DEF Name
    <3>3. PICK u \in Threads : HolderOf(u, x)
      BY <2>2, <3>1 DEF HeldAt, HeldBySomeone
    <3>4. Executes(u) /\ th[u].i = th[t].i
      BY <3>2, <3>3 DEF HolderOf, Executes
    <3>5. u = t
      BY <1>1, <3>4, OneThread
    <3>6. m < k
      BY <1>0, <1>1, <3>2, <3>3, <3>5 DEF HolderOf, MayHold
    <3>7. l < k
      BY <1>3, <2>10, <3>6
    <3> QED BY <2>5, <3>7
  <2> QED BY <1>8, <1>11, <2>1, <2>7, <2>8, <2>9, <2>10, OthersNoGap
<1>20. DoneIsListed' /\ KeysLogged'
  BY <1>1, <1>2, <1>8, <1>10, <1>11, QuietStep
<1>21. OthersClean' /\ IdleClean'
  BY <1>1, <1>11, CleanStep
<1> QED BY <1>12, <1>14, <1>15, <1>16, <1>17, <1>19, <1>20, <1>21

\* A listing of the execution that a thread is at: from here on it commits.
LEMMA AddTxKeeps ==
  ASSUME BlockInv, NEW t \in Threads, AddTx(t)
  PROVE  BlockInv'
<1> USE DEF BlockInv
<1> DEFINE W == Width(entries, th[t].i)
           e == <<th[t].i, th[t].j>>
<1>1. th[t].pc = "add" /\ Executes(t) /\ th[t].pc \in Busy
  BY DEF AddTx, Executes, Busy
<1>2. UNCHANGED <<stage, at, entries, offer, objs, next, logged, found_error>>
  BY DEF AddTx, machine
<1>3. PICK pc \in {"commit", "undo"} :
        /\ Goto(t, pc, 1)
        /\ pc = "commit" => txset' = txset \cup {e}
        /\ pc = "undo" => txset' = txset
  BY DEF AddTx
<1>4. pc \in Labels /\ pc \in Busy /\ 1 \in Nat
  BY DEF Labels, Busy
<1>5. /\ th'[t].pc = pc /\ th'[t].k = 1
      /\ th'[t].i = th[t].i /\ th'[t].j = th[t].j /\ th'[t].hi = th[t].hi
      /\ \A u \in Threads : u # t => th'[u] = th[u]
      /\ th' \in [Threads -> ThreadStates]
  BY <1>3, <1>4, GotoStep
<1>6. /\ th[t].i \in Nat /\ th[t].j \in Nat /\ th[t].hi \in Nat /\ W \in Nat
      /\ 1 <= th[t].i /\ th[t].i <= th[t].hi /\ th[t].hi < next
  BY <1>1, ThreadTypes, ThreadEntry DEF Ranges
<1>7. next \in Nat /\ txset \subseteq (1 .. next - 1) \X Nat
  BY DEF Types, IsList
<1>8. txset' \subseteq (1 .. next - 1) \X Nat
  <2>1. e \in (1 .. next - 1) \X Nat
    BY <1>6, <1>7
  <2> QED BY <1>3, <1>7, <2>1
<1>9. Alone(t)
  BY <1>2, <1>5 DEF Alone
<1>10. Types'
  BY <1>2, <1>5, <1>8 DEF Types
<1>11. Ranges' /\ Apart'
  <2>1. Within(t)
    BY <1>1, <1>2, <1>5, <1>6 DEF Within
  <2> QED BY <2>1, <1>9, <1>10, WithinStep
<1>12. Positioned'
  BY <1>2, <1>5, <1>6 DEF Positioned
<1>13. e \notin txset
  <2>1. e[1] = th[t].i /\ e[2] = th[t].j
    OBVIOUS
  <2>2. ~Committing(t, e[1], e[2])
    BY <1>1 DEF Committing
  <2> QED BY <1>1, <1>6, <2>1, <2>2 DEF Lists
<1>14. Lists'
  <2>1. CASE pc = "undo"
    BY <2>1, <1>1, <1>3, <1>5, <1>9, ListsStep
  <2>2. CASE pc = "commit"
    <3> HIDE DEF e
    <3>1. e[1] = th[t].i /\ e[2] = th[t].j
      BY DEF e
    <3>2. ASSUME NEW u \in Threads, Executes(u)', NEW d \in txset',
                 th'[u].i <= d[1], d[1] <= th'[u].hi
          PROVE  d[1] = th'[u].i /\ (d[2] < th'[u].j \/ Committing(u, d[1], d[2])')
      <4>1. CASE u = t /\ d = e
        BY <4>1, <2>2, <3>1, <1>5 DEF Committing
      <4>2. CASE u = t /\ d # e
        <5>1. d \in txset /\ ~Committing(t, d[1], d[2])
          BY <4>2, <2>2, <1>1, <1>3 DEF Committing
        <5> QED BY <5>1, <4>2, <3>2, <1>1, <1>5 DEF Lists
      <4>3. CASE u # t /\ d = e
        <5>1. th'[u] = th[u] /\ Executes(u)
          BY <4>3, <3>2, <1>5 DEF Executes
        <5>2. th[t].hi < th[u].i \/ th[u].hi < th[t].i
          BY <5>1, <4>3, <1>1 DEF Apart
        <5>3. th[u].i \in Nat /\ th[u].hi \in Nat
          BY ThreadTypes
        <5> QED BY <5>1, <5>2, <5>3, <4>3, <3>1, <3>2, <1>6
      <4>4. CASE u # t /\ d # e
        <5>1. d \in txset /\ th'[u] = th[u] /\ Executes(u)
          BY <4>4, <2>2, <3>2, <1>3, <1>5 DEF Executes
        <5> QED BY <5>1, <3>2 DEF Lists, Committing
      <4> QED BY <4>1, <4>2, <4>3, <4>4
    <3>3. \A u \in Threads : th'[u].pc = "commit" => <<th'[u].i, th'[u].j>> \in txset'
      BY <2>2, <1>3, <1>5 DEF Lists, e
    <3> QED BY <3>2, <3>3 DEF Lists
  <2> QED BY <2>1, <2>2
<1>15. HeldBySomeone'
  <2>1. ASSUME NEW key \in Keys, NEW x \in objs'[at][key].held, HolderOf(t, x)
        PROVE  HolderOf(t, x)'
    <3>1. 1 <= x[3]
      BY <2>1 DEF HolderOf
    <3>2. MayHold(t, x[3])'
      BY <3>1, <1>3, <1>5 DEF MayHold
    <3> QED BY <2>1, <3>2, <1>2, <1>4, <1>5 DEF HolderOf
  <2> QED BY <2>1, <1>2, <1>9, HeldKept
<1>16. NoGap'
  <2>1. \A m \in 1 .. W : HeldAt(t, m)
    BY <1>1 DEF NoGap
  <2>2. \A m \in 1 .. W : HeldAt(t, m)'
    BY <2>1, <1>2, <1>5 DEF HeldAt, Name
  <2>3. th'[t].pc \notin {"push", "add"}
    BY <1>5
  <2> QED BY <2>2, <2>3, <1>2, <1>5, <1>9, SameHeldAt, OthersNoGap
<1>17. DoneIsListed' /\ KeysLogged'
  <2>1. CASE pc = "undo"
    BY <2>1, <1>1, <1>2, <1>3, <1>5, <1>9, QuietStep
  <2>2. CASE pc = "commit"
    <3> HIDE DEF e, W
    <3>0. (\A a, b : a = th[t].i /\ b = th[t].j => Committing(t, a, b)') /\ th'[t].k = 1
      BY <1>5, <2>2 DEF Committing
    <3>1. \A u \in Threads : u # t => \A a, b : Committing(u, a, b)' <=> Committing(u, a, b)
      BY <1>5 DEF Committing
    <3>2. ASSUME NEW x \in NameSet
          PROVE  Finished(x)' <=> Finished(x)
      <4>1. x[3] \in Nat
        BY DEF NameSet
      <4>2. CASE <<x[1], x[2]>> = e
        <5>1. x[1] = th[t].i /\ x[2] = th[t].j
          BY <4>2 DEF e
        <5>2. ~Finished(x)
          BY <4>2, <1>13 DEF Finished
        <5>3. ~(1 <= x[3] /\ x[3] < 1)
          BY <4>1
        <5>4. ~Finished(x)'
          BY <5>1, <5>3, <3>0 DEF Finished
        <5> QED BY <5>2, <5>4
      <4>3. CASE <<x[1], x[2]>> # e
        <5>1. ~Committing(t, x[1], x[2])' /\ ~Committing(t, x[1], x[2])
          BY <4>3, <1>1, <1>5 DEF Committing, e
        <5>2. <<x[1], x[2]>> \in txset' <=> <<x[1], x[2]>> \in txset
          BY <4>3, <2>2, <1>3
        <5> QED BY <5>1, <5>2, <3>1, <1>2, <1>5 DEF Finished
      <4> QED BY <4>2, <4>3
    <3>3. DoneIsListed'
      BY <3>2, <1>2 DEF DoneIsListed
    <3>4. ASSUME NEW d \in txset'
          PROVE  \/ \E u \in Threads : Committing(u, d[1], d[2])'
                 \/ Written(entries'[d[1]].tx) \subseteq logged'
      <4>1. CASE d = e
        <5>1. d[1] = th[t].i /\ d[2] = th[t].j
          BY <4>1 DEF e
        <5> QED BY <5>1, <3>0
      <4>2. CASE d # e
        <5>1. d \in txset
          BY <4>2, <2>2, <1>3
        <5>2. ~Committing(t, d[1], d[2])
          BY <1>1 DEF Committing
        <5> QED BY <5>1, <5>2, <3>1, <1>2 DEF KeysLogged
      <4> QED BY <4>1, <4>2
    <3>5. KeysLogged'
      BY <3>4 DEF KeysLogged
    <3> QED BY <3>3, <3>5
  <2> QED BY <2>1, <2>2
<1>18. OthersClean' /\ IdleClean'
  BY <1>1, <1>9, CleanStep
<1> QED BY <1>10, <1>11, <1>12, <1>14, <1>15, <1>16, <1>17, <1>18

\* One delta is committed.
LEMMA CommitOneKeeps ==
  ASSUME BlockInv, NEW t \in Threads, CommitOne(t)
  PROVE  BlockInv'
<1> USE DEF BlockInv
<1> DEFINE name == Named(t)
           key == KeyIn(entries, name)
           W == Width(entries, th[t].i)
<1>0. PICK k : k = th[t].k
  OBVIOUS
<1>1. th[t].pc = "commit" /\ Executes(t) /\ th[t].pc \in Busy
  BY DEF CommitOne, Executes, Busy
<1>2. UNCHANGED <<stage, at, entries, offer, next, txset, logged, found_error>>
  BY DEF CommitOne, machine, block_context
<1>3. k \in Nat /\ W \in Nat /\ 1 <= k /\ k <= W
  <2>1. th[t].k <= W
    BY DEF CommitOne, Width, Tx
  <2> QED BY <2>1, <1>0, <1>1, ThreadTypes, ThreadEntry DEF Positioned
<1>4. /\ name = Name(t, k) /\ name \in NameSet
      /\ name[1] = th[t].i /\ name[2] = th[t].j /\ name[3] = k
      /\ KeyOf(name) = key /\ key \in Keys
      /\ Object(t) = objs[at][key] /\ Object(t) \in DeltaSets
  BY <1>0, <1>1, <1>3, AtDelta
<1>5. Goto(t, "commit", k + 1) /\ k + 1 \in Nat /\ "commit" \in Labels
  BY <1>0, <1>3 DEF CommitOne, Labels
<1>6. /\ th'[t].pc = "commit" /\ th'[t].k = k + 1
      /\ th'[t].i = th[t].i /\ th'[t].j = th[t].j /\ th'[t].hi = th[t].hi
      /\ \A u \in Threads : u # t => th'[u] = th[u]
      /\ th' \in [Threads -> ThreadStates]
  BY <1>5, GotoStep
<1>7. at \in Nodes
  BY DEF Types
<1>8. /\ objs' \in [Nodes -> [Keys -> DeltaSets]]
      /\ \A n \in Nodes : n # at => objs'[n] = objs[n]
      /\ \A p \in Keys : p # key => objs'[at][p] = objs[at][p]
      /\ objs'[at][key].held = objs[at][key].held \ {name}
      /\ objs'[at][key].done = objs[at][key].done \cup {name}
  <2> DEFINE o == objs[at][key]
             r == [o EXCEPT !.held = o.held \ {name}, !.done = o.done \cup {name}]
  <2>1. o \in DeltaSets /\ o.held \in SUBSET NameSet /\ o.done \in SUBSET NameSet
    BY <1>4, <1>7, ObjectTypes
  <2>2. SetObject(key, r)
    BY <1>4 DEF CommitOne
  <2> HIDE DEF o, name, key
  <2>3. r \in DeltaSets /\ r.held = o.held \ {name} /\ r.done = o.done \cup {name}
    BY <2>1, <1>4 DEF DeltaSets
  <2> HIDE DEF r
  <2>4. /\ objs' \in [Nodes -> [Keys -> DeltaSets]]
        /\ objs'[at][key] = r
        /\ \A p \in Keys : p # key => objs'[at][p] = objs[at][p]
        /\ \A m \in Nodes : m # at => objs'[m] = objs[m]
    BY <1>4, <2>2, <2>3, SetObjectStep
  <2> QED BY <2>3, <2>4 DEF o
<1> HIDE DEF name, key, W
<1>9. Alone(t)
  BY <1>2, <1>6, <1>8 DEF Alone
<1>10. Types'
  BY <1>2, <1>6, <1>8 DEF Types
<1>11. th[t].i \in Nat /\ th[t].hi \in Nat /\ th[t].i <= th[t].hi
  BY <1>1, ThreadTypes DEF Ranges
<1>12. Ranges' /\ Apart'
  <2>1. Within(t)
    BY <1>1, <1>2, <1>6, <1>11 DEF Within
  <2> QED BY <2>1, <1>9, <1>10, WithinStep
<1>13. \A u \in Threads : \A a, b : Committing(u, a, b)' <=> Committing(u, a, b)
  BY <1>1, <1>6 DEF Committing
<1>14. \A u \in Threads : /\ Executes(u)' <=> Executes(u)
                          /\ th'[u].i = th[u].i /\ th'[u].j = th[u].j /\ th'[u].hi = th[u].hi
                          /\ th'[u].pc = th[u].pc
  BY <1>1, <1>6 DEF Executes
<1>15. Lists'
  BY <1>2, <1>13, <1>14 DEF Lists
<1>16. Positioned'
  BY <1>2, <1>3, <1>6 DEF Positioned, W
<1>17. \A p \in Keys : name \notin objs'[at][p].held
  <2>1. \A p \in Keys : name \in objs[at][p].held => p = key
    BY DEF HeldBySomeone, key
  <2> QED BY <2>1, <1>8
<1>18. HeldBySomeone'
  <2>1. \A p \in Keys : objs'[at][p].held \subseteq objs[at][p].held
    BY <1>8
  <2>2. ASSUME NEW p \in Keys, NEW x \in objs'[at][p].held, HolderOf(t, x)
        PROVE  HolderOf(t, x)'
    <3>1. x \in NameSet /\ x # name
      BY <2>1, <1>7, <1>17, ObjectTypes
    <3>2. /\ x = <<x[1], x[2], x[3]>> /\ x[3] \in Nat
          /\ name = <<th[t].i, th[t].j, k>>
      BY <3>1, <1>4 DEF NameSet, Name
    <3>3. x[1] = th[t].i /\ x[2] = th[t].j /\ k <= x[3]
      BY <2>2, <1>0, <1>1 DEF HolderOf, MayHold
    <3>4. x[3] # k
      BY <3>1, <3>2, <3>3
    <3>5. k + 1 <= x[3]
      BY <1>3, <3>2, <3>3, <3>4
    <3>6. MayHold(t, x[3])'
      BY <3>5, <1>6 DEF MayHold
    <3> QED BY <2>2, <3>6, <1>1, <1>2, <1>6 DEF HolderOf
  <2> QED BY <2>1, <2>2, <1>9, HeldKept
<1>19. NoGap'
  <2>1. ASSUME NEW u \in Threads, u # t, Executes(u), NEW m \in 1 .. Width(entries, th[u].i)
        PROVE  HeldAt(u, m)' <=> HeldAt(u, m)
    <3>1. th'[u] = th[u] /\ KeyIn(entries, Name(u, m)) \in Keys
      BY <1>6, <2>1, ThreadEntry
    <3>2. Name(u, m) # name
      BY <1>1, <2>1, OtherName DEF name
    <3>3. Name(u, m)' = Name(u, m)
      BY <3>1 DEF Name
    <3> QED BY <1>2, <1>8, <3>1, <3>2, <3>3 DEF HeldAt
  <2>2. ASSUME NEW m \in 1 .. W, k + 1 <= m PROVE HeldAt(t, m)'
    <3>1. KeyIn(entries, Name(t, m)) \in Keys
      BY <1>1, ThreadEntry DEF W
    <3>2. k <= m /\ m # k
      BY <1>3, <2>2
    <3>3. HeldAt(t, m)
      BY <1>0, <1>1, <3>2 DEF NoGap, W
    <3>4. Name(t, m) # name
      BY <1>4, <3>2 DEF Name
    <3>5. Name(t, m)' = Name(t, m)
      BY <1>6 DEF Name
    <3> QED BY <1>2, <1>8, <3>1, <3>3, <3>4, <3>5 DEF HeldAt
  <2>3. Width(entries, th'[t].i) = W
    BY <1>6 DEF W
  <2> QED BY <2>1, <2>2, <2>3, <1>6, <1>9, OthersNoGap
<1>20. DoneIsListed'
  <2>1. <<th[t].i, th[t].j>> \in txset
    BY <1>1 DEF Lists
  <2>2. Committing(t, th[t].i, th[t].j)
    BY <1>1 DEF Committing
  <2>3. ASSUME NEW u \in Threads, Committing(u, th[t].i, th[t].j) PROVE u = t
    <3>1. Executes(u) /\ th[u].i = th[t].i
      BY <2>3 DEF Committing, Executes, Busy
    <3> QED BY <3>1, <1>1, OneThread
  <2>4. ASSUME NEW x \in NameSet
        PROVE  Finished(x)' <=> Finished(x) \/ x = name
    <3>1. /\ x = <<x[1], x[2], x[3]>> /\ x[3] \in Nat
          /\ name = <<th[t].i, th[t].j, k>>
      BY <1>4 DEF NameSet, Name
    <3>2. CASE x[1] = th[t].i /\ x[2] = th[t].j
      <4>1. Finished(x) <=> 1 <= x[3] /\ x[3] <= W /\ x[3] < k
        BY <3>2, <2>1, <2>2, <2>3, <1>0 DEF Finished, W
      <4>2. Finished(x)' <=> 1 <= x[3] /\ x[3] <= W /\ x[3] < k + 1
        BY <3>2, <2>1, <2>2, <2>3, <1>2, <1>6, <1>13 DEF Finished, W
      <4>3. x = name <=> x[3] = k
        BY <3>1, <3>2
      <4> QED BY <4>1, <4>2, <4>3, <3>1, <1>3
    <3>3. CASE ~(x[1] = th[t].i /\ x[2] = th[t].j)
      <4>1. ~Committing(t, x[1], x[2]) /\ x # name
        BY <3>1, <3>3, <1>4 DEF Committing
      <4> QED BY <4>1, <1>2, <1>6, <1>13 DEF Finished
    <3> QED BY <3>2, <3>3
  <2>5. ASSUME NEW p \in Keys, NEW x \in NameSet
        PROVE  x \in objs'[at][p].done <=> Finished(x)' /\ KeyIn(entries, x) = p
    BY <2>4, <1>8 DEF DoneIsListed, key
  <2> QED BY <2>5, <1>2 DEF DoneIsListed
<1>21. KeysLogged'
  BY <1>2, <1>13 DEF KeysLogged
<1>22. OthersClean' /\ IdleClean'
  BY <1>1, <1>9, CleanStep
<1> QED BY <1>10, <1>12, <1>15, <1>16, <1>18, <1>19, <1>20, <1>21, <1>22

\* The keys are logged and the execution is over.
LEMMA LogKeysKeeps ==
  ASSUME BlockInv, NEW t \in Threads, LogKeys(t)
  PROVE  BlockInv'
<1> USE DEF BlockInv
<1> DEFINE W == Width(entries, th[t].i)
<1>1. th[t].pc = "commit" /\ Executes(t) /\ th[t].pc \in Busy
  BY DEF LogKeys, Executes, Busy
<1>2. UNCHANGED <<stage, at, entries, offer, objs, next, txset, found_error>>
  BY DEF LogKeys, machine
<1>3. th[t].k \in Nat /\ W \in Nat /\ th[t].k > W
  <2>1. th[t].k > W
    BY DEF LogKeys, Width, Tx
  <2> QED BY <2>1, <1>1, ThreadTypes, ThreadEntry
<1>4. logged \subseteq logged' /\ Written(entries[th[t].i].tx) \subseteq logged'
  BY DEF LogKeys, Tx, Touched
<1>5. /\ th'[t].pc \notin Busy
      /\ Executes(t)' =>
           /\ th'[t].hi = th[t].hi
           /\ \/ th'[t].i = th[t].i /\ th'[t].j = th[t].j + 1
              \/ th'[t].i = th[t].i + 1 /\ th'[t].i <= th[t].hi
      /\ \A u \in Threads : u # t => th'[u] = th[u]
      /\ th' \in [Threads -> ThreadStates]
  <2>1. Return(t, TRUE)
    BY DEF LogKeys
  <2> QED BY <2>1, <1>1, ReturnStep
<1> HIDE DEF W
<1>6. Alone(t)
  BY <1>2, <1>5 DEF Alone
<1>7. Types'
  BY <1>2, <1>5 DEF Types
<1>8. th[t].i \in Nat /\ th[t].hi \in Nat /\ th[t].i <= th[t].hi
  BY <1>1, ThreadTypes DEF Ranges
<1>9. Ranges' /\ Apart'
  <2>1. Within(t)
    BY <1>1, <1>2, <1>5, <1>8 DEF Within
  <2> QED BY <2>1, <1>6, <1>7, WithinStep
<1>10. th'[t].pc \notin {"push", "add", "commit", "undo"}
  BY <1>5 DEF Busy
<1>11. Lists'
  BY <1>1, <1>2, <1>5, <1>6, <1>10, ListsStep
<1>12. Positioned'
  BY <1>2, <1>5, <1>10 DEF Positioned
<1>13. HeldBySomeone'
  <2>1. ASSUME NEW key \in Keys, NEW x \in objs'[at][key].held, HolderOf(t, x)
        PROVE  FALSE
    <3>1. x \in NameSet
      BY <1>2, ObjectTypes DEF Types
    <3>2. x[3] \in Nat
      BY <3>1 DEF NameSet
    <3>3. x[3] <= W /\ th[t].k <= x[3]
      BY <2>1, <1>1 DEF HolderOf, MayHold, W
    <3> QED BY <3>2, <3>3, <1>3
  <2> QED BY <2>1, <1>2, <1>6, HeldKept
<1>14. NoGap'
  BY <1>2, <1>6, <1>10, SameHeldAt, OthersNoGap
<1>15. \A u \in Threads : u # t => \A a, b : Committing(u, a, b)' <=> Committing(u, a, b)
  BY <1>5 DEF Committing
<1>16. \A a, b : ~Committing(t, a, b)'
  BY <1>10 DEF Committing
<1>17. DoneIsListed'
  <2>1. ASSUME NEW x \in NameSet
        PROVE  Finished(x)' <=> Finished(x)
    <3>1. x[3] \in Nat
      BY DEF NameSet
    <3>2. Committing(t, x[1], x[2]) /\ x[3] <= Width(entries, x[1]) => x[3] < th[t].k
      BY <3>1, <1>3 DEF Committing, W
    <3> QED BY <3>2, <1>2, <1>5, <1>15, <1>16 DEF Finished
  <2> QED BY <2>1, <1>2 DEF DoneIsListed
<1>18. KeysLogged'
  <2> SUFFICES ASSUME NEW e \in txset
               PROVE  \/ \E u \in Threads : Committing(u, e[1], e[2])'
                      \/ Written(entries[e[1]].tx) \subseteq logged'
    BY <1>2 DEF KeysLogged
  <2>1. CASE Committing(t, e[1], e[2])
    BY <2>1, <1>4 DEF Committing
  <2>2. CASE ~Committing(t, e[1], e[2])
    BY <2>2, <1>4, <1>15 DEF KeysLogged
  <2> QED BY <2>1, <2>2
<1>19. OthersClean' /\ IdleClean'
  BY <1>1, <1>6, CleanStep
<1> QED BY <1>7, <1>9, <1>11, <1>12, <1>13, <1>14, <1>17, <1>18, <1>19

\* One reservation is given back.
LEMMA UndoOneKeeps ==
  ASSUME BlockInv, NEW t \in Threads, UndoOne(t)
  PROVE  BlockInv'
<1> USE DEF BlockInv
<1> DEFINE name == Named(t)
           key == KeyIn(entries, name)
           W == Width(entries, th[t].i)
<1>0. PICK k : k = th[t].k
  OBVIOUS
<1>1. th[t].pc = "undo" /\ Executes(t) /\ th[t].pc \in Busy
  BY DEF UndoOne, Executes, Busy
<1>2. UNCHANGED <<stage, at, entries, offer, next, txset, logged, found_error>>
  BY DEF UndoOne, machine, block_context
<1>3. k \in Nat /\ W \in Nat /\ 1 <= k /\ k <= W
  <2>1. th[t].k <= W
    BY DEF UndoOne, Width, Tx
  <2> QED BY <2>1, <1>0, <1>1, ThreadTypes, ThreadEntry DEF Positioned
<1>4. /\ name = Name(t, k) /\ name \in NameSet
      /\ name[1] = th[t].i /\ name[2] = th[t].j /\ name[3] = k
      /\ KeyOf(name) = key /\ key \in Keys
      /\ Object(t) = objs[at][key] /\ Object(t) \in DeltaSets
  BY <1>0, <1>1, <1>3, AtDelta
<1>5. Goto(t, "undo", k + 1) /\ k + 1 \in Nat /\ "undo" \in Labels
  BY <1>0, <1>3 DEF UndoOne, Labels
<1>6. /\ th'[t].pc = "undo" /\ th'[t].k = k + 1
      /\ th'[t].i = th[t].i /\ th'[t].j = th[t].j /\ th'[t].hi = th[t].hi
      /\ \A u \in Threads : u # t => th'[u] = th[u]
      /\ th' \in [Threads -> ThreadStates]
  BY <1>5, GotoStep
<1>7. at \in Nodes
  BY DEF Types
<1>8. /\ objs' \in [Nodes -> [Keys -> DeltaSets]]
      /\ \A n \in Nodes : n # at => objs'[n] = objs[n]
      /\ \A p \in Keys : p # key => objs'[at][p] = objs[at][p]
      /\ objs'[at][key].held = objs[at][key].held \ {name}
      /\ objs'[at][key].done = objs[at][key].done
  <2> DEFINE o == objs[at][key]
             r == [o EXCEPT !.held = o.held \ {name}]
  <2>1. o \in DeltaSets /\ o.held \in SUBSET NameSet /\ o.done \in SUBSET NameSet
    BY <1>4, <1>7, ObjectTypes
  <2>2. SetObject(key, r)
    BY <1>4 DEF UndoOne
  <2> HIDE DEF o, name, key
  <2>3. r \in DeltaSets /\ r.held = o.held \ {name} /\ r.done = o.done
    BY <2>1, <1>4 DEF DeltaSets
  <2> HIDE DEF r
  <2>4. /\ objs' \in [Nodes -> [Keys -> DeltaSets]]
        /\ objs'[at][key] = r
        /\ \A p \in Keys : p # key => objs'[at][p] = objs[at][p]
        /\ \A m \in Nodes : m # at => objs'[m] = objs[m]
    BY <1>4, <2>2, <2>3, SetObjectStep
  <2> QED BY <2>3, <2>4 DEF o
<1> HIDE DEF name, key, W
<1>9. Alone(t)
  BY <1>2, <1>6, <1>8 DEF Alone
<1>10. Types'
  BY <1>2, <1>6, <1>8 DEF Types
<1>11. th[t].i \in Nat /\ th[t].hi \in Nat /\ th[t].i <= th[t].hi
  BY <1>1, ThreadTypes DEF Ranges
<1>12. Ranges' /\ Apart'
  <2>1. Within(t)
    BY <1>1, <1>2, <1>6, <1>11 DEF Within
  <2> QED BY <2>1, <1>9, <1>10, WithinStep
<1>13. Lists'
  BY <1>1, <1>2, <1>6, <1>9, ListsStep
<1>14. Positioned'
  BY <1>2, <1>3, <1>6 DEF Positioned, W
<1>15. \A p \in Keys : name \notin objs'[at][p].held
  <2>1. \A p \in Keys : name \in objs[at][p].held => p = key
    BY DEF HeldBySomeone, key
  <2> QED BY <2>1, <1>8
<1>16. HeldBySomeone'
  <2>1. \A p \in Keys : objs'[at][p].held \subseteq objs[at][p].held
    BY <1>8
  <2>2. ASSUME NEW p \in Keys, NEW x \in objs'[at][p].held, HolderOf(t, x)
        PROVE  HolderOf(t, x)'
    <3>1. x \in NameSet /\ x # name
      BY <2>1, <1>7, <1>15, ObjectTypes
    <3>2. /\ x = <<x[1], x[2], x[3]>> /\ x[3] \in Nat
          /\ name = <<th[t].i, th[t].j, k>>
      BY <3>1, <1>4 DEF NameSet, Name
    <3>3. x[1] = th[t].i /\ x[2] = th[t].j /\ k <= x[3]
      BY <2>2, <1>0, <1>1 DEF HolderOf, MayHold
    <3>4. x[3] # k
      BY <3>1, <3>2, <3>3
    <3>5. k + 1 <= x[3]
      BY <1>3, <3>2, <3>3, <3>4
    <3>6. MayHold(t, x[3])'
      BY <3>5, <1>6 DEF MayHold
    <3> QED BY <2>2, <3>6, <1>1, <1>2, <1>6 DEF HolderOf
  <2> QED BY <2>1, <2>2, <1>9, HeldKept
<1>17. NoGap'
  <2>1. ASSUME NEW u \in Threads, u # t, Executes(u), NEW m \in 1 .. Width(entries, th[u].i)
        PROVE  HeldAt(u, m)' <=> HeldAt(u, m)
    <3>1. th'[u] = th[u] /\ KeyIn(entries, Name(u, m)) \in Keys
      BY <1>6, <2>1, ThreadEntry
    <3>2. Name(u, m) # name
      BY <1>1, <2>1, OtherName DEF name
    <3>3. Name(u, m)' = Name(u, m)
      BY <3>1 DEF Name
    <3> QED BY <1>2, <1>8, <3>1, <3>2, <3>3 DEF HeldAt
  <2>2. ASSUME NEW m \in 1 .. W PROVE HeldAt(t, m)' <=> HeldAt(t, m) /\ m # k
    <3>1. KeyIn(entries, Name(t, m)) \in Keys
      BY <1>1, ThreadEntry DEF W
    <3>2. Name(t, m) = name <=> m = k
      BY <1>4 DEF Name
    <3>3. Name(t, m)' = Name(t, m)
      BY <1>6 DEF Name
    <3>4. Name(t, m) = name => KeyIn(entries, Name(t, m)) = key
      BY DEF key
    <3> QED BY <1>2, <1>8, <3>1, <3>2, <3>3, <3>4 DEF HeldAt
  <2>3. \A m, l \in 1 .. W : k <= l /\ l <= m /\ HeldAt(t, m) => HeldAt(t, l)
    BY <1>0, <1>1 DEF NoGap, W
  <2>4. \A m, l \in 1 .. W : k + 1 <= l /\ l <= m /\ HeldAt(t, m)' => HeldAt(t, l)'
    <3> SUFFICES ASSUME NEW m \in 1 .. W, NEW l \in 1 .. W, k + 1 <= l, l <= m, HeldAt(t, m)'
                 PROVE  HeldAt(t, l)'
      OBVIOUS
    <3>1. k <= l /\ l # k
      BY <1>3
    <3> QED BY <2>2, <2>3, <3>1
  <2>5. Width(entries, th'[t].i) = W
    BY <1>6 DEF W
  <2> QED BY <2>1, <2>4, <2>5, <1>6, <1>9, OthersNoGap
<1>18. DoneIsListed' /\ KeysLogged'
  <2>1. \A p \in Keys : objs'[at][p].done = objs[at][p].done
    BY <1>8
  <2> QED BY <2>1, <1>1, <1>2, <1>6, <1>9, QuietStep
<1>19. OthersClean' /\ IdleClean'
  BY <1>1, <1>9, CleanStep
<1> QED BY <1>10, <1>12, <1>13, <1>14, <1>16, <1>17, <1>18, <1>19

\* No reservation is left, and execute returns.
LEMMA UndoneKeeps ==
  ASSUME BlockInv, NEW t \in Threads, Undone(t)
  PROVE  BlockInv'
<1> USE DEF BlockInv
<1> DEFINE W == Width(entries, th[t].i)
<1>0. PICK k : k = th[t].k
  OBVIOUS
<1>1. th[t].pc = "undo" /\ Executes(t) /\ th[t].pc \in Busy
  BY DEF Undone, Executes, Busy
<1>2. UNCHANGED <<stage, at, entries, offer, objs, next, txset, logged, found_error>>
  BY DEF Undone, machine, block_context
<1>3. k \in Nat /\ W \in Nat /\ 1 <= k
  BY <1>0, <1>1, ThreadTypes, ThreadEntry DEF Positioned
<1>4. \A m \in 1 .. W : k <= m => ~HeldAt(t, m)
  <2>1. k > W \/ Named(t) \notin StillHeld(t)
    BY <1>0 DEF Undone, Width, Tx
  <2>2. CASE k > W
    BY <2>2, <1>3
  <2>3. CASE k <= W /\ Named(t) \notin StillHeld(t)
    <3>1. Named(t) = Name(t, k) /\ KeyOf(Named(t)) = KeyIn(entries, Named(t))
      BY <1>0, KeyOfIsKeyIn DEF Named, Name
    <3>2. k \in 1 .. W
      BY <1>3, <2>3
    <3>3. k \in 1 .. Len(Writes(Tx(t)))
      BY <3>2 DEF Width, Tx
    <3>4. Named(t) \in Pushed(t)
      BY <3>3, <1>0 DEF Named, Pushed
    <3>5. ~HeldAt(t, k)
      BY <2>3, <3>1, <3>4 DEF StillHeld, HeldAt
    <3>6. \A m \in 1 .. W : k <= k /\ k <= m /\ HeldAt(t, m) => HeldAt(t, k)
      BY <1>0, <1>1, <3>2 DEF NoGap
    <3> QED BY <3>5, <3>6, <1>3
  <2> QED BY <2>1, <2>2, <2>3, <1>3
<1>5. /\ th'[t].pc \notin Busy
      /\ Executes(t)' =>
           /\ th'[t].hi = th[t].hi
           /\ th'[t].i = th[t].i + 1 /\ th'[t].i <= th[t].hi
      /\ \A u \in Threads : u # t => th'[u] = th[u]
      /\ th' \in [Threads -> ThreadStates]
  <2>1. Return(t, FALSE)
    BY DEF Undone
  <2> QED BY <2>1, <1>1, ReturnStep
<1> HIDE DEF W
<1>6. Alone(t)
  BY <1>2, <1>5 DEF Alone
<1>7. Types'
  BY <1>2, <1>5 DEF Types
<1>8. th[t].i \in Nat /\ th[t].hi \in Nat /\ th[t].i <= th[t].hi
  BY <1>1, ThreadTypes DEF Ranges
<1>9. Ranges' /\ Apart'
  <2>1. Within(t)
    BY <1>1, <1>2, <1>5, <1>8 DEF Within
  <2> QED BY <2>1, <1>6, <1>7, WithinStep
<1>10. th'[t].pc \notin {"push", "add", "commit", "undo"}
  BY <1>5 DEF Busy
<1>11. Lists'
  BY <1>1, <1>2, <1>5, <1>6, <1>10, ListsStep
<1>12. Positioned'
  BY <1>2, <1>5, <1>10 DEF Positioned
<1>13. HeldBySomeone'
  <2>1. ASSUME NEW key \in Keys, NEW x \in objs'[at][key].held, HolderOf(t, x)
        PROVE  FALSE
    <3>1. x \in objs[at][key].held /\ x \in NameSet
      BY <1>2, ObjectTypes DEF Types
    <3>2. x = <<x[1], x[2], x[3]>> /\ x[3] \in Nat
      BY <3>1 DEF NameSet
    <3>3. x[1] = th[t].i /\ x[2] = th[t].j /\ 1 <= x[3] /\ x[3] <= W /\ k <= x[3]
      BY <2>1, <1>0, <1>1 DEF HolderOf, MayHold, W
    <3>4. x = Name(t, x[3])
      BY <3>2, <3>3 DEF Name
    <3>5. HeldAt(t, x[3])
      BY <3>1, <3>4 DEF HeldAt, HeldBySomeone
    <3>6. x[3] \in 1 .. W
      BY <3>2, <3>3, <1>3
    <3> QED BY <3>3, <3>5, <3>6, <1>4
  <2> QED BY <2>1, <1>2, <1>6, HeldKept
<1>14. NoGap'
  BY <1>2, <1>6, <1>10, SameHeldAt, OthersNoGap
<1>15. DoneIsListed' /\ KeysLogged'
  BY <1>1, <1>2, <1>6, <1>10, QuietStep
<1>16. OthersClean' /\ IdleClean'
  BY <1>1, <1>6, CleanStep
<1> QED BY <1>7, <1>9, <1>11, <1>12, <1>13, <1>14, <1>15, <1>16

-----------------------------------------------------------------------------
(* Work is handed out, and errors are gathered                             *)

\* Entries are handed out: the threads that execute have earlier ones.
LEMMA HandedOut ==
  ASSUME BlockInv, NEW t \in Threads, ~Executes(t), NEW hi \in next .. Len(entries), next' = hi + 1,
         stage # "idle", UNCHANGED <<stage, at, entries, offer, objs, txset, logged, found_error>>,
         \/ UNCHANGED th
         \/ Become(t, [Resting EXCEPT !.pc = "run", !.i = next, !.j = 1, !.hi = hi])
  PROVE  BlockInv'
<1> USE DEF BlockInv
<1> DEFINE s == [Resting EXCEPT !.pc = "run", !.i = next, !.j = 1, !.hi = hi]
<1>1. next \in Nat /\ Len(entries) \in Nat /\ next >= 1 /\ hi \in Nat /\ next <= hi /\ hi <= Len(entries)
  BY DEF Types, IsList
<1>2. /\ s \in ThreadStates /\ s.pc = "run" /\ s.i = next /\ s.hi = hi
  BY <1>1 DEF Resting, ThreadStates, Labels
<1>3. th' = th \/ Become(t, s)
  OBVIOUS
<1> HIDE DEF s
<1>4. /\ th' \in [Threads -> ThreadStates]
      /\ \A u \in Threads : u # t => th'[u] = th[u]
      /\ th'[t] = th[t] \/ th'[t] = s
  BY <1>2, <1>3, BecomeStep DEF Types
<1>5. Alone(t)
  BY <1>4 DEF Alone
<1>6. txset \subseteq (1 .. next - 1) \X Nat
  BY DEF Types
<1>7. Types'
  <2>1. txset' \subseteq (1 .. next' - 1) \X Nat
    BY <1>1, <1>6
  <2>2. next' \in 1 .. Len(entries') + 1
    BY <1>1
  <2> QED BY <1>4, <2>1, <2>2 DEF Types
<1>8. th[t].pc \notin Busy /\ th'[t].pc \notin {"push", "add", "commit", "undo"} /\ th'[t].pc \notin Busy
  BY <1>2, <1>4 DEF Executes, Busy
<1>9. Executes(t)' => th'[t].i = next /\ th'[t].hi = hi
  BY <1>2, <1>4 DEF Executes
<1>10. \A u \in Threads : u # t =>
         /\ th'[u] = th[u] /\ (Executes(u)' <=> Executes(u))
         /\ th[u].i \in Nat /\ th[u].hi \in Nat
         /\ \A a, b : Committing(u, a, b)' <=> Committing(u, a, b)
  BY <1>4, ThreadTypes DEF Executes, Committing
<1>11. Ranges'
  BY <1>1, <1>9, <1>10 DEF Ranges
<1>12. Apart'
  <2>1. \A u \in Threads : u # t /\ Executes(u) => th[u].hi < next
    BY DEF Ranges
  <2>2. ASSUME NEW u \in Threads, NEW v \in Threads, u # v, Executes(u)', Executes(v)'
        PROVE  th'[u].hi < th'[v].i \/ th'[v].hi < th'[u].i
    <3>1. CASE u = t
      BY <2>1, <2>2, <3>1, <1>9, <1>10
    <3>2. CASE v = t
      BY <2>1, <2>2, <3>2, <1>9, <1>10
    <3>3. CASE u # t /\ v # t
      BY <2>2, <3>3, <1>10 DEF Apart
    <3> QED BY <3>1, <3>2, <3>3
  <2> QED BY <2>2 DEF Apart
<1>13. Positioned'
  BY <1>8, <1>10 DEF Positioned
<1>14. Lists'
  <2>1. \A e \in txset : e[1] \in Nat /\ e[1] < next
    BY <1>1, <1>6
  <2>2. ASSUME NEW u \in Threads, Executes(u)', NEW e \in txset,
               th'[u].i <= e[1], e[1] <= th'[u].hi
        PROVE  e[1] = th'[u].i /\ (e[2] < th'[u].j \/ Committing(u, e[1], e[2])')
    <3>1. u # t
      BY <2>1, <2>2, <1>1, <1>9
    <3> QED BY <2>2, <3>1, <1>10 DEF Lists
  <2>3. \A u \in Threads : th'[u].pc = "commit" => <<th'[u].i, th'[u].j>> \in txset
    BY <1>8, <1>10 DEF Lists
  <2> QED BY <2>2, <2>3 DEF Lists
<1>15. HeldBySomeone'
  <2>1. \A x : ~HolderOf(t, x)
    BY <1>8 DEF HolderOf
  <2> QED BY <2>1, <1>5, HeldKept
<1>16. NoGap'
  BY <1>5, <1>8, SameHeldAt, OthersNoGap
<1>17. DoneIsListed' /\ KeysLogged'
  <2>1. th[t].pc # "commit"
    BY <1>8 DEF Busy
  <2> QED BY <2>1, <1>5, <1>8, QuietStep
<1>18. OthersClean' /\ IdleClean'
  BY <1>5, CleanStep
<1> QED BY <1>7, <1>11, <1>12, <1>13, <1>14, <1>15, <1>16, <1>17, <1>18

\* A step of a thread that executes nothing, before and after.
LEMMA IdleStep ==
  ASSUME BlockInv, NEW t \in Threads, NEW s \in ThreadStates, Become(t, s),
         th[t].pc \in {"read", "store"}, s.pc \in {"store", "idle"}, found_error' \in BOOLEAN,
         UNCHANGED <<stage, at, entries, offer, objs, next, txset, logged>>
  PROVE  BlockInv'
<1> USE DEF BlockInv
<1>1. /\ th'[t] = s
      /\ \A u \in Threads : u # t => th'[u] = th[u]
      /\ th' \in [Threads -> ThreadStates]
  BY BecomeStep
<1>2. Alone(t)
  BY <1>1 DEF Alone
<1>3. Types'
  BY <1>1 DEF Types
<1>4. /\ th[t].pc \notin {"push", "add", "commit", "undo", "run", "idle"}
      /\ th'[t].pc \notin {"push", "add", "commit", "undo", "run"}
      /\ th[t].pc \notin Busy /\ th'[t].pc \notin Busy
  BY <1>1 DEF Busy
<1>5. \A u \in Threads : /\ Executes(u)' => u # t
                         /\ u # t => th'[u] = th[u] /\ (Executes(u)' <=> Executes(u))
                         /\ \A a, b : Committing(u, a, b)' <=> Committing(u, a, b)
  BY <1>1, <1>4 DEF Executes, Committing
<1>6. Ranges' /\ Apart'
  BY <1>5 DEF Ranges, Apart
<1>7. Positioned'
  BY <1>4, <1>5 DEF Positioned
<1>8. Lists'
  BY <1>4, <1>5 DEF Lists
<1>9. HeldBySomeone'
  <2>1. \A x : ~HolderOf(t, x)
    BY <1>4 DEF HolderOf
  <2> QED BY <2>1, <1>2, HeldKept
<1>10. NoGap'
  BY <1>2, <1>4, SameHeldAt, OthersNoGap
<1>11. DoneIsListed' /\ KeysLogged'
  BY <1>2, <1>4, QuietStep
<1>12. OthersClean' /\ IdleClean'
  BY <1>2, <1>4, CleanStep
<1> QED BY <1>3, <1>6, <1>7, <1>8, <1>9, <1>10, <1>11, <1>12

\* A worker gets the next transaction of the pool.
LEMMA FetchKeeps ==
  ASSUME BlockInv, NEW t \in Threads, Fetch(t)
  PROVE  BlockInv'
<1>1. next \in 1 .. Len(entries) + 1 /\ Len(entries) \in Nat
  BY DEF BlockInv, Types, IsList
<1>2. next \in next .. Len(entries) /\ next' = next + 1 /\ stage # "idle" /\ ~Executes(t)
  BY <1>1 DEF Fetch, Executes, Busy
<1>3. UNCHANGED <<stage, at, entries, offer, objs, txset, logged, found_error>>
  BY DEF Fetch, machine, block_context
<1>4. Become(t, [Resting EXCEPT !.pc = "run", !.i = next, !.j = 1, !.hi = next])
  BY DEF Fetch
<1>5. PICK hi \in next .. Len(entries) : hi = next
  BY <1>2
<1>6. next' = hi + 1 /\ Become(t, [Resting EXCEPT !.pc = "run", !.i = next, !.j = 1, !.hi = hi])
  BY <1>2, <1>4, <1>5
<1> QED BY <1>2, <1>3, <1>5, <1>6, HandedOut

\* A task gets a range of the block, or skips it.
LEMMA TakeRangeKeeps ==
  ASSUME BlockInv, NEW t \in Threads, TakeRange(t)
  PROVE  BlockInv'
<1>1. stage # "idle" /\ ~Executes(t)
  BY DEF TakeRange, Executes, Busy
<1>2. UNCHANGED <<stage, at, entries, offer, objs, txset, logged, found_error>>
  BY DEF TakeRange, machine, block_context
<1>3. PICK hi \in next .. Len(entries) :
        /\ next' = hi + 1
        /\ \/ UNCHANGED th
           \/ Become(t, [Resting EXCEPT !.pc = "run", !.i = next, !.j = 1, !.hi = hi])
  BY DEF TakeRange
<1> QED BY <1>1, <1>2, <1>3, HandedOut

\* A task loads found_error,
LEMMA ReadErrorKeeps ==
  ASSUME BlockInv, NEW t \in Threads, ReadError(t)
  PROVE  BlockInv'
<1> DEFINE e == found_error \/ th[t].err
           s == [Resting EXCEPT !.pc = "store", !.err = e]
<1>1. found_error \in BOOLEAN
  BY DEF BlockInv, Types
<1>2. th[t].err \in BOOLEAN
  BY ThreadTypes DEF BlockInv
<1>3. e \in BOOLEAN
  BY <1>1, <1>2
<1>4. Become(t, s) /\ th[t].pc \in {"read", "store"} /\ found_error' = found_error
  BY DEF ReadError
<1> HIDE DEF e
<1>5. s \in ThreadStates /\ s.pc \in {"store", "idle"}
  BY <1>3 DEF Resting, ThreadStates, Labels
<1>6. UNCHANGED <<stage, at, entries, offer, objs, next, txset, logged>>
  BY DEF ReadError, machine, block_context
<1> HIDE DEF s
<1> QED BY <1>1, <1>4, <1>5, <1>6, IdleStep

\* and stores what it makes of it.
LEMMA StoreErrorKeeps ==
  ASSUME BlockInv, NEW t \in Threads, StoreError(t)
  PROVE  BlockInv'
<1>1. th[t].err \in BOOLEAN
  BY ThreadTypes DEF BlockInv
<1>2. Become(t, Resting) /\ th[t].pc \in {"read", "store"} /\ found_error' \in BOOLEAN
  BY <1>1 DEF StoreError
<1>3. Resting \in ThreadStates /\ Resting.pc \in {"store", "idle"}
  BY DEF Resting, ThreadStates, Labels
<1>4. UNCHANGED <<stage, at, entries, offer, objs, next, txset, logged>>
  BY DEF StoreError, machine, block_context
<1> QED BY <1>2, <1>3, <1>4, IdleStep

\* Every step of a thread.
LEMMA WorkKeeps ==
  ASSUME BlockInv, NEW t \in Threads, Work(t)
  PROVE  BlockInv'
BY RunKeeps, PushKeeps, AddTxKeeps, CommitOneKeeps, LogKeysKeeps, UndoOneKeeps, UndoneKeeps,
   FetchKeeps, TakeRangeKeeps, ReadErrorKeeps, StoreErrorKeeps
DEF Work, Execute

-----------------------------------------------------------------------------
(* A block begins and ends                                                 *)

\* While every thread is idle and no delta is on any object most of the
\* invariant is about nothing.
AtRest ==
    /\ \A t \in Threads : th[t].pc = "idle"
    /\ \A n \in Nodes : Empty(n)
    /\ txset = {}

\* The invariant, where no thread is at work and nothing is on the objects.
LEMMA RestIsEnough == Types /\ AtRest => BlockInv
<1> SUFFICES ASSUME Types, AtRest PROVE BlockInv
  OBVIOUS
<1>1. \A t \in Threads : th[t].pc = "idle" /\ th[t].pc \notin Busy /\ ~Executes(t)
  BY DEF AtRest, Executes, Busy
<1>2. Ranges /\ Positioned /\ Apart
  BY <1>1 DEF Ranges, Positioned, Apart
<1>3. Lists /\ NoGap
  BY <1>1 DEF Lists, NoGap
<1>4. txset = {} /\ at \in Nodes /\ \A n \in Nodes : Empty(n)
  BY DEF AtRest, Types
<1>5. HeldBySomeone
  BY <1>4 DEF HeldBySomeone, Empty
<1>6. DoneIsListed /\ KeysLogged
  BY <1>4 DEF DoneIsListed, KeysLogged, Finished, Empty
<1>7. OthersClean /\ IdleClean
  BY <1>1, <1>4 DEF OthersClean, IdleClean
<1> QED BY <1>2, <1>3, <1>5, <1>6, <1>7 DEF BlockInv

\* The first state is such a one.
LEMMA InitRests ==
  ASSUME Init
  PROVE  BlockInv
<1>1. Resting \in ThreadStates /\ Resting.pc = "idle"
  BY DEF Resting, ThreadStates, Labels
<1>2. Clean \in DeltaSets /\ Clean.held = {} /\ Clean.done = {}
  BY DEF Clean, DeltaSets
<1>3. IsList(<<>>) /\ Len(<<>>) = 0
  BY DEF IsList
<1>4. offer.block = <<>> /\ entries = <<>> /\ next = 1 /\ txset = {} /\ found_error = FALSE /\ at \in Nodes
  BY DEF Init, NoOffer
<1>5. th = [t \in Threads |-> Resting] /\ objs = [n \in Nodes |-> [key \in Keys |-> Clean]]
  BY DEF Init
<1>6. Types
  <2>1. objs \in [Nodes -> [Keys -> DeltaSets]] /\ th \in [Threads -> ThreadStates]
    BY <1>1, <1>2, <1>5
  <2>2. next \in 1 .. Len(entries) + 1
    BY <1>3, <1>4
  <2> QED BY <1>3, <1>4, <2>1, <2>2 DEF Types
<1>7. AtRest
  BY <1>1, <1>2, <1>4, <1>5 DEF AtRest, Empty
<1> QED BY <1>6, <1>7, RestIsEnough

\* A block begins with nothing on the objects.
LEMMA StartKeeps ==
  ASSUME BlockInv, NEW n \in Nodes, NEW s, NEW list, StartBlock(n, s, list), IsList(list)
  PROVE  BlockInv'
<1>1. stage = "idle" /\ at' = n /\ entries' = list /\ next' = 1
  BY DEF StartBlock
<1>2. UNCHANGED <<objs, th, txset, found_error, offer>>
  BY DEF StartBlock, block_context
<1>3. Types'
  <2>1. next' \in 1 .. Len(entries') + 1 /\ IsList(entries')
    BY <1>1 DEF IsList
  <2>2. txset' = {}
    BY <1>1, <1>2 DEF BlockInv, IdleClean
  <2> QED BY <1>1, <1>2, <2>1, <2>2 DEF Types, BlockInv
<1>4. AtRest
  BY <1>1 DEF BlockInv, IdleClean, OthersClean, AtRest
<1>5. AtRest'
  BY <1>2, <1>4 DEF AtRest, Empty
<1>6. Types' /\ AtRest' => BlockInv'
  BY RestIsEnough, PTL
<1> QED BY <1>3, <1>5, <1>6

\* Every rank in a finite set of numbers is some element's.
LEMMA RankExists ==
  ASSUME NEW L, L \subseteq Nat, IsFiniteSet(L), NEW r \in 0 .. Cardinality(L) - 1
  PROVE  \E x \in L : Cardinality({y \in L : y < x}) = r
<1> DEFINE Below(x) == {y \in L : y < x}
           N == Cardinality(L)
           f == [x \in L |-> Cardinality(Below(x))]
<1>1. N \in Nat
  BY FS_CardinalityType
<1>2. \A x \in L : IsFiniteSet(Below(x)) /\ Cardinality(Below(x)) \in Nat
  <2> TAKE x \in L
  <2>1. Below(x) \in SUBSET L
    OBVIOUS
  <2>2. IsFiniteSet(Below(x))
    BY <2>1, FS_Subset
  <2> QED BY <2>2, FS_CardinalityType
<1>3. \A x \in L : Cardinality(Below(x)) < N
  <2> TAKE x \in L
  <2>1. Below(x) \in SUBSET L /\ Below(x) # L
    OBVIOUS
  <2>2. Cardinality(Below(x)) <= N /\ Cardinality(Below(x)) # N
    BY <2>1, FS_Subset
  <2> QED BY <2>2, <1>1, <1>2
<1>4. ASSUME NEW x \in L, NEW z \in L, x < z
      PROVE  Cardinality(Below(x)) < Cardinality(Below(z))
  <2>1. x \in Nat /\ z \in Nat /\ \A y \in L : y \in Nat
    OBVIOUS
  <2>2. x \in Below(z) /\ x \notin Below(x)
    BY <1>4, <2>1
  <2>3. \A y \in L : y < x => y < z
    BY <1>4, <2>1
  <2>4. Below(x) \in SUBSET Below(z) /\ Below(x) # Below(z)
    BY <2>2, <2>3
  <2>5. /\ Cardinality(Below(x)) <= Cardinality(Below(z))
        /\ Cardinality(Below(x)) # Cardinality(Below(z))
    BY <2>4, <1>2, FS_Subset
  <2> QED BY <2>5, <1>2
<1> HIDE DEF Below
<1>5. f \in Injection(L, 0 .. N - 1)
  <2>1. f \in [L -> 0 .. N - 1]
    BY <1>1, <1>2, <1>3
  <2>2. ASSUME NEW x \in L, NEW z \in L, f[x] = f[z] PROVE x = z
    <3>1. x \in Int /\ z \in Int
      OBVIOUS
    <3>2. ~(x < z) /\ ~(z < x)
      BY <1>2, <1>4, <2>2
    <3> QED BY <3>1, <3>2
  <2>3. IsInjective(f)
    BY <2>2 DEF IsInjective
  <2> QED BY <2>1, <2>3 DEF Injection
<1> HIDE DEF f
<1>6. IsFiniteSet(0 .. N - 1) /\ Cardinality(0 .. N - 1) = N
  <2>1. 0 \in Int /\ N - 1 \in Int
    BY <1>1
  <2>2. /\ IsFiniteSet(0 .. N - 1)
        /\ Cardinality(0 .. N - 1) = IF 0 > N - 1 THEN 0 ELSE N - 1 - 0 + 1
    BY <2>1, FS_Interval
  <2> QED BY <2>2, <1>1
<1>7. f \in Surjection(L, 0 .. N - 1)
  BY <1>5, <1>6, FS_Injection
<1>8. PICK x \in L : f[x] = r
  BY <1>7 DEF Surjection
<1> QED BY <1>8 DEF f, Below

\* The block that is proposed is a list of transactions.
LEMMA SerializedIsList == IsList(SerializedBlock)
<1> DEFINE N == Cardinality(InBlock)
<1>1. InBlock \subseteq Txs /\ InBlock \subseteq Nat /\ IsFiniteSet(InBlock)
  BY BlockAssumption, FS_Subset DEF InBlock
<1>2. N \in Nat
  BY <1>1, FS_CardinalityType
<1>3. ASSUME NEW i \in 1 .. N PROVE Nth(i) \in Txs
  <2>1. i - 1 \in 0 .. N - 1
    BY <1>2
  <2>2. \E tx \in InBlock : Cardinality({other \in InBlock : other < tx}) = i - 1
    BY <1>1, <2>1, RankExists
  <2>3. Nth(i) \in InBlock
    BY <2>2, Zenon DEF Nth
  <2> QED BY <1>1, <2>3
<1>4. SerializedBlock = [i \in 1 .. N |-> Entry(Nth(i), Times(Nth(i)))]
  BY DEF SerializedBlock
<1> HIDE DEF N
<1>5. Len(SerializedBlock) = N
  BY <1>2, <1>4
<1>6. ASSUME NEW i \in 1 .. N PROVE SerializedBlock[i].tx \in Txs
  <2>1. SerializedBlock[i] = Entry(Nth(i), Times(Nth(i)))
    BY <1>4
  <2> QED BY <1>3, <2>1 DEF Entry
<1> QED BY <1>2, <1>5, <1>6 DEF IsList

\* When every thread is idle the deltas on the objects are those of tx_set.
LEMMA IdleIsSettled ==
  ASSUME BlockInv, AllIdle, NEW key \in Keys
  PROVE  /\ objs[at][key].held = {}
         /\ \A x \in NameSet : x \in objs[at][key].done <=>
              /\ <<x[1], x[2]>> \in txset
              /\ 1 <= x[3] /\ x[3] <= Width(entries, x[1])
              /\ KeyIn(entries, x) = key
         /\ objs[at][key].done # {} => key \in logged
<1> USE DEF BlockInv
<1>1. \A t \in Threads : th[t].pc \notin Busy /\ th[t].pc # "commit"
  BY DEF AllIdle, Busy
<1>2. objs[at][key].held = {}
  BY <1>1 DEF HeldBySomeone, HolderOf
<1>3. \A t \in Threads : \A a, b : ~Committing(t, a, b)
  BY <1>1 DEF Committing
<1>4. \A x \in NameSet : x \in objs[at][key].done <=>
         /\ <<x[1], x[2]>> \in txset
         /\ 1 <= x[3] /\ x[3] <= Width(entries, x[1])
         /\ KeyIn(entries, x) = key
  BY <1>3 DEF DoneIsListed, Finished
<1>5. ASSUME NEW x \in objs[at][key].done PROVE key \in logged
  <2>1. x \in NameSet
    BY ObjectTypes DEF Types
  <2>2. x[1] \in Nat /\ x[3] \in Nat
    BY <2>1 DEF NameSet
  <2>3. <<x[1], x[2]>> \in txset /\ 1 <= x[3] /\ x[3] <= Width(entries, x[1]) /\ KeyIn(entries, x) = key
    BY <1>4, <2>1
  <2>4. x[1] \in 1 .. Len(entries)
    BY <2>2, <2>3 DEF Types, IsList
  <2>5. Width(entries, x[1]) \in Nat
    BY <2>4, EntryShape DEF Types
  <2>6. x[3] \in 1 .. Width(entries, x[1])
    BY <2>2, <2>3, <2>5
  <2>7. KeyIn(entries, x) \in Written(entries[x[1]].tx)
    BY <2>4, <2>6, EntryShape DEF Types
  <2>8. Written(entries[x[1]].tx) \subseteq logged
    BY <1>3, <2>3 DEF KeysLogged
  <2> QED BY <2>3, <2>7, <2>8
<1> QED BY <1>2, <1>4, <1>5

\* A block that ends leaves nothing on the objects.
LEMMA ResetRests ==
  ASSUME BlockInv, AllIdle, ResetContext, IsList(offer.block)'
  PROVE  BlockInv'
<1>1. PICK gone \in Vanishing :
        objs' = [objs EXCEPT ![at] = [key \in Keys |-> AfterRound(key, gone)]]
  BY DEF ResetContext
<1>2. /\ entries' = <<>> /\ next' = 1 /\ txset' = {} /\ found_error' = FALSE
      /\ th' = th /\ at' = at
  BY DEF ResetContext
<1>3. objs \in [Nodes -> [Keys -> DeltaSets]] /\ at \in Nodes /\ th \in [Threads -> ThreadStates]
  BY DEF BlockInv, Types
<1>4. Clean \in DeltaSets /\ Clean.held = {} /\ Clean.done = {}
  BY DEF Clean, DeltaSets
<1>5. ASSUME NEW key \in Keys
      PROVE  /\ AfterRound(key, gone) \in DeltaSets
             /\ AfterRound(key, gone).held = {} /\ AfterRound(key, gone).done = {}
  <2>1. AfterRound(key, gone) = Clean \/ (AfterRound(key, gone) = objs[at][key] /\ key \notin logged)
    BY DEF AfterRound
  <2>2. objs[at][key] \in DeltaSets
    BY <1>3
  <2>3. objs[at][key].held = {} /\ (objs[at][key].done # {} => key \in logged)
    BY IdleIsSettled
  <2> QED BY <2>1, <2>2, <2>3, <1>4
<1> DEFINE row == [key \in Keys |-> AfterRound(key, gone)]
<1>6. row \in [Keys -> DeltaSets] /\ \A key \in Keys : row[key].held = {} /\ row[key].done = {}
  BY <1>5
<1>7. objs' = [objs EXCEPT ![at] = row]
  BY <1>1
<1> HIDE DEF row
<1>8. /\ objs' \in [Nodes -> [Keys -> DeltaSets]]
      /\ objs'[at] = row
      /\ \A n \in Nodes : n # at => objs'[n] = objs[n]
  BY <1>3, <1>6, <1>7
<1>9. Types'
  <2>1. IsList(entries') /\ next' \in 1 .. Len(entries') + 1
    BY <1>2 DEF IsList
  <2> QED BY <1>2, <1>3, <1>8, <2>1 DEF Types
<1>10. AtRest'
  <2>1. \A n \in Nodes : n # at => Empty(n)
    BY DEF BlockInv, OthersClean
  <2>2. \A n \in Nodes : Empty(n)'
    BY <2>1, <1>6, <1>8 DEF Empty
  <2>3. \A t \in Threads : th'[t].pc = "idle"
    BY <1>2 DEF AllIdle
  <2> QED BY <2>2, <2>3, <1>2 DEF AtRest
<1>11. Types' /\ AtRest' => BlockInv'
  BY RestIsEnough, PTL
<1> QED BY <1>9, <1>10, <1>11

\* A block is proposed, accepted or rejected.
LEMMA FinishKeeps ==
  ASSUME BlockInv, Finish
  PROVE  BlockInv'
<1>1. CASE FinishProposal
  <2>1. AllIdle /\ ResetContext /\ offer'.block = SerializedBlock
    BY <1>1 DEF FinishProposal
  <2>2. IsList(offer.block)'
    BY <2>1, SerializedIsList
  <2> QED BY <2>1, <2>2, ResetRests
<1>2. CASE Accept \/ Reject
  <2>1. AllIdle /\ ResetContext /\ offer' = NoOffer
    BY <1>2 DEF Accept, Reject, Joined
  <2>2. offer'.block = <<>>
    BY <2>1 DEF NoOffer
  <2>3. IsList(<<>>)
    BY DEF IsList
  <2>4. IsList(offer.block)'
    BY <2>2, <2>3
  <2> QED BY <2>1, <2>4, ResetRests
<1> QED BY <1>1, <1>2 DEF Finish

\* A block is assembled or arrives.
LEMMA BeginKeeps ==
  ASSUME BlockInv, NEW n \in Nodes,
         \/ \E pool \in Pools : Propose(n, pool)
         \/ Validate(n)
         \/ \E block \in ForeignBlocks : ValidateForeign(n, block)
  PROVE  BlockInv'
<1>1. CASE \E pool \in Pools : Propose(n, pool)
  <2>1. PICK pool \in Pools : Propose(n, pool)
    BY <1>1
  <2> DEFINE list == [i \in DOMAIN pool |-> Entry(pool[i], 1)]
  <2>2. StartBlock(n, "assembling", list)
    BY <2>1 DEF Propose
  <2>3. pool \in Seq(Txs)
    BY BlockAssumption
  <2>4. Len(pool) \in Nat /\ DOMAIN pool = 1 .. Len(pool) /\ \A i \in 1 .. Len(pool) : pool[i] \in Txs
    BY <2>3
  <2>5. Len(list) = Len(pool) /\ \A i \in 1 .. Len(pool) : list[i] = Entry(pool[i], 1)
    BY <2>4
  <2>6. IsList(list)
    BY <2>4, <2>5 DEF IsList, Entry
  <2> HIDE DEF list
  <2> QED BY <2>2, <2>6, StartKeeps
<1>2. CASE Validate(n)
  <2>1. StartBlock(n, "validating", offer.block) /\ IsList(offer.block)
    BY <1>2 DEF Validate, BlockInv, Types
  <2>2. PICK list : list = offer.block
    OBVIOUS
  <2> QED BY <2>1, <2>2, StartKeeps
<1>3. CASE \E block \in ForeignBlocks : ValidateForeign(n, block)
  <2>1. PICK block \in ForeignBlocks : ValidateForeign(n, block)
    BY <1>3
  <2>2. StartBlock(n, "validating", block)
    BY <2>1 DEF ValidateForeign
  <2>3. block \in Seq([tx : Txs, n : Nat \ {0}, unused : BOOLEAN])
    BY BlockAssumption
  <2>4. /\ Len(block) \in Nat
        /\ \A i \in 1 .. Len(block) : block[i] \in [tx : Txs, n : Nat \ {0}, unused : BOOLEAN]
    <3> DEFINE E == [tx : Txs, n : Nat \ {0}, unused : BOOLEAN]
    <3> HIDE DEF E
    <3>1. block \in Seq(E)
      BY <2>3 DEF E
    <3>2. Len(block) \in Nat /\ \A i \in 1 .. Len(block) : block[i] \in E
      BY <3>1
    <3> QED BY <3>2 DEF E
  <2>5. IsList(block)
    BY <2>4 DEF IsList
  <2> QED BY <2>2, <2>5, StartKeeps
<1> QED BY <1>1, <1>2, <1>3

\* When every thread is idle, the names that tx_set gives and those on the objects.
LEMMA SettledIsListed == BlockInv => AllOrNothing
<1> SUFFICES ASSUME BlockInv, stage # "idle", AllIdle, NEW key \in Keys
             PROVE  LET listed == {name \in Names : KeyOf(name) = key}
                    IN  /\ objs[at][key].held = {}
                        /\ objs[at][key].done = listed
                        /\ listed # {} => key \in logged
  BY Zenon DEF AllOrNothing
<1> DEFINE listed == {name \in Names : KeyOf(name) = key}
<1>1. at \in Nodes /\ txset \subseteq (1 .. next - 1) \X Nat /\ next \in 1 .. Len(entries) + 1
      /\ IsList(entries) /\ Len(entries) \in Nat
  BY DEF BlockInv, Types, IsList
<1>2. objs[at][key].done \subseteq NameSet
  BY <1>1, ObjectTypes DEF BlockInv
<1>3. ASSUME NEW e \in txset
      PROVE  /\ e = <<e[1], e[2]>> /\ e[1] \in 1 .. Len(entries) /\ e[2] \in Nat
             /\ Positions(e) = 1 .. Width(entries, e[1]) /\ Width(entries, e[1]) \in Nat
  <2>1. e = <<e[1], e[2]>> /\ e[1] \in 1 .. Len(entries) /\ e[2] \in Nat
    BY <1>1
  <2>2. entries[e[1]].tx \in Txs
    BY <1>1, <2>1 DEF IsList
  <2>3. Positions(e) = 1 .. Width(entries, e[1]) /\ Width(entries, e[1]) \in Nat
    BY <2>2, ProgramShape DEF Positions, Width
  <2> QED BY <2>1, <2>3
<1>4. ASSUME NEW x
      PROVE  x \in Names <=> /\ x \in NameSet /\ <<x[1], x[2]>> \in txset
                             /\ 1 <= x[3] /\ x[3] <= Width(entries, x[1])
  <2>1. ASSUME x \in Names
        PROVE  /\ x \in NameSet /\ <<x[1], x[2]>> \in txset
               /\ 1 <= x[3] /\ x[3] <= Width(entries, x[1])
    <3>1. PICK e \in txset : x \in {<<e[1], e[2], k>> : k \in Positions(e)}
      BY <2>1 DEF Names
    <3>2. PICK k \in Positions(e) : x = <<e[1], e[2], k>>
      BY <3>1
    <3>3. x[1] = e[1] /\ x[2] = e[2] /\ x[3] = k /\ k \in 1 .. Width(entries, e[1])
      BY <1>3, <3>2
    <3>4. e[1] \in Nat /\ e[2] \in Nat /\ k \in Nat /\ Width(entries, e[1]) \in Nat
      BY <1>1, <1>3, <3>3
    <3>5. x \in NameSet
      BY <3>2, <3>4 DEF NameSet
    <3> QED BY <1>3, <3>3, <3>4, <3>5
  <2>2. ASSUME x \in NameSet, <<x[1], x[2]>> \in txset,
               1 <= x[3], x[3] <= Width(entries, x[1])
        PROVE  x \in Names
    <3> DEFINE e == <<x[1], x[2]>>
    <3>1. e \in txset /\ e[1] = x[1] /\ e[2] = x[2]
      BY <2>2
    <3>2. x = <<x[1], x[2], x[3]>> /\ x[3] \in Nat
      BY <2>2 DEF NameSet
    <3>3. Positions(e) = 1 .. Width(entries, x[1]) /\ Width(entries, x[1]) \in Nat
      BY <1>3, <3>1
    <3>4. x[3] \in Positions(e)
      BY <2>2, <3>2, <3>3
    <3>5. x = <<e[1], e[2], x[3]>>
      BY <3>1, <3>2
    <3> HIDE DEF e
    <3>6. x \in {<<e[1], e[2], k>> : k \in Positions(e)}
      BY <3>4, <3>5
    <3> QED BY <3>1, <3>6 DEF Names
  <2> QED BY <2>1, <2>2
<1>5. \A x : KeyOf(x) = KeyIn(entries, x)
  BY KeyOfIsKeyIn
<1>6. /\ objs[at][key].held = {}
      /\ \A x \in NameSet : x \in objs[at][key].done <=>
            /\ <<x[1], x[2]>> \in txset
            /\ 1 <= x[3] /\ x[3] <= Width(entries, x[1])
            /\ KeyIn(entries, x) = key
      /\ objs[at][key].done # {} => key \in logged
  BY IdleIsSettled
<1>7. objs[at][key].done = listed
  BY <1>2, <1>4, <1>5, <1>6
<1> QED BY <1>6, <1>7

-----------------------------------------------------------------------------
(* The theorems                                                            *)

\* The invariant holds of every state: execute and the threads that call it
\* keep track of each delta, whatever the interleaving of their steps.
THEOREM BlockInvariant == Spec => []BlockInv
<1>1. Init => BlockInv
  BY InitRests
<1>2. BlockInv /\ [Next]_vars => BlockInv'
  <2> SUFFICES ASSUME BlockInv, [Next]_vars PROVE BlockInv'
    OBVIOUS
  <2>1. CASE Next
    <3>1. CASE \/ \E n \in Nodes, pool \in Pools : Propose(n, pool)
               \/ \E n \in Nodes : Validate(n)
               \/ \E n \in Nodes, block \in ForeignBlocks : ValidateForeign(n, block)
      BY <3>1, BeginKeeps
    <3>2. CASE \E t \in Threads : Work(t)
      BY <3>2, WorkKeeps
    <3>3. CASE Finish
      BY <3>3, FinishKeeps
    <3> QED BY <2>1, <3>1, <3>2, <3>3 DEF Next
  <2>2. CASE UNCHANGED vars
    <3>1. UNCHANGED <<objs, stage, at, entries, next, th, txset, logged, found_error, offer>>
      BY <2>2 DEF vars
    <3>2. Types' /\ Ranges' /\ Positioned' /\ Apart' /\ Lists'
      BY <3>1 DEF BlockInv, Types, Ranges, Positioned, Apart, Lists, Executes, Committing
    <3>3. HeldBySomeone' /\ NoGap'
      BY <3>1 DEF BlockInv, HeldBySomeone, NoGap, HolderOf, MayHold, Name, HeldAt
    <3>4. DoneIsListed' /\ KeysLogged' /\ OthersClean' /\ IdleClean'
      BY <3>1 DEF BlockInv, DoneIsListed, KeysLogged, OthersClean, IdleClean, Committing,
                  Finished, Empty
    <3> QED BY <3>2, <3>3, <3>4 DEF BlockInv
  <2> QED BY <2>1, <2>2
<1> QED BY <1>1, <1>2, PTL DEF Spec

\* When the threads are at rest every transaction that tx_set lists has all of
\* its deltas committed and its keys logged, and nothing else is on an object:
\* push_deltas_to_statedb, TransactionRewind and log_modified_keys together are
\* all or nothing.
THEOREM NoTransactionInPart == Spec => []AllOrNothing
<1>1. BlockInv => AllOrNothing
  BY SettledIsListed
<1> QED BY <1>1, BlockInvariant, PTL

\* Between blocks no object has a delta, on any machine: commit_round and
\* rewind_round for the keys that were logged reach every object that has one.
THEOREM NothingBetweenBlocks == Spec => []CleanBetweenBlocks
<1>1. BlockInv => CleanBetweenBlocks
  BY DEF BlockInv, CleanBetweenBlocks, OthersClean, IdleClean, Empty
<1> QED BY <1>1, BlockInvariant, PTL

-----------------------------------------------------------------------------
(* Whatever commits, the objects get legal values                          *)

\* DeltaOf, for any list of entries and any committed state.
DeltaIn(list, state, x) ==
    LET op == Writes(list[x[1]].tx)[x[3]]
    IN  Delta(state[op.key], op)
Effects(list, state) == [x \in NameSet |-> DeltaIn(list, state, x)]

\* The deltas that are done and any of those that are held may commit together.
OutcomesLegal ==
    \A key \in Keys : \A S \in SUBSET objs[at][key].held :
      objs[at][key].done \cup S # {} =>
        Legal(db[at][key], Effects(entries, db[at]), objs[at][key].done \cup S)
LegalInv == IsFiniteSet(txset) /\ DOMAIN db = Nodes /\ OutcomesLegal

\* Only the deltas that commit matter.
LEMMA LegalAgrees ==
  ASSUME NEW object, NEW D, NEW E, NEW C, \A o \in C : D[o] = E[o], Legal(object, D, C)
  PROVE  Legal(object, E, C)
<1>1. \A type : OfType(D, C, type) = OfType(E, C, type)
  BY DEF OfType
<1>2. Touching(D, C) = Touching(E, C)
  BY DEF Touching
<1>3. ASSUME NEW B, B \subseteq C PROVE Total(D, B) = Total(E, B)
  <2>1. [o \in B |-> Amount(D[o])] = [o \in B |-> Amount(E[o])]
    BY <1>3
  <2> QED BY <2>1 DEF Total
<1>4. \A type : OfType(D, C, type) \subseteq C
  BY DEF OfType
<1>5. Touching(D, C) \subseteq C
  BY DEF Touching
<1> DEFINE ints == OfType(D, C, "NONNEGATIVE_INT64_SET_ADD")
           assets == OfType(D, C, "ASSET_OBJECT_ADD")
           inserts == OfType(D, C, "HASH_SET_INSERT")
<1>6. /\ \A o \in ints : D[o] = E[o]
      /\ \A o \in inserts : D[o] = E[o]
      /\ \A o \in Touching(D, C) : D[o] = E[o]
      /\ Total(D, ints) = Total(E, ints) /\ Total(D, assets) = Total(E, assets)
  BY <1>3, <1>4, <1>5
<1>7. /\ \A o, p \in Touching(D, C) : DeltaClass(D[o]) = DeltaClass(D[p])
      /\ \A o \in Touching(D, C) : TypeAllowed(object, DeltaClass(D[o]))
      /\ \A o \in ints : D[o].set_value >= 0 => D[o].set_value + Total(D, ints) >= 0
      /\ Supply(object) + Total(D, assets) \in 0 .. MaxUint
      /\ \A o, p \in inserts : o # p => D[o].hash # D[p].hash
      /\ \A o \in inserts : D[o].hash \notin Hashes(object)
      /\ inserts # {} => Cardinality(Hashes(object)) + Cardinality(inserts) <= SizeLimit(object)
  BY DEF Legal
<1> DEFINE ints2 == OfType(E, C, "NONNEGATIVE_INT64_SET_ADD")
           assets2 == OfType(E, C, "ASSET_OBJECT_ADD")
           inserts2 == OfType(E, C, "HASH_SET_INSERT")
<1>8. ints2 = ints /\ assets2 = assets /\ inserts2 = inserts
  BY <1>1
<1> HIDE DEF ints, assets, inserts, ints2, assets2, inserts2
<1>9. /\ \A o, p \in Touching(E, C) : DeltaClass(E[o]) = DeltaClass(E[p])
      /\ \A o \in Touching(E, C) : TypeAllowed(object, DeltaClass(E[o]))
      /\ \A o \in ints2 : E[o].set_value >= 0 => E[o].set_value + Total(E, ints2) >= 0
      /\ Supply(object) + Total(E, assets2) \in 0 .. MaxUint
      /\ \A o, p \in inserts2 : o # p => E[o].hash # E[p].hash
      /\ \A o \in inserts2 : E[o].hash \notin Hashes(object)
      /\ inserts2 # {} => Cardinality(Hashes(object)) + Cardinality(inserts2) <= SizeLimit(object)
  BY <1>2, <1>6, <1>7, <1>8
<1> QED BY <1>9 DEF Legal, ints2, assets2, inserts2

\* The deltas as Block names them.
LEMMA EffectsAre ==
  ASSUME NEW C, C \subseteq NameSet, NEW x \in C
  PROVE  AllDeltas(C)[x] = Effects(entries, db[at])[x]
BY DEF AllDeltas, DeltaOf, Effects, DeltaIn

\* What changes no object and does not end the block.
LEMMA LegalUntouched ==
  ASSUME LegalInv, UNCHANGED <<db, at, entries, objs>>, IsFiniteSet(txset')
  PROVE  LegalInv'
BY DEF LegalInv, OutcomesLegal

\* An object that has no delta.
LEMMA LegalWhenEmpty ==
  ASSUME Types, Empty(at), IsFiniteSet(txset), DOMAIN db = Nodes
  PROVE  LegalInv
<1>1. \A key \in Keys : objs[at][key].held = {} /\ objs[at][key].done = {}
  BY DEF Empty
<1>2. OutcomesLegal
  BY <1>1 DEF OutcomesLegal
<1> QED BY <1>2 DEF LegalInv

\* A delta that try_add_delta admits is legal with any others that may commit.
LEMMA PushLegal ==
  ASSUME BlockInv, LegalInv, NEW t \in Threads, Push(t)
  PROVE  LegalInv'
<1> DEFINE name == Named(t)
           key == KeyIn(entries, name)
           o == objs[at][key]
           E == Effects(entries, db[at])
<1>1. th[t].pc = "push" /\ Executes(t) /\ th[t].pc \in Busy
  BY DEF Push, Executes, Busy
<1>2. UNCHANGED <<db, at, entries, txset>>
  BY DEF Push, machine, block_context
<1>3. 1 <= th[t].k /\ th[t].k <= Width(entries, th[t].i)
  BY <1>1 DEF BlockInv, Positioned
<1>4. /\ name \in NameSet /\ KeyOf(name) = key /\ key \in Keys
      /\ Object(t) = o /\ Object(t) \in DeltaSets
  BY <1>1, <1>3, AtDelta DEF BlockInv
<1>5. IsFiniteSet(txset')
  BY <1>2 DEF LegalInv
<1>6. CASE UNCHANGED objs
  BY <1>2, <1>5, <1>6, LegalUntouched
<1>7. CASE Accepts(key, o, name) /\ SetObject(key, Reserved(o, name))
  <2>1. o \in DeltaSets /\ o.held \in SUBSET NameSet /\ o.done \in SUBSET NameSet /\ o.used \in Nat
    BY <1>4 DEF DeltaSets
  <2> DEFINE C == o.held \cup o.done \cup {name}
             D == AllDeltas(C)
             n == o.used + (IF IsInsert(name) THEN 1 ELSE 0)
             r == [o EXCEPT !.held = o.held \cup {name}, !.used = n]
  <2>2. \A S \in SUBSET o.held : Legal(db[at][key], D, o.done \cup S \cup {name})
    BY <1>7 DEF Accepts, Admits
  <2>3. C \subseteq NameSet
    BY <1>4, <2>1
  <2>4. \A x \in C : D[x] = E[x]
    <3> HIDE DEF C
    <3> QED BY <2>3, EffectsAre
  <2>5. n \in Nat /\ o.held \cup {name} \in SUBSET NameSet
    BY <2>1, <1>4
  <2>6. Reserved(o, name) = r
    BY DEF Reserved
  <2> HIDE DEF o, D, E, n, name, key
  <2>7. r \in DeltaSets /\ r.held = o.held \cup {name} /\ r.done = o.done
    BY <2>1, <2>5 DEF DeltaSets
  <2> HIDE DEF r
  <2>8. SetObject(key, r)
    BY <1>7, <2>6
  <2>9. objs'[at][key] = r /\ \A q \in Keys : q # key => objs'[at][q] = objs[at][q]
    BY <1>4, <2>7, <2>8, SetObjectStep DEF BlockInv
  <2>10. ASSUME NEW S \in SUBSET (o.held \cup {name}), o.done \cup S # {}
         PROVE  Legal(db[at][key], E, o.done \cup S)
    <3>1. CASE name \in S
      <4>1. S \ {name} \in SUBSET o.held /\ o.done \cup (S \ {name}) \cup {name} = o.done \cup S
        BY <3>1
      <4>2. Legal(db[at][key], D, o.done \cup S)
        BY <2>2, <4>1
      <4>3. \A x \in o.done \cup S : D[x] = E[x]
        BY <2>4
      <4> QED BY <4>2, <4>3, LegalAgrees
    <3>2. CASE name \notin S
      <4>1. S \in SUBSET o.held
        BY <3>2
      <4> QED BY <4>1, <2>10, <1>4 DEF LegalInv, OutcomesLegal, o, E
    <3> QED BY <3>1, <3>2
  <2>11. ASSUME NEW q \in Keys, NEW S \in SUBSET objs'[at][q].held, objs'[at][q].done \cup S # {}
         PROVE  Legal(db[at][q], E, objs'[at][q].done \cup S)
    <3>1. CASE q = key
      BY <3>1, <2>7, <2>9, <2>10, <2>11
    <3>2. CASE q # key
      <4>1. objs'[at][q] = objs[at][q]
        BY <2>9, <3>2
      <4> QED BY <4>1, <2>11 DEF LegalInv, OutcomesLegal, E
    <3> QED BY <3>1, <3>2
  <2>12. OutcomesLegal'
    BY <2>11, <1>2 DEF OutcomesLegal, E
  <2> QED BY <2>12, <1>2, <1>5 DEF LegalInv
<1> QED BY <1>4, <1>6, <1>7 DEF Push

\* Deltas that move from held to done, or are given back, are among those that
\* might have been.
LEMMA LegalFewer ==
  ASSUME BlockInv, LegalInv, NEW t \in Threads, Executes(t),
         1 <= th[t].k, th[t].k <= Width(entries, th[t].i),
         NEW commits \in BOOLEAN, commits => HeldAt(t, th[t].k),
         SetObject(KeyOf(Named(t)),
           [Object(t) EXCEPT !.held = @ \ {Named(t)},
                             !.done = IF commits THEN @ \cup {Named(t)} ELSE @]),
         UNCHANGED <<db, at, entries, txset>>
  PROVE  LegalInv'
<1> DEFINE name == Named(t)
           key == KeyIn(entries, name)
           o == objs[at][key]
           E == Effects(entries, db[at])
           d == IF commits THEN o.done \cup {name} ELSE o.done
           r == [o EXCEPT !.held = o.held \ {name}, !.done = d]
<1>1. /\ name = Name(t, th[t].k) /\ name \in NameSet /\ KeyOf(name) = key /\ key \in Keys
      /\ Object(t) = o /\ Object(t) \in DeltaSets
  BY AtDelta DEF BlockInv
<1>2. SetObject(key, r)
  BY <1>1
<1>3. o \in DeltaSets /\ o.held \in SUBSET NameSet /\ o.done \in SUBSET NameSet
  BY <1>1 DEF DeltaSets
<1>4. d \in SUBSET NameSet /\ (commits => d = o.done \cup {name} /\ name \in o.held)
      /\ (~commits => d = o.done)
  BY <1>1, <1>3 DEF HeldAt
<1> HIDE DEF o, d, E, name, key
<1>5. r \in DeltaSets /\ r.held = o.held \ {name} /\ r.done = d
  BY <1>3, <1>4 DEF DeltaSets
<1> HIDE DEF r
<1>6. objs'[at][key] = r /\ \A q \in Keys : q # key => objs'[at][q] = objs[at][q]
  BY <1>1, <1>2, <1>5, SetObjectStep DEF BlockInv
<1>7. ASSUME NEW S \in SUBSET (o.held \ {name}), d \cup S # {}
      PROVE  Legal(db[at][key], E, d \cup S)
  <2>1. PICK R \in SUBSET o.held : o.done \cup R = d \cup S
    <3>1. CASE commits
      <4>1. S \cup {name} \in SUBSET o.held /\ o.done \cup (S \cup {name}) = d \cup S
        BY <3>1, <1>4
      <4> QED BY <4>1
    <3>2. CASE ~commits
      BY <3>2, <1>4
    <3> QED BY <3>1, <3>2
  <2>2. o.done \cup R # {} => Legal(db[at][key], E, o.done \cup R)
    BY <1>1 DEF LegalInv, OutcomesLegal, o, E
  <2> QED BY <2>1, <2>2, <1>7
<1>8. ASSUME NEW q \in Keys, NEW S \in SUBSET objs'[at][q].held, objs'[at][q].done \cup S # {}
      PROVE  Legal(db[at][q], E, objs'[at][q].done \cup S)
  <2>1. CASE q = key
    BY <2>1, <1>5, <1>6, <1>7, <1>8
  <2>2. CASE q # key
    <3>1. objs'[at][q] = objs[at][q]
      BY <1>6, <2>2
    <3> QED BY <3>1, <1>8 DEF LegalInv, OutcomesLegal, E
  <2> QED BY <2>1, <2>2
<1>9. OutcomesLegal'
  BY <1>8 DEF OutcomesLegal, E
<1> QED BY <1>9 DEF LegalInv

\* A delta is committed.
LEMMA CommitOneLegal ==
  ASSUME BlockInv, LegalInv, NEW t \in Threads, CommitOne(t)
  PROVE  LegalInv'
<1>1. th[t].pc = "commit" /\ Executes(t) /\ th[t].pc \in Busy
  BY DEF CommitOne, Executes, Busy
<1>2. UNCHANGED <<db, at, entries, txset>>
  BY DEF CommitOne, machine, block_context
<1>3. th[t].k <= Width(entries, th[t].i)
  BY DEF CommitOne, Width, Tx
<1>4. 1 <= th[t].k
  BY <1>1 DEF BlockInv, Positioned
<1>5. th[t].k \in Nat /\ Width(entries, th[t].i) \in Nat
  BY <1>1, ThreadTypes, ThreadEntry DEF BlockInv
<1>6. th[t].k \in 1 .. Width(entries, th[t].i) /\ th[t].k <= th[t].k
  BY <1>3, <1>4, <1>5
<1>7. HeldAt(t, th[t].k)
  BY <1>1, <1>6 DEF BlockInv, NoGap
<1>8. PICK commits \in BOOLEAN : commits
  OBVIOUS
<1>9. SetObject(KeyOf(Named(t)),
        [Object(t) EXCEPT !.held = @ \ {Named(t)},
                          !.done = IF commits THEN @ \cup {Named(t)} ELSE @])
  BY <1>8 DEF CommitOne
<1> QED BY <1>1, <1>2, <1>3, <1>4, <1>7, <1>9, LegalFewer

\* A reservation is given back.
LEMMA UndoOneLegal ==
  ASSUME BlockInv, LegalInv, NEW t \in Threads, UndoOne(t)
  PROVE  LegalInv'
<1>1. th[t].pc = "undo" /\ Executes(t) /\ th[t].pc \in Busy
  BY DEF UndoOne, Executes, Busy
<1>2. UNCHANGED <<db, at, entries, txset>>
  BY DEF UndoOne, machine, block_context
<1>3. th[t].k <= Width(entries, th[t].i)
  BY DEF UndoOne, Width, Tx
<1>4. 1 <= th[t].k
  BY <1>1 DEF BlockInv, Positioned
<1>5. PICK commits \in BOOLEAN : ~commits
  OBVIOUS
<1>6. Object(t) \in DeltaSets
  BY <1>1, <1>3, <1>4, AtDelta DEF BlockInv
<1> DEFINE o == Object(t)
           h == o.held \ {Named(t)}
<1>7. [o EXCEPT !.held = h] = [o EXCEPT !.held = h, !.done = IF commits THEN o.done \cup {Named(t)} ELSE o.done]
  <2>1. o \in DeltaSets
    BY <1>6
  <2> HIDE DEF o, h
  <2>2. [o EXCEPT !.held = h] = [o EXCEPT !.held = h, !.done = o.done]
    BY <2>1 DEF DeltaSets
  <2> QED BY <2>2, <1>5
<1>8. SetObject(KeyOf(Named(t)),
        [Object(t) EXCEPT !.held = @ \ {Named(t)},
                          !.done = IF commits THEN @ \cup {Named(t)} ELSE @])
  BY <1>7 DEF UndoOne
<1> QED BY <1>1, <1>2, <1>3, <1>4, <1>5, <1>8, LegalFewer

\* Every step of a thread.
LEMMA WorkLegal ==
  ASSUME BlockInv, LegalInv, NEW t \in Threads, Work(t)
  PROVE  LegalInv'
<1>1. CASE Push(t) \/ CommitOne(t) \/ UndoOne(t)
  BY <1>1, PushLegal, CommitOneLegal, UndoOneLegal
<1>2. CASE AddTx(t)
  <2>1. UNCHANGED <<db, at, entries, objs>>
    BY <1>2 DEF AddTx, machine
  <2>2. IsFiniteSet(txset)
    BY DEF LegalInv
  <2>3. IsFiniteSet(txset')
    BY <1>2, <2>2, FS_AddElement DEF AddTx
  <2> QED BY <2>1, <2>3, LegalUntouched
<1>3. CASE Run(t) \/ LogKeys(t) \/ Undone(t) \/ Fetch(t) \/ TakeRange(t) \/ ReadError(t) \/ StoreError(t)
  <2>1. UNCHANGED <<db, at, entries, objs, txset>>
    BY <1>3 DEF Run, LogKeys, Undone, Fetch, TakeRange, ReadError, StoreError, machine, block_context
  <2>2. IsFiniteSet(txset')
    BY <2>1 DEF LegalInv
  <2> QED BY <2>1, <2>2, LegalUntouched
<1> QED BY <1>1, <1>2, <1>3 DEF Work, Execute

\* Before and after a block there is nothing on the objects.
LEMMA BoundaryLegal ==
  ASSUME BlockInv, BlockInv', LegalInv,
         \/ stage = "idle" /\ UNCHANGED <<db, objs, txset>>
         \/ Finish
  PROVE  LegalInv'
<1>1. /\ DOMAIN db' = Nodes /\ IsFiniteSet(txset')
  <2>1. CASE UNCHANGED <<db, txset>>
    BY <2>1 DEF LegalInv
  <2>2. CASE Finish
    <3>1. txset' = {}
      BY <2>2 DEF Finish, FinishProposal, Accept, Reject, ResetContext
    <3>2. db' = db \/ CommitBlock
      BY <2>2 DEF Finish, FinishProposal, Accept, Reject
    <3>3. DOMAIN db' = DOMAIN db
      BY <3>2 DEF CommitBlock
    <3> QED BY <3>1, <3>3, FS_EmptySet DEF LegalInv
  <2> QED BY <2>1, <2>2
<1>2. Empty(at)'
  <2>1. CASE stage = "idle" /\ UNCHANGED objs
    <3>1. \A n \in Nodes : Empty(n)
      BY <2>1 DEF BlockInv, IdleClean, OthersClean
    <3> QED BY <3>1, <2>1 DEF BlockInv, Types, Empty
  <2>2. CASE Finish
    <3>1. stage' = "idle"
      BY <2>2 DEF Finish, FinishProposal, Accept, Reject, ResetContext
    <3> QED BY <3>1 DEF BlockInv, IdleClean
  <2> QED BY <2>1, <2>2
<1>3. OutcomesLegal'
  <2>1. \A key \in Keys : objs'[at'][key].held = {} /\ objs'[at'][key].done = {}
    BY <1>2 DEF Empty
  <2> QED BY <2>1 DEF OutcomesLegal
<1> QED BY <1>1, <1>3 DEF LegalInv

\* At every moment of a block, whichever of the deltas that are reserved go on
\* to commit, with those that have committed they give every object a legal
\* value: what try_add_delta checked when it admitted a delta still holds when
\* commit_round merges it, after any steps of the other threads.
THEOREM AnyOutcomeOfABlockIsLegal == Spec => []LegalInv
<1>1. Init => LegalInv
  <2> SUFFICES ASSUME Init PROVE LegalInv
    OBVIOUS
  <2>1. BlockInv /\ stage = "idle"
    BY InitRests DEF Init
  <2>2. Types /\ Empty(at) /\ txset = {}
    BY <2>1 DEF BlockInv, IdleClean
  <2>3. DOMAIN db = Nodes
    BY BlockAssumption DEF Init
  <2> QED BY <2>2, <2>3, FS_EmptySet, LegalWhenEmpty
<1>2. BlockInv /\ BlockInv' /\ LegalInv /\ [Next]_vars => LegalInv'
  <2> SUFFICES ASSUME BlockInv, BlockInv', LegalInv, [Next]_vars PROVE LegalInv'
    OBVIOUS
  <2>1. CASE \/ \E n \in Nodes, pool \in Pools : Propose(n, pool)
             \/ \E n \in Nodes : Validate(n)
             \/ \E n \in Nodes, block \in ForeignBlocks : ValidateForeign(n, block)
    <3>1. stage = "idle" /\ UNCHANGED <<db, objs, txset>>
      BY <2>1 DEF Propose, Validate, ValidateForeign, StartBlock, block_context
    <3> QED BY <3>1, BoundaryLegal
  <2>2. CASE \E t \in Threads : Work(t)
    BY <2>2, WorkLegal
  <2>3. CASE Finish
    BY <2>3, BoundaryLegal
  <2>4. CASE UNCHANGED vars
    BY <2>4, LegalUntouched DEF vars, LegalInv
  <2> QED BY <2>1, <2>2, <2>3, <2>4 DEF Next
<1> QED BY <1>1, <1>2, BlockInvariant, PTL DEF Spec

-----------------------------------------------------------------------------
(* Money is conserved                                                      *)

\* What each delta of a payment moves.
Moved == [x \in Names |-> Writes(entries[x[1]].tx)[x[3]].d]
OnlyPayments == \A e \in txset : Moves(entries[e[1]].tx)

\* The names of an execution that tx_set lists.
LEMMA ListedEntry ==
  ASSUME Types, NEW e \in txset
  PROVE  /\ e = <<e[1], e[2]>> /\ e[1] \in Nat /\ e[2] \in Nat
         /\ entries[e[1]].tx \in Txs
         /\ Width(entries, e[1]) \in Nat
         /\ DOMAIN Writes(entries[e[1]].tx) = 1 .. Width(entries, e[1])
         /\ Positions(e) = 1 .. Width(entries, e[1])
<1>1. e \in (1 .. next - 1) \X Nat /\ next \in 1 .. Len(entries) + 1 /\ Len(entries) \in Nat
  BY DEF Types, IsList
<1>2. e = <<e[1], e[2]>> /\ e[1] \in 1 .. Len(entries) /\ e[2] \in Nat
  BY <1>1
<1>3. entries[e[1]].tx \in Txs
  BY <1>2 DEF Types, IsList
<1> QED BY <1>1, <1>2, <1>3, ProgramShape DEF Positions, Width

\* The names that tx_set gives, one for each operation of an execution.
LEMMA ListedName ==
  ASSUME Types, NEW x
  PROVE  x \in Names <=> \E e \in txset : \E m \in 1 .. Width(entries, e[1]) : x = <<e[1], e[2], m>>
<1>1. \A e \in txset : Positions(e) = 1 .. Width(entries, e[1])
  BY ListedEntry
<1>2. x \in Names <=> \E e \in txset : x \in {<<e[1], e[2], k>> : k \in Positions(e)}
  BY DEF Names
<1> QED BY <1>1, <1>2

\* They are finitely many.
LEMMA NamesFinite ==
  ASSUME Types, IsFiniteSet(txset)
  PROVE  IsFiniteSet(Names)
<1> DEFINE Of(e) == {<<e[1], e[2], k>> : k \in Positions(e)}
           All(U) == UNION {Of(e) : e \in U}
           Good == {U \in SUBSET txset : IsFiniteSet(All(U))}
<1>1. {} \in Good
  <2>1. All({}) = {}
    OBVIOUS
  <2> QED BY <2>1, FS_EmptySet
<1>2. ASSUME NEW U \in Good, NEW e \in txset \ U PROVE U \cup {e} \in Good
  <2> DEFINE W == Width(entries, e[1])
             f == [k \in 1 .. W |-> <<e[1], e[2], k>>]
  <2>1. Positions(e) = 1 .. W /\ W \in Nat
    BY ListedEntry
  <2>2. f \in Surjection(1 .. W, Of(e))
    BY <2>1 DEF Surjection
  <2>3. IsFiniteSet(1 .. W)
    BY <2>1, FS_Interval
  <2> HIDE DEF f
  <2>4. IsFiniteSet(Of(e))
    BY <2>2, <2>3, FS_Surjection
  <2> HIDE DEF Of
  <2>5. All(U \cup {e}) = All(U) \cup Of(e)
    OBVIOUS
  <2>6. IsFiniteSet(All(U \cup {e}))
    <3> HIDE DEF All
    <3>1. IsFiniteSet(All(U))
      BY DEF Good
    <3> QED BY <3>1, <2>4, <2>5, FS_Union
  <2> QED BY <2>6
<1>3. txset \in Good
  <2> HIDE DEF Good
  <2> QED BY <1>1, <1>2, FiniteInduction
<1>4. Names = All(txset)
  BY DEF Names
<1> QED BY <1>3, <1>4

\* A delta of a payment.
LEMMA PaymentDelta ==
  ASSUME Types, OnlyPayments, NEW x \in Names
  PROVE  /\ x \in NameSet /\ KeyIn(entries, x) \in Keys /\ Moved[x] \in Int
         /\ LET object == db[at][KeyIn(entries, x)]
            IN  DeltaIn(entries, db[at], x) =
                  [type |-> "NONNEGATIVE_INT64_SET_ADD", delta |-> Moved[x],
                   set_value |-> IF object = NoObject THEN 0 ELSE object.value]
<1>0. PICK e \in txset : \E m \in 1 .. Width(entries, e[1]) : x = <<e[1], e[2], m>>
  BY ListedName
<1>1. PICK m \in 1 .. Width(entries, e[1]) : x = <<e[1], e[2], m>>
  BY <1>0
<1>2. /\ e[1] \in Nat /\ e[2] \in Nat /\ entries[e[1]].tx \in Txs /\ Width(entries, e[1]) \in Nat
      /\ DOMAIN Writes(entries[e[1]].tx) = 1 .. Width(entries, e[1])
  BY ListedEntry
<1>3. x[1] = e[1] /\ x[3] = m /\ m \in Nat
  BY <1>1, <1>2
<1> DEFINE op == Writes(entries[e[1]].tx)[m]
<1>4. op.op = "add"
  BY <1>2 DEF OnlyPayments, Moves
<1>5. op.key \in Keys /\ op.d \in MinInt .. MaxInt
  BY <1>2, <1>4, BlockAssumption DEF Writes
<1>6. op.d \in Int
  BY <1>5, BlockAssumption DEF MinInt
<1>7. x \in NameSet
  BY <1>1, <1>2, <1>3 DEF NameSet
<1>8. Moved[x] = op.d /\ KeyIn(entries, x) = op.key
  BY <1>3 DEF Moved, KeyIn
<1>9. DeltaIn(entries, db[at], x) = Delta(db[at][op.key], op)
  BY <1>3 DEF DeltaIn
<1> HIDE DEF op
<1>10. Delta(db[at][op.key], op) =
         [type |-> "NONNEGATIVE_INT64_SET_ADD", delta |-> op.d,
          set_value |-> IF db[at][op.key] = NoObject THEN 0 ELSE db[at][op.key].value]
  BY <1>4 DEF Delta
<1> QED BY <1>5, <1>6, <1>7, <1>8, <1>9, <1>10

\* The amounts of every transaction add up to zero, and so do those of the block.
LEMMA PaymentsCancel ==
  ASSUME Types, IsFiniteSet(txset), OnlyPayments
  PROVE  SumFunctionOnSet(Moved, Names) = 0
<1>1. IsFiniteSet(Names)
  BY NamesFinite
<1>2. \A x \in Names : Moved[x] \in Int
  BY PaymentDelta
<1> DEFINE h == [x \in Names |-> <<x[1], x[2]>>]
           Of(e) == {x \in Names : h[x] = e}
           s == [e \in txset |-> SumFunctionOnSet(Moved, Of(e))]
<1>3. \A x \in Names : h[x] \in txset
  <2> TAKE x \in Names
  <2>1. PICK e \in txset : \E m \in 1 .. Width(entries, e[1]) : x = <<e[1], e[2], m>>
    BY ListedName
  <2>2. x[1] = e[1] /\ x[2] = e[2] /\ e = <<e[1], e[2]>>
    BY <2>1, ListedEntry
  <2> QED BY <2>2
<1>4. ASSUME NEW e \in txset PROVE SumFunctionOnSet(Moved, Of(e)) = 0
  <2> DEFINE W == Width(entries, e[1])
             p == [x \in Of(e) |-> x[3]]
             w == Writes(entries[e[1]].tx)
             g == [m \in 1 .. W |-> SumFunctionOnSet(Moved, {x \in Of(e) : p[x] = m})]
             d == [i \in DOMAIN w |-> w[i].d]
  <2>1. /\ e = <<e[1], e[2]>> /\ W \in Nat /\ DOMAIN w = 1 .. W
    BY ListedEntry
  <2>2. ASSUME NEW x \in Of(e) PROVE x = <<e[1], e[2], x[3]>> /\ x[3] \in 1 .. W
    <3>1. x \in Names /\ <<x[1], x[2]>> = e
      BY <2>2
    <3>0. PICK b \in txset : \E m \in 1 .. Width(entries, b[1]) : x = <<b[1], b[2], m>>
      BY <3>1, ListedName
    <3>2. PICK m \in 1 .. Width(entries, b[1]) : x = <<b[1], b[2], m>>
      BY <3>0
    <3>3. x[1] = b[1] /\ x[2] = b[2] /\ x[3] = m
      BY <3>2
    <3>4. b[1] = e[1] /\ b[2] = e[2]
      BY <3>1, <3>3
    <3> QED BY <3>2, <3>3, <3>4
  <2>3. ASSUME NEW m \in 1 .. W
        PROVE  /\ {x \in Of(e) : p[x] = m} = {<<e[1], e[2], m>>}
               /\ Moved[<<e[1], e[2], m>>] = d[m] /\ d[m] \in Int
    <3> DEFINE y == <<e[1], e[2], m>>
    <3>1. y \in Names
      BY ListedName
    <3>2. y[1] = e[1] /\ y[2] = e[2] /\ y[3] = m
      OBVIOUS
    <3>3. y \in Of(e) /\ p[y] = m
      BY <3>1, <3>2, <2>1
    <3>4. \A x \in Of(e) : p[x] = m => x = y
      BY <2>2
    <3>5. {x \in Of(e) : p[x] = m} = {y}
      BY <3>3, <3>4
    <3>6. Moved[y] = w[m].d
      BY <3>1, <3>2 DEF Moved
    <3>7. d[m] = w[m].d
      BY <2>1
    <3>8. Moved[y] \in Int
      BY <3>1, PaymentDelta
    <3> QED BY <3>5, <3>6, <3>7, <3>8
  <2>4. IsFiniteSet(Of(e)) /\ IsFiniteSet(1 .. W)
    <3>1. Of(e) \subseteq Names
      OBVIOUS
    <3> HIDE DEF Of, W
    <3>2. IsFiniteSet(Of(e))
      BY <1>1, <3>1, FS_Subset
    <3>3. IsFiniteSet(1 .. W)
      BY <2>1, FS_Interval
    <3> QED BY <3>2, <3>3
  <2>5. \A x \in Of(e) : p[x] \in 1 .. W
    BY <2>2
  <2>6. \A x \in Of(e) : Moved[x] \in Int
    BY <1>2
  <2> DEFINE N == 1 .. W
             Q == Of(e)
  <2>7. SumFunctionOnSet([m \in N |-> SumFunctionOnSet(Moved, {x \in Q : p[x] = m})], N)
          = SumFunctionOnSet(Moved, Q)
    <3> HIDE DEF Q, N, p
    <3>1. IsFiniteSet(Q) /\ IsFiniteSet(N) /\ (\A x \in Q : p[x] \in N) /\ \A x \in Q : Moved[x] \in Int
      BY <2>4, <2>5, <2>6 DEF Q, N
    <3> QED BY <3>1, SumOfClasses
  <2>8. \A m \in N : g[m] \in Int /\ g[m] = d[m]
    <3> TAKE m \in N
    <3> DEFINE y == <<e[1], e[2], m>>
               S == {x \in Of(e) : p[x] = m}
    <3>1. S = {y} /\ Moved[y] = d[m] /\ d[m] \in Int
      BY <2>3
    <3>2. g[m] = SumFunctionOnSet(Moved, S)
      OBVIOUS
    <3> HIDE DEF y, S, g, d
    <3>3. SumFunctionOnSet(Moved, {y}) = Moved[y]
      BY <3>1, SumOne
    <3> QED BY <3>1, <3>2, <3>3
  <2>9. SumFunctionOnSet(d, DOMAIN w) = 0
    BY DEF OnlyPayments, Moves
  <2>10. SumFunctionOnSet(g, N) = SumFunctionOnSet(d, N)
    <3> HIDE DEF g, d, N
    <3>1. IsFiniteSet(N)
      BY <2>4 DEF N
    <3> QED BY <3>1, <2>8, SumEq
  <2> QED BY <2>1, <2>7, <2>9, <2>10
<1>5. SumFunctionOnSet(s, txset) = SumFunctionOnSet(Moved, Names)
  <2> HIDE DEF h
  <2> QED BY <1>1, <1>2, <1>3, SumOfClasses
<1>6. SumFunctionOnSet(s, txset) = 0
  <2>1. \A e \in txset : s[e] = 0
    BY <1>4
  <2> HIDE DEF s
  <2> QED BY <2>1, SumZero
<1> QED BY <1>5, <1>6

\* What a block of payments makes of one balance.
LEMMA BalanceAfter ==
  ASSUME BlockInv, LegalInv, stage # "idle", AllIdle, OnlyPayments, NEW key \in Keys,
         Balance(db[at][key]) \in 0 .. MaxInt - 1
  PROVE  LET sum == SumFunctionOnSet(Moved, {x \in Names : KeyIn(entries, x) = key})
             new == Balance(db[at][key]) + sum
         IN  /\ sum \in Int /\ new >= 0
             /\ Balance(Committed(key)) = IF MaxInt <= new THEN MaxInt ELSE new
<1> DEFINE C == {x \in Names : KeyIn(entries, x) = key}
           sum == SumFunctionOnSet(Moved, C)
           object == db[at][key]
           E == Effects(entries, db[at])
           D == AllDeltas(C)
           v == IF object = NoObject THEN 0 ELSE object.value
<1>1. Types /\ MaxInt \in Nat /\ Balance(object) \in Nat /\ Balance(object) < MaxInt
  BY BlockAssumption DEF BlockInv
<1>2. objs[at][key].held = {} /\ objs[at][key].done = C /\ (C # {} => key \in logged)
  <2>1. AllOrNothing
    BY SettledIsListed
  <2>2. {name \in Names : KeyOf(name) = key} = C
    BY KeyOfIsKeyIn
  <2> QED BY <2>1, <2>2 DEF AllOrNothing
<1>3. IsFiniteSet(C)
  <2>1. IsFiniteSet(Names)
    BY <1>1, NamesFinite DEF LegalInv
  <2> QED BY <2>1, FS_Subset
<1>4. sum \in Int
  <2>1. \A x \in C : Moved[x] \in Int
    BY <1>1, PaymentDelta
  <2> HIDE DEF C
  <2> QED BY <1>3, <2>1, SumInt
<1>5. objs[at][key].held \cup objs[at][key].done = C
  BY <1>2
<1>6. Committed(key) = IF key \in logged THEN Outcome(object, D, C) ELSE object
  BY <1>5 DEF Committed
<1>7. CASE C = {}
  <2>1. sum = 0
    BY <1>7, SumEmpty
  <2>2. Outcome(object, D, C) = object
    BY <1>7 DEF Outcome
  <2>3. Committed(key) = object
    BY <1>6, <2>2
  <2> HIDE DEF sum, object
  <2> QED BY <1>1, <2>1, <2>3 DEF sum, object
<1>8. CASE C # {}
  <2>1. ASSUME NEW x \in C
        PROVE  /\ E[x] = [type |-> "NONNEGATIVE_INT64_SET_ADD", delta |-> Moved[x], set_value |-> v]
               /\ D[x] = E[x] /\ Moved[x] \in Int
    <3>1. x \in Names /\ KeyIn(entries, x) = key /\ x \in NameSet /\ Moved[x] \in Int
      BY <2>1, <1>1, PaymentDelta
    <3>2. DeltaIn(entries, db[at], x) =
            [type |-> "NONNEGATIVE_INT64_SET_ADD", delta |-> Moved[x], set_value |-> v]
      BY <3>1, <1>1, PaymentDelta
    <3>3. E[x] = DeltaIn(entries, db[at], x)
      BY <3>1 DEF Effects
    <3>4. C \subseteq NameSet
      BY <1>1, PaymentDelta
    <3>5. D[x] = E[x]
      <4> HIDE DEF C
      <4> QED BY <2>1, <3>4, EffectsAre
    <3> QED BY <3>1, <3>2, <3>3, <3>5
  <2>2. Legal(object, E, C)
    <3>1. {} \in SUBSET objs[at][key].held /\ objs[at][key].done \cup {} = C
      BY <1>2
    <3> QED BY <3>1, <1>8 DEF LegalInv, OutcomesLegal
  <2> DEFINE fields(r, a) == r.type = "NONNEGATIVE_INT64_SET_ADD" /\ r.delta = a /\ r.set_value = v
  <2>2a. \A x \in C : fields(E[x], Moved[x]) /\ D[x] = E[x] /\ Moved[x] \in Int
    <3> TAKE x \in C
    <3>1. /\ E[x] = [type |-> "NONNEGATIVE_INT64_SET_ADD", delta |-> Moved[x], set_value |-> v]
          /\ D[x] = E[x] /\ Moved[x] \in Int
      BY <2>1
    <3> HIDE DEF E, D, v, C
    <3> QED BY <3>1
  <2> HIDE DEF C, E, D, object, v
  <2>3. OfType(E, C, "NONNEGATIVE_INT64_SET_ADD") = C /\ Touching(E, C) = C /\ Touching(D, C) = C
    BY <2>2a DEF OfType, Touching
  <2>4. ASSUME NEW F, \A x \in C : F[x] = E[x] PROVE Total(F, C) = sum
    <3> DEFINE f == [o \in C |-> Amount(F[o])]
    <3>1. \A x \in C : f[x] = Moved[x] /\ f[x] \in Int
      BY <2>2a, <2>4 DEF Amount
    <3> HIDE DEF f
    <3>2. SumFunctionOnSet(f, C) = sum
      BY <1>3, <3>1, SumEq
    <3> QED BY <3>2 DEF Total, f
  <2>5. Total(E, C) = sum /\ Total(D, C) = sum
    BY <2>2a, <2>4
  <2>6. \A x \in C : DeltaClass(E[x]) = [type |-> "NONNEGATIVE_INT64", value |-> v]
    BY <2>2a DEF DeltaClass
  <2>7. PICK y \in C : TRUE
    BY <1>8
  <2>8. object = NoObject \/ object.type = "NONNEGATIVE_INT64"
    <3>1. TypeAllowed(object, DeltaClass(E[y]))
      BY <2>2, <2>3, <2>7 DEF Legal
    <3> QED BY <3>1, <2>6, <2>7 DEF TypeAllowed
  <2>9. Balance(object) = v
    BY <2>8 DEF Balance, v, NoObject
  <2>10. v \in Nat
    BY <1>1, <2>9 DEF object
  <2>11. v + sum >= 0
    <3>1. E[y].set_value >= 0 => E[y].set_value + Total(E, C) >= 0
      BY <2>2, <2>3, <2>7 DEF Legal
    <3>2. E[y].set_value = v
      BY <2>2a, <2>7
    <3> QED BY <3>1, <3>2, <2>5, <2>10
  <2>12. Outcome(object, D, C) = [type |-> "NONNEGATIVE_INT64", value |-> Min({MaxInt, v + sum})]
    <3> DEFINE dc == DeltaClass(D[CHOOSE o \in C : TRUE])
    <3>1. (CHOOSE o \in C : TRUE) \in C
      BY <1>8, Zenon
    <3>2. dc = [type |-> "NONNEGATIVE_INT64", value |-> v]
      BY <3>1, <2>2a, <2>6
    <3>3. Outcome(object, D, C) = [dc EXCEPT !.value = Min({MaxInt, dc.value + Total(D, C)})]
      <4>1. dc.type = "NONNEGATIVE_INT64"
        BY <3>2
      <4> QED BY <4>1, <1>8, <2>3 DEF Outcome
    <3> HIDE DEF dc
    <3>4. dc.value = v
      BY <3>2
    <3> DEFINE m == Min({MaxInt, v + sum})
    <3>5. Outcome(object, D, C) = [dc EXCEPT !.value = m]
      BY <3>3, <3>4, <2>5
    <3> HIDE DEF m
    <3>6. [dc EXCEPT !.value = m] = [type |-> "NONNEGATIVE_INT64", value |-> m]
      BY <3>2
    <3> QED BY <3>5, <3>6 DEF m
  <2>13. Min({MaxInt, v + sum}) = IF MaxInt <= v + sum THEN MaxInt ELSE v + sum
    <3>1. MaxInt \in Int /\ v + sum \in Int
      BY <1>1, <1>4, <2>10
    <3> QED BY <3>1, MinPair
  <2>14. Balance(Committed(key)) = Min({MaxInt, v + sum})
    BY <1>2, <1>6, <1>8, <2>12 DEF Balance
  <2> HIDE DEF sum
  <2> QED BY <1>4, <2>9, <2>11, <2>13, <2>14 DEF sum, C, object
<1> QED BY <1>7, <1>8

\* The end of a block of payments.
LEMMA CommitConserves ==
  ASSUME BlockInv, LegalInv, stage # "idle", AllIdle, CommitBlock, OnlyPayments, Solvent(db[at])
  PROVE  Money(db'[at]) = Money(db[at]) /\ Solvent(db'[at])
<1> DEFINE k == [x \in Names |-> KeyIn(entries, x)]
           b == [key \in Keys |-> Balance(db[at][key])]
           T == [key \in Keys |-> SumFunctionOnSet(Moved, {x \in Names : k[x] = key})]
           c == [key \in Keys |-> b[key] + T[key]]
           n == [key \in Keys |-> Balance(db'[at][key])]
<1>1. Types /\ IsFiniteSet(txset) /\ DOMAIN db = Nodes /\ IsFiniteSet(Keys) /\ MaxInt \in Nat /\ at \in Nodes
  BY BlockAssumption DEF BlockInv, LegalInv, Types
<1>2. \A key \in Keys : db'[at][key] = Committed(key)
  <2>1. db'[at] = [key \in Keys |-> Committed(key)]
    BY <1>1 DEF CommitBlock
  <2> QED BY <2>1
<1>3. ASSUME NEW key \in Keys
      PROVE  /\ b[key] \in Nat /\ T[key] \in Int /\ c[key] \in Nat
             /\ n[key] = IF MaxInt <= c[key] THEN MaxInt ELSE c[key]
  <2> DEFINE sum == SumFunctionOnSet(Moved, {x \in Names : KeyIn(entries, x) = key})
  <2>1. Balance(db[at][key]) \in 0 .. MaxInt - 1
    BY DEF Solvent
  <2>2. /\ sum \in Int /\ Balance(db[at][key]) + sum >= 0
        /\ Balance(Committed(key)) = IF MaxInt <= Balance(db[at][key]) + sum THEN MaxInt
                                     ELSE Balance(db[at][key]) + sum
    BY <2>1, BalanceAfter
  <2>3. {x \in Names : k[x] = key} = {x \in Names : KeyIn(entries, x) = key}
    OBVIOUS
  <2>4. T[key] = sum
    BY <2>3
  <2>5. b[key] = Balance(db[at][key]) /\ c[key] = b[key] + sum /\ n[key] = Balance(Committed(key))
    BY <2>4, <1>2
  <2> HIDE DEF sum, b, T, c, n, k
  <2> QED BY <1>1, <2>1, <2>2, <2>4, <2>5
<1>4. SumFunctionOnSet(T, Keys) = 0
  <2>1. IsFiniteSet(Names)
    BY <1>1, NamesFinite
  <2>2. \A x \in Names : Moved[x] \in Int /\ k[x] \in Keys
    BY <1>1, PaymentDelta
  <2>3. SumFunctionOnSet(Moved, Names) = 0
    BY <1>1, PaymentsCancel
  <2> HIDE DEF k
  <2> QED BY <1>1, <2>1, <2>2, <2>3, SumOfClasses
<1>5. \A key \in Keys : c[key] = b[key] + T[key]
  OBVIOUS
<1>6. Money(db[at]) = SumFunctionOnSet(b, Keys) /\ Money(db'[at]) = SumFunctionOnSet(n, Keys)
  BY DEF Money
<1>7. SumFunctionOnSet(b, Keys) < MaxInt
  BY <1>6 DEF Solvent
<1> HIDE DEF b, T, c, n, k
<1>8. SumFunctionOnSet(c, Keys) = SumFunctionOnSet(b, Keys) + SumFunctionOnSet(T, Keys)
  BY <1>1, <1>3, <1>5, SumPlus
<1>9. SumFunctionOnSet(b, Keys) \in Int
  BY <1>1, <1>3, SumInt
<1>10. SumFunctionOnSet(c, Keys) = SumFunctionOnSet(b, Keys)
  BY <1>4, <1>8, <1>9
<1>11. ASSUME NEW key \in Keys PROVE c[key] < MaxInt /\ n[key] = c[key] /\ n[key] \in Nat
  <2>1. c[key] <= SumFunctionOnSet(c, Keys)
    BY <1>1, <1>3, SumTerm
  <2>2. c[key] \in Nat
    BY <1>3
  <2>3. c[key] < MaxInt
    BY <2>1, <2>2, <1>1, <1>7, <1>9, <1>10
  <2> QED BY <2>2, <2>3, <1>1, <1>3
<1>12. SumFunctionOnSet(n, Keys) = SumFunctionOnSet(c, Keys)
  BY <1>1, <1>11, SumEq
<1>13. \A key \in Keys : Balance(db'[at][key]) \in 0 .. MaxInt - 1
  BY <1>1, <1>11 DEF n
<1> QED BY <1>6, <1>7, <1>10, <1>12, <1>13 DEF Solvent

\* A block whose transactions only move money between balances, whatever it is
\* made of and whoever executes it, leaves as much money as there was, unless
\* what there is in all would reach INT64_MAX, where balances are capped: no
\* payment is lost or counted twice between the push of its deltas, their
\* commit, the log of its keys and commit_modifications.
THEOREM PaymentsConserveMoney == Spec => MoneyConserved
<1> DEFINE A == /\ (\A e \in txset : Moves(entries[e[1]].tx)) /\ db' # db /\ Solvent(db[at])
                => Money(db'[at]) = Money(db[at]) /\ Solvent(db'[at])
<1>1. BlockInv /\ LegalInv /\ [Next]_vars => [A]_vars
  <2> SUFFICES ASSUME BlockInv, LegalInv, Next,
                      \A e \in txset : Moves(entries[e[1]].tx), db' # db, Solvent(db[at])
               PROVE  Money(db'[at]) = Money(db[at]) /\ Solvent(db'[at])
    OBVIOUS
  <2>1. CASE \/ \E m \in Nodes, pool \in Pools : Propose(m, pool)
             \/ \E m \in Nodes : Validate(m)
             \/ \E m \in Nodes, block \in ForeignBlocks : ValidateForeign(m, block)
    BY <2>1 DEF Propose, Validate, ValidateForeign, StartBlock
  <2>2. ASSUME NEW t \in Threads, Work(t) PROVE db' = db
    BY <2>2 DEF Work, Execute, Run, Push, AddTx, CommitOne, LogKeys, UndoOne, Undone, Fetch,
                TakeRange, ReadError, StoreError, machine
  <2>3. CASE Finish
    <3>1. CommitBlock /\ AllIdle /\ stage # "idle"
      BY <2>3 DEF Finish, FinishProposal, Accept, Reject, Joined
    <3> QED BY <3>1, CommitConserves DEF OnlyPayments
  <2> QED BY <2>1, <2>2, <2>3 DEF Next
<1> QED BY <1>1, BlockInvariant, AnyOutcomeOfABlockIsLegal, PTL DEF Spec, MoneyConserved

-----------------------------------------------------------------------------
(* What one machine proposes, another accepts                              *)

\* Programs that add to integers, set them, write memory and delete.  Assets
\* are left out: no system call leads to them, and which withdrawals an object
\* admits depends on the deposits that have committed (revertable_object.cc:500).
\* So are insertions: the table of a machine may be full of what its reverted
\* insertions left.
SimplePrograms ==
    \A tx \in Txs : \A i \in DOMAIN Writes(tx) :
      LET op == Writes(tx)[i]
      IN  \/ op.op \in {"add", "write", "delete"}
          \/ /\ op.op = "set_add"
             /\ op.d \in MinInt .. MaxInt /\ op.set_value \in MinInt .. MaxInt
Whole(object) ==
    /\ object.type = "NONNEGATIVE_INT64" => object.value \in Int
    /\ Supply(object) \in 0 .. MaxUint
WholeGenesis == \A n \in Nodes, key \in Keys : Whole(Genesis[n][key])
\* A UniqueTxSet refuses the second execution of a transaction, the other does not.
OneKind == Sisyphus = {} \/ Sisyphus = Nodes
Agreeable == SimplePrograms /\ WholeGenesis /\ OneKind

\* The deltas of such programs.
Plain(d) ==
    \/ d.type = "NONNEGATIVE_INT64_SET_ADD" /\ d.delta \in Int /\ d.set_value \in Int
    \/ d.type = "RAW_MEMORY_WRITE"
    \/ d.type = "DELETE_LAST"

\* Deltas each of which is admitted beside any of the others: they agree on what
\* the object is, and it is not below zero after all reductions.
Reductions(D, C) == {x \in C : D[x].type = "NONNEGATIVE_INT64_SET_ADD" /\ D[x].delta < 0}
Firm(object, D, C) ==
    /\ IsFiniteSet(C)
    /\ \A x \in C : Plain(D[x])
    /\ \A x, y \in Touching(D, C) : DeltaClass(D[x]) = DeltaClass(D[y])
    /\ \A x \in Touching(D, C) : TypeAllowed(object, DeltaClass(D[x]))
    /\ \A x \in Reductions(D, C) : D[x].set_value >= 0
    /\ \A x \in OfType(D, C, "NONNEGATIVE_INT64_SET_ADD") :
         D[x].set_value >= 0 => D[x].set_value + Total(D, Reductions(D, C)) >= 0

FirmInv ==
    \A key \in Keys :
      Firm(db[at][key], Effects(entries, db[at]), objs[at][key].held \cup objs[at][key].done)
WholeInv == \A n \in Nodes, key \in Keys : Whole(db[n][key])

\* What has been pushed or listed ran without a HostError, and a UniqueTxSet
\* lists no transaction twice.
Fails(state, tx) == \E i \in DOMAIN Writes(tx) : Refuses(state[Writes(tx)[i].key], Writes(tx)[i])
RanInv ==
    /\ \A t \in Threads : th[t].pc \in Busy => ~Fails(db[at], entries[th[t].i].tx)
    /\ \A e \in txset : ~Fails(db[at], entries[e[1]].tx)
UniqueInv ==
    at \in Sisyphus => \A e, f \in txset : entries[e[1]].tx = entries[f[1]].tx => e = f

\* Errors are found by validation alone.
ErrorInv ==
    /\ stage \in {"idle", "assembling", "validating"}
    /\ \A t \in Threads : th[t].pc = "idle" => th[t].err = FALSE
    /\ stage # "validating" => found_error = FALSE /\ \A t \in Threads : th[t].pc \notin {"read", "store"}

\* The deltas of a block on a key, when all its transactions execute.
NamesOn(list, key) ==
    {x \in NameSet : /\ x[1] \in 1 .. Len(list) /\ x[2] \in 1 .. list[x[1]].n
                     /\ x[3] \in 1 .. Width(list, x[1]) /\ KeyIn(list, x) = key}

\* A block that was proposed executes on the state it was proposed for, and what
\* it makes of that state is what the proposer made of it.
GoodBlock(block, before, after) ==
    /\ \A i \in 1 .. Len(block) :
         /\ block[i].n \in Nat \ {0} /\ block[i].unused = FALSE /\ (Sisyphus # {} => block[i].n = 1)
         /\ ~Fails(before, block[i].tx)
    /\ \A i, j \in 1 .. Len(block) : block[i].tx = block[j].tx => i = j
    /\ \A key \in Keys : Firm(before[key], Effects(block, before), NamesOn(block, key))
    /\ after = [key \in Keys |->
                  Outcome(before[key], Effects(block, before), NamesOn(block, key))]
OfferInv == offer # NoOffer => GoodBlock(offer.block, offer.before, offer.after)

\* While it is validated on that state nothing fails, and every execution is
\* listed or lies before a thread.
Before(t, i, j) ==
    /\ Executes(t)
    /\ \/ th[t].i < i /\ i <= th[t].hi
       \/ th[t].i = i /\ (th[t].j < j \/ (th[t].j = j /\ th[t].pc # "commit"))
Smooth ==
    /\ found_error = FALSE
    /\ \A t \in Threads : th[t].err = FALSE /\ th[t].pc # "undo"
    /\ \A t \in Threads : Executes(t) => th[t].j \in 1 .. entries[th[t].i].n
    /\ \A e \in txset : e[2] \in 1 .. entries[e[1]].n
    /\ \A i \in 1 .. next - 1 : \A j \in 1 .. entries[i].n :
         <<i, j>> \in txset \/ \E t \in Threads : Before(t, i, j)
ValidInv ==
    stage = "validating" /\ offer # NoOffer =>
      entries = offer.block /\ (db[at] = offer.before => Smooth)

AgreeInv == Agreeable /\ FirmInv /\ WholeInv /\ RanInv /\ UniqueInv /\ ErrorInv /\ OfferInv /\ ValidInv

-----------------------------------------------------------------------------
(* Deltas that are admitted in any order                                   *)

\* What a delta is about.
LEMMA PlainClass ==
  ASSUME NEW d, Plain(d)
  PROVE  /\ d.type = "NONNEGATIVE_INT64_SET_ADD" =>
              /\ DeltaClass(d) = [type |-> "NONNEGATIVE_INT64", value |-> d.set_value]
              /\ d.delta \in Int /\ d.set_value \in Int /\ Amount(d) = d.delta
         /\ d.type = "RAW_MEMORY_WRITE" =>
              DeltaClass(d) = [type |-> "RAW_MEMORY", value |-> d.data]
         /\ d.type \in {"NONNEGATIVE_INT64_SET_ADD", "RAW_MEMORY_WRITE", "DELETE_LAST"}
         /\ d.type # "ASSET_OBJECT_ADD" /\ d.type # "HASH_SET_INSERT"
BY DEF Plain, DeltaClass, Amount

\* Integer deltas that agree on what the object is name the same value.
LEMMA SameBase ==
  ASSUME NEW d, NEW e, Plain(d), Plain(e), DeltaClass(d) = DeltaClass(e),
         d.type = "NONNEGATIVE_INT64_SET_ADD", e.type # "DELETE_LAST"
  PROVE  e.type = "NONNEGATIVE_INT64_SET_ADD" /\ d.set_value = e.set_value
<1>1. DeltaClass(d).type = "NONNEGATIVE_INT64" /\ DeltaClass(d).value = d.set_value
  BY PlainClass
<1>2. CASE e.type = "RAW_MEMORY_WRITE"
  <2>1. DeltaClass(e).type = "RAW_MEMORY"
    BY <1>2, PlainClass
  <2> QED BY <1>1, <2>1
<1>3. CASE e.type = "NONNEGATIVE_INT64_SET_ADD"
  <2>1. DeltaClass(e).value = e.set_value
    BY <1>3, PlainClass
  <2> QED BY <1>1, <1>3, <2>1
<1> QED BY <1>2, <1>3, PlainClass

\* No integer is lower than after all the reductions.
LEMMA ReductionsAreLeast ==
  ASSUME NEW D, NEW C, IsFiniteSet(C), \A x \in C : Plain(D[x]),
         NEW T, T \subseteq OfType(D, C, "NONNEGATIVE_INT64_SET_ADD")
  PROVE  /\ Total(D, T) \in Int /\ Total(D, Reductions(D, C)) \in Int
         /\ Total(D, Reductions(D, C)) <= Total(D, T)
<1> DEFINE I == OfType(D, C, "NONNEGATIVE_INT64_SET_ADD")
           R == Reductions(D, C)
           a(S) == [x \in S |-> Amount(D[x])]
           low == [x \in I |-> IF x \in R THEN Amount(D[x]) ELSE 0]
           up == [x \in I |-> IF x \in T THEN Amount(D[x]) ELSE 0]
<1>1. I \subseteq C /\ R \subseteq I /\ T \subseteq I
  BY DEF OfType, Reductions
<1>2. IsFiniteSet(I) /\ IsFiniteSet(R) /\ IsFiniteSet(T)
  BY <1>1, FS_Subset
<1>3. \A x \in I : /\ Amount(D[x]) \in Int
                   /\ x \in R <=> Amount(D[x]) < 0
  <2> TAKE x \in I
  <2>1. x \in C /\ D[x].type = "NONNEGATIVE_INT64_SET_ADD"
    BY DEF OfType
  <2>2. Amount(D[x]) = D[x].delta /\ D[x].delta \in Int
    BY <2>1, PlainClass
  <2> QED BY <2>1, <2>2 DEF Reductions
<1> HIDE DEF I, R
<1>4. \A x \in I : low[x] \in Int /\ up[x] \in Int /\ low[x] <= up[x]
  BY <1>3
<1>5. SumFunctionOnSet(low, I) <= SumFunctionOnSet(up, I)
  <2> HIDE DEF low, up
  <2> QED BY <1>2, <1>4, SumLe
<1>6. SumFunctionOnSet(low, I) = SumFunctionOnSet(low, R)
  <2>1. \A x \in I \ R : low[x] = 0
    OBVIOUS
  <2> HIDE DEF low
  <2> QED BY <2>1, <1>1, <1>2, <1>4, SumSupport
<1>7. SumFunctionOnSet(up, I) = SumFunctionOnSet(up, T)
  <2>1. \A x \in I \ T : up[x] = 0
    OBVIOUS
  <2> HIDE DEF up
  <2> QED BY <2>1, <1>1, <1>2, <1>4, SumSupport
<1>8. SumFunctionOnSet(low, R) = SumFunctionOnSet(a(R), R)
  <2>1. \A x \in R : low[x] \in Int /\ low[x] = a(R)[x]
    BY <1>1, <1>3
  <2> HIDE DEF low, a
  <2> QED BY <2>1, <1>2, SumEq
<1>9. SumFunctionOnSet(up, T) = SumFunctionOnSet(a(T), T)
  <2>1. \A x \in T : up[x] \in Int /\ up[x] = a(T)[x]
    BY <1>1, <1>3
  <2> HIDE DEF up, a
  <2> QED BY <2>1, <1>2, SumEq
<1>10. SumFunctionOnSet(a(R), R) \in Int /\ SumFunctionOnSet(a(T), T) \in Int
  <2>1. (\A x \in R : a(R)[x] \in Int) /\ (\A x \in T : a(T)[x] \in Int)
    BY <1>1, <1>3
  <2> HIDE DEF a
  <2> QED BY <2>1, <1>2, SumInt
<1>11. Total(D, R) = SumFunctionOnSet(a(R), R) /\ Total(D, T) = SumFunctionOnSet(a(T), T)
  BY DEF Total
<1> HIDE DEF a, low, up
<1>12. Total(D, R) \in Int /\ Total(D, T) \in Int /\ Total(D, R) <= Total(D, T)
  BY <1>5, <1>6, <1>7, <1>8, <1>9, <1>10, <1>11
<1> QED BY <1>12 DEF R

\* A delta may be taken away.
LEMMA FirmSubset ==
  ASSUME NEW object, NEW D, NEW C, Firm(object, D, C), NEW S, S \subseteq C
  PROVE  Firm(object, D, S)
<1> DEFINE int == "NONNEGATIVE_INT64_SET_ADD"
<1>1. IsFiniteSet(C) /\ \A x \in C : Plain(D[x])
  BY DEF Firm
<1>2. IsFiniteSet(S)
  BY <1>1, FS_Subset
<1>3. /\ Touching(D, S) \subseteq Touching(D, C)
      /\ Reductions(D, S) \subseteq Reductions(D, C)
      /\ OfType(D, S, int) \subseteq OfType(D, C, int)
      /\ Reductions(D, S) \subseteq OfType(D, C, int)
  BY DEF Touching, Reductions, OfType
<1>4. /\ Total(D, Reductions(D, S)) \in Int /\ Total(D, Reductions(D, C)) \in Int
      /\ Total(D, Reductions(D, C)) <= Total(D, Reductions(D, S))
  BY <1>1, <1>3, ReductionsAreLeast
<1>5. ASSUME NEW x \in OfType(D, S, int), D[x].set_value >= 0
      PROVE  D[x].set_value + Total(D, Reductions(D, S)) >= 0
  <2>1. x \in OfType(D, C, int) /\ x \in C /\ D[x].type = int
    BY <1>3 DEF OfType
  <2>2. D[x].set_value \in Int
    BY <1>1, <2>1, PlainClass
  <2>3. D[x].set_value + Total(D, Reductions(D, C)) >= 0
    BY <1>5, <2>1 DEF Firm
  <2> QED BY <1>4, <2>2, <2>3
<1>6. /\ \A x, y \in Touching(D, S) : DeltaClass(D[x]) = DeltaClass(D[y])
      /\ \A x \in Touching(D, S) : TypeAllowed(object, DeltaClass(D[x]))
      /\ \A x \in Reductions(D, S) : D[x].set_value >= 0
  BY <1>3 DEF Firm
<1> QED BY <1>1, <1>2, <1>5, <1>6 DEF Firm

\* Whichever of them commit, the object gets a legal value.
LEMMA FirmLegal ==
  ASSUME NEW object, Supply(object) \in 0 .. MaxUint,
         NEW D, NEW C, Firm(object, D, C), NEW S, S \subseteq C
  PROVE  Legal(object, D, S)
<1> DEFINE ints == OfType(D, S, "NONNEGATIVE_INT64_SET_ADD")
           assets == OfType(D, S, "ASSET_OBJECT_ADD")
           inserts == OfType(D, S, "HASH_SET_INSERT")
<1>1. IsFiniteSet(C) /\ \A x \in C : Plain(D[x])
  BY DEF Firm
<1>2. assets = {} /\ inserts = {}
  BY <1>1, PlainClass DEF OfType
<1>3. /\ Touching(D, S) \subseteq Touching(D, C)
      /\ ints \subseteq OfType(D, C, "NONNEGATIVE_INT64_SET_ADD")
  BY DEF Touching, OfType
<1>4. /\ Total(D, ints) \in Int /\ Total(D, Reductions(D, C)) \in Int
      /\ Total(D, Reductions(D, C)) <= Total(D, ints)
  BY <1>1, <1>3, ReductionsAreLeast
<1>5. ASSUME NEW x \in ints, D[x].set_value >= 0
      PROVE  D[x].set_value + Total(D, ints) >= 0
  <2>1. x \in OfType(D, C, "NONNEGATIVE_INT64_SET_ADD") /\ x \in C
        /\ D[x].type = "NONNEGATIVE_INT64_SET_ADD"
    BY <1>3 DEF OfType
  <2>2. D[x].set_value \in Int
    BY <1>1, <2>1, PlainClass
  <2>3. D[x].set_value + Total(D, Reductions(D, C)) >= 0
    BY <1>5, <2>1 DEF Firm
  <2> QED BY <1>4, <2>2, <2>3
<1>6. Supply(object) + Total(D, assets) \in 0 .. MaxUint
  <2>1. Total(D, assets) = 0
    BY <1>2, SumEmpty DEF Total
  <2>2. Supply(object) \in Int
    BY BlockAssumption DEF MaxUint
  <2> HIDE DEF assets
  <2> QED BY <2>1, <2>2
<1>7. /\ \A x, y \in Touching(D, S) : DeltaClass(D[x]) = DeltaClass(D[y])
      /\ \A x \in Touching(D, S) : TypeAllowed(object, DeltaClass(D[x]))
  BY <1>3 DEF Firm
<1> QED BY <1>2, <1>5, <1>6, <1>7 DEF Legal

\* A delta that try_add_delta admits makes them no less so.
LEMMA AdmittedIsFirm ==
  ASSUME NEW object, NEW D, NEW C, Firm(object, D, C), NEW x, Plain(D[x]),
         Legal(object, D, C \cup {x}),
         D[x].type = "NONNEGATIVE_INT64_SET_ADD" /\ D[x].delta < 0 =>
           D[x].set_value >= 0 /\ Legal(object, D, Reductions(D, C) \cup {x})
  PROVE  Firm(object, D, C \cup {x})
<1> DEFINE int == "NONNEGATIVE_INT64_SET_ADD"
           B == C \cup {x}
           R == Reductions(D, C)
<1>1. IsFiniteSet(C) /\ \A y \in C : Plain(D[y])
  BY DEF Firm
<1>2. IsFiniteSet(B) /\ \A y \in B : Plain(D[y])
  BY <1>1, FS_AddElement
<1>3. /\ \A y, z \in Touching(D, B) : DeltaClass(D[y]) = DeltaClass(D[z])
      /\ \A y \in Touching(D, B) : TypeAllowed(object, DeltaClass(D[y]))
  BY DEF Legal
<1>4. \A y \in OfType(D, B, int) : y \in B /\ y \in Touching(D, B) /\ D[y].type = int
  BY DEF OfType, Touching
<1>5. \A y, z \in OfType(D, B, int) : D[y].set_value = D[z].set_value
  <2> TAKE y, z \in OfType(D, B, int)
  <2>1. Plain(D[y]) /\ Plain(D[z]) /\ D[y].type = int /\ D[z].type = int
        /\ DeltaClass(D[y]) = DeltaClass(D[z])
    BY <1>2, <1>3, <1>4
  <2> QED BY <2>1, SameBase
<1>6. CASE D[x].type = int /\ D[x].delta < 0
  <2>1. Reductions(D, B) = R \cup {x} /\ x \in OfType(D, B, int)
    BY <1>6 DEF Reductions, OfType
  <2>2. OfType(D, R \cup {x}, int) = R \cup {x}
    BY <1>6 DEF Reductions, OfType
  <2>3. D[x].set_value >= 0 /\ Legal(object, D, R \cup {x})
    BY <1>6
  <2>4. D[x].set_value + Total(D, R \cup {x}) >= 0
    BY <2>2, <2>3 DEF Legal
  <2>5. \A y \in Reductions(D, B) : D[y].set_value >= 0
    BY <2>1, <2>3 DEF Firm
  <2>6. \A y \in OfType(D, B, int) : D[y].set_value + Total(D, Reductions(D, B)) >= 0
    BY <2>1, <2>4, <1>5
  <2> QED BY <1>2, <1>3, <2>5, <2>6 DEF Firm
<1>7. CASE ~(D[x].type = int /\ D[x].delta < 0)
  <2>1. Reductions(D, B) = R
    BY <1>7 DEF Reductions
  <2>2. \A y \in Reductions(D, B) : D[y].set_value >= 0
    BY <2>1 DEF Firm
  <2>3. ASSUME NEW y \in OfType(D, B, int), D[y].set_value >= 0
        PROVE  D[y].set_value + Total(D, R) >= 0
    <3>1. CASE R = {}
      <4>1. Total(D, R) = 0
        BY <3>1, SumEmpty DEF Total
      <4>2. D[y].set_value \in Int
        BY <1>2, <1>4, PlainClass
      <4> HIDE DEF R
      <4> QED BY <4>1, <4>2, <2>3
    <3>2. CASE R # {}
      <4>1. PICK r \in R : TRUE
        BY <3>2
      <4>2. r \in OfType(D, B, int) /\ r \in OfType(D, C, int)
        BY <4>1 DEF Reductions, OfType
      <4>3. D[r].set_value = D[y].set_value
        BY <4>2, <1>5
      <4>4. D[r].set_value >= 0 => D[r].set_value + Total(D, R) >= 0
        BY <4>2 DEF Firm
      <4> QED BY <2>3, <4>3, <4>4
    <3> QED BY <3>1, <3>2
  <2> QED BY <1>2, <1>3, <2>1, <2>2, <2>3 DEF Firm
<1> QED BY <1>6, <1>7

-----------------------------------------------------------------------------
(* Deltas under other names                                                *)

\* The names C with D and the names B with E stand for the same deltas.
Matches(D, C, E, B, h) ==
    /\ h \in [C -> B]
    /\ \A x, y \in C : h[x] = h[y] => x = y
    /\ \A z \in B : \E x \in C : h[x] = z
    /\ \A x \in C : D[x] = E[h[x]]

\* So do the names of each kind.
LEMMA MatchesPart ==
  ASSUME NEW D, NEW C, NEW E, NEW B, NEW h, Matches(D, C, E, B, h), NEW G
  PROVE  Matches(D, {x \in C : D[x] \in G}, E, {z \in B : E[z] \in G},
                 [x \in {x \in C : D[x] \in G} |-> h[x]])
BY DEF Matches

\* A finite set has finitely many names,
LEMMA MatchesFinite ==
  ASSUME NEW D, NEW C, NEW E, NEW B, NEW h, Matches(D, C, E, B, h), IsFiniteSet(B)
  PROVE  IsFiniteSet(C)
<1>1. h \in Injection(C, B)
  <2>1. IsInjective(h)
    BY DEF Matches, IsInjective
  <2> QED BY <2>1 DEF Matches, Injection
<1> QED BY <1>1, FS_Injection

\* and their amounts have the same sum.
LEMMA MatchesTotal ==
  ASSUME NEW D, NEW C, NEW E, NEW B, NEW h, Matches(D, C, E, B, h), IsFiniteSet(C),
         \A x \in C : Amount(D[x]) \in Int
  PROVE  Total(D, C) = Total(E, B)
<1> DEFINE f == [x \in C |-> Amount(D[x])]
           g == [z \in B |-> Amount(E[z])]
           Im(U) == {h[x] : x \in U}
           Good == {U \in SUBSET C : /\ IsFiniteSet(U) /\ IsFiniteSet(Im(U))
                                     /\ SumFunctionOnSet(f, U) = SumFunctionOnSet(g, Im(U))}
<1>1. /\ h \in [C -> B] /\ \A x, y \in C : h[x] = h[y] => x = y
      /\ \A x \in C : h[x] \in B /\ f[x] \in Int /\ g[h[x]] = f[x]
  BY DEF Matches
<1> HIDE DEF f, g
<1>2. {} \in Good
  <2>1. Im({}) = {}
    OBVIOUS
  <2> QED BY <2>1, SumEmpty, FS_EmptySet
<1>3. ASSUME NEW U \in Good, NEW x \in C \ U, U \subseteq C PROVE U \cup {x} \in Good
  <2>1. IsFiniteSet(U) /\ IsFiniteSet(Im(U)) /\ SumFunctionOnSet(f, U) = SumFunctionOnSet(g, Im(U))
    OBVIOUS
  <2>2. Im(U \cup {x}) = Im(U) \cup {h[x]}
    OBVIOUS
  <2>3. h[x] \notin Im(U) /\ \A z \in Im(U) \cup {h[x]} : g[z] \in Int
    BY <1>1, <1>3
  <2> HIDE DEF Im
  <2>4. SumFunctionOnSet(f, U \cup {x}) = f[x] + SumFunctionOnSet(f, U)
    BY <1>1, <1>3, <2>1, SumAdd
  <2>5. SumFunctionOnSet(g, Im(U) \cup {h[x]}) = g[h[x]] + SumFunctionOnSet(g, Im(U))
    BY <2>1, <2>3, SumAdd
  <2>6. IsFiniteSet(U \cup {x}) /\ IsFiniteSet(Im(U \cup {x}))
    <3>1. IsFiniteSet(U \cup {x})
      BY <2>1, FS_AddElement
    <3>2. IsFiniteSet(Im(U) \cup {h[x]})
      BY <2>1, FS_AddElement
    <3> QED BY <3>1, <3>2, <2>2
  <2>7. SumFunctionOnSet(f, U \cup {x}) = SumFunctionOnSet(g, Im(U \cup {x}))
    BY <1>1, <2>1, <2>2, <2>4, <2>5
  <2> QED BY <1>3, <2>6, <2>7
<1>4. C \in Good
  <2> HIDE DEF Good
  <2> QED BY <1>2, <1>3, FiniteInduction
<1>5. Im(C) = B
  BY DEF Matches
<1> QED BY <1>4, <1>5 DEF Total, f, g

\* What is firm under one set of names is firm under the other,
LEMMA FirmMatches ==
  ASSUME NEW object, NEW D, NEW C, NEW E, NEW B, NEW h, Matches(D, C, E, B, h),
         Firm(object, E, B)
  PROVE  Firm(object, D, C)
<1> DEFINE int == "NONNEGATIVE_INT64_SET_ADD"
           R == Reductions(D, C)
           Q == Reductions(E, B)
           G == {E[z] : z \in Q}
           q == [x \in {x \in C : D[x] \in G} |-> h[x]]
<1>1. IsFiniteSet(B) /\ \A z \in B : Plain(E[z])
  BY DEF Firm
<1>2. IsFiniteSet(C)
  BY <1>1, MatchesFinite
<1>3. \A x \in C : h[x] \in B /\ D[x] = E[h[x]] /\ Plain(D[x])
  BY <1>1 DEF Matches
<1>4. /\ \A x \in Touching(D, C) : h[x] \in Touching(E, B) /\ D[x] = E[h[x]]
      /\ \A x \in R : h[x] \in Q /\ D[x] = E[h[x]]
      /\ \A x \in OfType(D, C, int) : h[x] \in OfType(E, B, int) /\ D[x] = E[h[x]]
  BY <1>3 DEF Touching, Reductions, OfType
<1>5. {x \in C : D[x] \in G} = R
  BY <1>3 DEF Reductions
<1>6. {z \in B : E[z] \in G} = Q
  BY DEF Reductions
<1>7. Matches(D, R, E, Q, q)
  <2> HIDE DEF G, R, Q
  <2>1. Matches(D, {x \in C : D[x] \in G}, E, {z \in B : E[z] \in G}, q)
    BY MatchesPart
  <2> HIDE DEF q
  <2> QED BY <1>5, <1>6, <2>1
<1>8. IsFiniteSet(R) /\ \A x \in R : Amount(D[x]) \in Int
  <2>1. R \subseteq C /\ \A x \in R : D[x].type = int
    BY DEF Reductions
  <2> HIDE DEF R
  <2>2. \A x \in R : Amount(D[x]) \in Int
    BY <1>3, <2>1, PlainClass
  <2> QED BY <1>2, <2>1, <2>2, FS_Subset
<1>9. Total(D, R) = Total(E, Q)
  <2> HIDE DEF R, Q, q
  <2> QED BY <1>7, <1>8, MatchesTotal
<1> HIDE DEF R, Q
<1>10. /\ \A x, y \in Touching(D, C) : DeltaClass(D[x]) = DeltaClass(D[y])
       /\ \A x \in Touching(D, C) : TypeAllowed(object, DeltaClass(D[x]))
  BY <1>4 DEF Firm
<1>11. \A x \in R : D[x].set_value >= 0
  BY <1>4 DEF Firm, Q
<1>12. \A x \in OfType(D, C, int) : D[x].set_value >= 0 => D[x].set_value + Total(D, R) >= 0
  BY <1>4, <1>9 DEF Firm, Q
<1> QED BY <1>2, <1>3, <1>10, <1>11, <1>12 DEF Firm, R

\* What firm deltas make of an object: any one of them tells what it is.
LEMMA FirmOutcome ==
  ASSUME NEW object, NEW D, NEW C, Firm(object, D, C), NEW x \in C
  PROVE  Outcome(object, D, C) =
           IF Touching(D, C) # C THEN NoObject
           ELSE IF D[x].type = "NONNEGATIVE_INT64_SET_ADD"
           THEN [type |-> "NONNEGATIVE_INT64", value |-> Min({MaxInt, D[x].set_value + Total(D, C)})]
           ELSE DeltaClass(D[x])
<1> DEFINE c == CHOOSE o \in C : TRUE
           dc == DeltaClass(D[c])
<1>1. c \in C
  BY Zenon
<1> HIDE DEF c
<1>2. CASE Touching(D, C) # C
  BY <1>2 DEF Outcome
<1>3. CASE Touching(D, C) = C
  <2>1. DeltaClass(D[c]) = DeltaClass(D[x]) /\ Plain(D[x])
    BY <1>1, <1>3 DEF Firm
  <2>2. D[x].type # "DELETE_LAST"
    BY <1>3 DEF Touching
  <2>3. Outcome(object, D, C) =
          CASE dc.type = "NONNEGATIVE_INT64" ->
                    [dc EXCEPT !.value = Min({MaxInt, @ + Total(D, C)})]
               [] dc.type = "RAW_MEMORY" -> dc
               [] dc.type = "KNOWN_SUPPLY_ASSET" ->
                    [dc EXCEPT !.value = Supply(object) + Total(D, C)]
               [] dc.type = "HASH_SET" ->
                    [type |-> "HASH_SET",
                     max_size |->
                       Min({MaxSize, SizeLimit(object) + Increase(D, OfType(D, C, "HASH_SET_INCREASE_LIMIT"))}),
                     hashes |-> {k \in Hashes(object) \cup {D[o].hash : o \in OfType(D, C, "HASH_SET_INSERT")} :
                                   \A o \in OfType(D, C, "HASH_SET_CLEAR") : k.index > D[o].threshold}]
    BY <1>1, <1>3, Zenon DEF Outcome, c
  <2>4. CASE D[x].type = "NONNEGATIVE_INT64_SET_ADD"
    <3>1. dc = [type |-> "NONNEGATIVE_INT64", value |-> D[x].set_value]
      BY <2>1, <2>4, PlainClass
    <3> HIDE DEF dc
    <3>2. Outcome(object, D, C) = [dc EXCEPT !.value = Min({MaxInt, dc.value + Total(D, C)})]
      <4>1. dc.type = "NONNEGATIVE_INT64"
        BY <3>1
      <4> QED BY <2>3, <4>1
    <3> DEFINE v == Min({MaxInt, D[x].set_value + Total(D, C)})
    <3>3. dc.value = D[x].set_value
      BY <3>1
    <3>4. Outcome(object, D, C) = [dc EXCEPT !.value = v]
      BY <3>2, <3>3
    <3> HIDE DEF v
    <3>5. Outcome(object, D, C) = [type |-> "NONNEGATIVE_INT64", value |-> v]
      BY <3>1, <3>4
    <3> QED BY <3>5, <1>3, <2>4 DEF v
  <2>5. CASE D[x].type = "RAW_MEMORY_WRITE"
    <3>1. dc.type = "RAW_MEMORY" /\ dc = DeltaClass(D[x])
      BY <2>1, <2>5, PlainClass
    <3> HIDE DEF dc
    <3> QED BY <3>1, <2>3, <1>3, <2>5
  <2> QED BY <2>1, <2>2, <2>4, <2>5, PlainClass
<1> QED BY <1>2, <1>3

\* and makes the same of the object.
LEMMA OutcomeMatches ==
  ASSUME NEW object, NEW D, NEW C, NEW E, NEW B, NEW h, Matches(D, C, E, B, h),
         Firm(object, E, B)
  PROVE  Outcome(object, D, C) = Outcome(object, E, B)
<1>1. Firm(object, D, C)
  BY FirmMatches
<1>2. CASE C = {}
  <2>1. B = {}
    BY <1>2 DEF Matches
  <2> QED BY <1>2, <2>1 DEF Outcome
<1>3. ASSUME NEW x \in C PROVE Outcome(object, D, C) = Outcome(object, E, B)
  <2>1. h[x] \in B /\ D[x] = E[h[x]] /\ \A y \in C : h[y] \in B /\ D[y] = E[h[y]]
    BY DEF Matches
  <2>2. Touching(D, C) = C <=> Touching(E, B) = B
    BY <2>1 DEF Touching, Matches
  <2> DEFINE Result(touched, d, total) ==
               IF ~touched THEN NoObject
               ELSE IF d.type = "NONNEGATIVE_INT64_SET_ADD"
               THEN [type |-> "NONNEGATIVE_INT64", value |-> Min({MaxInt, d.set_value + total})]
               ELSE DeltaClass(d)
  <2>6. /\ Outcome(object, D, C) = Result(Touching(D, C) = C, D[x], Total(D, C))
        /\ Outcome(object, E, B) = Result(Touching(E, B) = B, E[h[x]], Total(E, B))
    <3>1. Outcome(object, D, C) = Result(Touching(D, C) = C, D[x], Total(D, C))
      BY <1>1, FirmOutcome
    <3>2. Outcome(object, E, B) = Result(Touching(E, B) = B, E[h[x]], Total(E, B))
      BY <2>1, FirmOutcome
    <3> QED BY <3>1, <3>2
  <2>3. CASE Touching(D, C) # C
    BY <2>2, <2>3, <2>6
  <2>4. CASE Touching(D, C) = C /\ D[x].type # "NONNEGATIVE_INT64_SET_ADD"
    BY <2>1, <2>2, <2>4, <2>6
  <2>5. CASE Touching(D, C) = C /\ D[x].type = "NONNEGATIVE_INT64_SET_ADD"
    <3>1. \A y \in C : Amount(D[y]) \in Int
      <4> TAKE y \in C
      <4>1. Plain(D[x]) /\ Plain(D[y]) /\ DeltaClass(D[x]) = DeltaClass(D[y])
        BY <1>1, <2>5 DEF Firm
      <4>2. D[y].type # "DELETE_LAST"
        BY <2>5 DEF Touching
      <4>3. D[y].type = "NONNEGATIVE_INT64_SET_ADD"
        BY <4>1, <4>2, <2>5, SameBase
      <4> QED BY <4>1, <4>3, PlainClass
    <3>2. IsFiniteSet(C)
      BY <1>1 DEF Firm
    <3>3. Total(D, C) = Total(E, B)
      BY <3>1, <3>2, MatchesTotal
    <3> HIDE DEF Result
    <3> QED BY <2>1, <2>2, <2>5, <2>6, <3>3
  <2> QED BY <2>3, <2>4, <2>5
<1> QED BY <1>2, <1>3

-----------------------------------------------------------------------------
(* The block that is serialized stands for the executions of tx_set        *)

\* serialize_block gives every transaction that is listed one place.
LEMMA BlockTxs ==
  /\ Cardinality(InBlock) \in Nat /\ Len(SerializedBlock) = Cardinality(InBlock)
  /\ \A i \in 1 .. Cardinality(InBlock) :
       /\ Nth(i) \in InBlock /\ Nth(i) \in Txs
       /\ SerializedBlock[i].tx = Nth(i) /\ SerializedBlock[i].n = Times(Nth(i))
       /\ SerializedBlock[i].unused = FALSE
  /\ \A i, j \in 1 .. Cardinality(InBlock) : Nth(i) = Nth(j) => i = j
  /\ \A tx \in InBlock : \E i \in 1 .. Cardinality(InBlock) : Nth(i) = tx
<1> DEFINE N == Cardinality(InBlock)
           Rank(tx) == Cardinality({other \in InBlock : other < tx})
           f == [i \in 1 .. N |-> Nth(i)]
<1>1. InBlock \subseteq Txs /\ InBlock \subseteq Nat /\ IsFiniteSet(InBlock)
  BY BlockAssumption, FS_Subset DEF InBlock
<1>2. N \in Nat
  BY <1>1, FS_CardinalityType
<1>3. ASSUME NEW i \in 1 .. N PROVE Nth(i) \in InBlock /\ Rank(Nth(i)) = i - 1
  <2>1. i - 1 \in 0 .. N - 1
    BY <1>2
  <2>2. \E tx \in InBlock : Rank(tx) = i - 1
    BY <1>1, <2>1, RankExists
  <2> QED BY <2>2, Zenon DEF Nth
<1>4. SerializedBlock = [i \in 1 .. N |-> Entry(Nth(i), Times(Nth(i)))]
  BY DEF SerializedBlock
<1> HIDE DEF N, Rank
<1>5. Len(SerializedBlock) = N
  BY <1>2, <1>4
<1>6. ASSUME NEW i \in 1 .. N
      PROVE  /\ SerializedBlock[i].tx = Nth(i) /\ SerializedBlock[i].n = Times(Nth(i))
             /\ SerializedBlock[i].unused = FALSE
  <2>1. SerializedBlock[i] = Entry(Nth(i), Times(Nth(i)))
    BY <1>4
  <2> QED BY <2>1 DEF Entry
<1>7. ASSUME NEW i \in 1 .. N, NEW j \in 1 .. N, Nth(i) = Nth(j) PROVE i = j
  <2>1. i - 1 = j - 1
    BY <1>3, <1>7
  <2> QED BY <2>1, <1>2
<1>8. f \in Injection(1 .. N, InBlock)
  <2>1. f \in [1 .. N -> InBlock] /\ IsInjective(f)
    BY <1>3, <1>7 DEF IsInjective
  <2> QED BY <2>1 DEF Injection
<1>9. IsFiniteSet(1 .. N) /\ Cardinality(1 .. N) = N
  BY <1>2, FS_Interval
<1> HIDE DEF f
<1>10. f \in Surjection(1 .. N, InBlock)
  <2>1. Cardinality(InBlock) = N
    BY DEF N
  <2> QED BY <1>1, <1>8, <1>9, <2>1, FS_Injection
<1>11. \A tx \in InBlock : \E i \in 1 .. N : Nth(i) = tx
  BY <1>10 DEF Surjection, f
<1> QED BY <1>1, <1>2, <1>3, <1>5, <1>6, <1>7, <1>11 DEF N

\* The executions of a transaction, numbered.
LEMMA Executions ==
  ASSUME IsFiniteSet(txset), NEW tx \in InBlock
  PROVE  /\ Times(tx) \in Nat \ {0}
         /\ \E g \in [1 .. Times(tx) -> {e \in txset : entries[e[1]].tx = tx}] :
              /\ \A a, b \in 1 .. Times(tx) : g[a] = g[b] => a = b
              /\ \A e \in txset : entries[e[1]].tx = tx => \E a \in 1 .. Times(tx) : g[a] = e
<1> DEFINE S == {e \in txset : entries[e[1]].tx = tx}
<1>1. IsFiniteSet(S)
  BY FS_Subset
<1>2. S # {}
  BY DEF InBlock, Listed
<1>3. Times(tx) = Cardinality(S)
  BY DEF Times
<1> HIDE DEF S
<1>4. Cardinality(S) \in Nat /\ Cardinality(S) # 0 /\ ExistsBijection(1 .. Cardinality(S), S)
  BY <1>1, <1>2, FS_CardinalityType, FS_EmptySet
<1>5. PICK g \in Bijection(1 .. Cardinality(S), S) : TRUE
  BY <1>4 DEF ExistsBijection
<1>6. /\ g \in [1 .. Times(tx) -> S]
      /\ \A a, b \in 1 .. Times(tx) : g[a] = g[b] => a = b
      /\ \A e \in S : \E a \in 1 .. Times(tx) : g[a] = e
  BY <1>3, <1>5 DEF Bijection, Injection, Surjection, IsInjective
<1> QED BY <1>3, <1>4, <1>6 DEF S

\* Its deltas on an object are those of the executions, under other names.
LEMMA SerializedMatches ==
  ASSUME BlockInv, AllIdle, IsFiniteSet(txset), NEW key \in Keys
  PROVE  \E h : Matches(Effects(SerializedBlock, db[at]), NamesOn(SerializedBlock, key),
                        Effects(entries, db[at]), objs[at][key].done, h)
<1> DEFINE N == Cardinality(InBlock)
           L == SerializedBlock
           Of(tx) == {e \in txset : entries[e[1]].tx = tx}
           Fits(tx, g) == /\ g \in [1 .. Times(tx) -> Of(tx)]
                          /\ \A a, b \in 1 .. Times(tx) : g[a] = g[b] => a = b
                          /\ \A e \in Of(tx) : \E a \in 1 .. Times(tx) : g[a] = e
           G == [tx \in InBlock |-> CHOOSE g : Fits(tx, g)]
           C == NamesOn(L, key)
           B == objs[at][key].done
           e(x) == G[Nth(x[1])][x[2]]
           h == [x \in C |-> <<e(x)[1], e(x)[2], x[3]>>]
<1>1. ASSUME NEW tx \in InBlock PROVE Fits(tx, G[tx]) /\ Times(tx) \in Nat
  <2>1. \E g : Fits(tx, g)
    BY Executions
  <2>2. Fits(tx, CHOOSE g : Fits(tx, g))
    <3> HIDE DEF Fits
    <3> QED BY <2>1, Zenon
  <2>3. G[tx] = CHOOSE g : Fits(tx, g)
    OBVIOUS
  <2> HIDE DEF G, Fits
  <2> QED BY <2>2, <2>3, Executions
<1>2. /\ N \in Nat /\ Len(L) = N
      /\ \A i \in 1 .. N : Nth(i) \in InBlock /\ L[i].tx = Nth(i) /\ L[i].n = Times(Nth(i))
      /\ \A i, j \in 1 .. N : Nth(i) = Nth(j) => i = j
      /\ \A tx \in InBlock : \E i \in 1 .. N : Nth(i) = tx
  BY BlockTxs
<1>3. \A z \in txset : /\ z = <<z[1], z[2]>> /\ z[1] \in Nat /\ z[2] \in Nat
                       /\ Width(entries, z[1]) \in Nat /\ entries[z[1]].tx \in InBlock
  <2> TAKE z \in txset
  <2>1. z = <<z[1], z[2]>> /\ z[1] \in Nat /\ z[2] \in Nat /\ Width(entries, z[1]) \in Nat
        /\ entries[z[1]].tx \in Txs
    BY ListedEntry DEF BlockInv
  <2>2. entries[z[1]].tx \in InBlock
    BY <2>1 DEF InBlock, Listed
  <2> QED BY <2>1, <2>2
<1>4. /\ B \subseteq NameSet
      /\ \A x \in NameSet : x \in B <=>
            /\ <<x[1], x[2]>> \in txset
            /\ 1 <= x[3] /\ x[3] <= Width(entries, x[1])
            /\ KeyIn(entries, x) = key
  BY IdleIsSettled, ObjectTypes DEF BlockInv, Types
<1>5. ASSUME NEW i \in 1 .. N, NEW z \in txset, entries[z[1]].tx = Nth(i), NEW k
      PROVE  /\ Width(L, i) = Width(entries, z[1])
             /\ Writes(L[i].tx)[k] = Writes(entries[z[1]].tx)[k]
  BY <1>2, <1>5 DEF Width
<1>6. ASSUME NEW x \in C
      PROVE  /\ x \in NameSet /\ x = <<x[1], x[2], x[3]>>
             /\ x[1] \in 1 .. N /\ x[2] \in 1 .. Times(Nth(x[1])) /\ Nth(x[1]) \in InBlock
             /\ x[3] \in 1 .. Width(L, x[1]) /\ KeyIn(L, x) = key
             /\ e(x) \in txset /\ entries[e(x)[1]].tx = Nth(x[1])
  <2>1. /\ x \in NameSet /\ x[1] \in 1 .. N /\ x[2] \in 1 .. L[x[1]].n
        /\ x[3] \in 1 .. Width(L, x[1]) /\ KeyIn(L, x) = key
    BY <1>2 DEF NamesOn
  <2>2. x = <<x[1], x[2], x[3]>>
    BY <2>1 DEF NameSet
  <2>3. Nth(x[1]) \in InBlock /\ x[2] \in 1 .. Times(Nth(x[1]))
    BY <1>2, <2>1
  <2>4. e(x) \in Of(Nth(x[1]))
    <3>1. Fits(Nth(x[1]), G[Nth(x[1])])
      BY <1>1, <2>3
    <3> HIDE DEF G, Of
    <3> QED BY <3>1, <2>3
  <2> HIDE DEF e
  <2> QED BY <2>1, <2>2, <2>3, <2>4
<1> HIDE DEF N, L, G, C, B
<1>7. ASSUME NEW x \in C
      PROVE  /\ h[x] \in B /\ h[x][1] = e(x)[1] /\ h[x][2] = e(x)[2] /\ h[x][3] = x[3]
             /\ DeltaIn(L, db[at], x) = DeltaIn(entries, db[at], h[x])
  <2> DEFINE z == e(x)
             y == <<z[1], z[2], x[3]>>
  <2>1. z \in txset /\ entries[z[1]].tx = Nth(x[1]) /\ x[1] \in 1 .. N /\ x[3] \in 1 .. Width(L, x[1])
        /\ KeyIn(L, x) = key /\ x \in NameSet
    BY <1>6
  <2>2. h[x] = y
    OBVIOUS
  <2> HIDE DEF z, h
  <2>3. y[1] = z[1] /\ y[2] = z[2] /\ y[3] = x[3]
    OBVIOUS
  <2>4. z = <<z[1], z[2]>> /\ z[1] \in Nat /\ z[2] \in Nat /\ Width(entries, z[1]) \in Nat
    BY <1>3, <2>1
  <2>5. Width(L, x[1]) = Width(entries, z[1]) /\ Writes(L[x[1]].tx)[x[3]] = Writes(entries[z[1]].tx)[x[3]]
    BY <1>5, <2>1
  <2>6. x[3] \in Nat /\ 1 <= x[3] /\ x[3] <= Width(entries, z[1])
    BY <2>1, <2>4, <2>5
  <2>7. y \in NameSet
    BY <2>4, <2>6 DEF NameSet
  <2>8. KeyIn(entries, y) = key
    BY <2>1, <2>3, <2>5 DEF KeyIn
  <2>9. y \in B
    BY <1>4, <2>1, <2>3, <2>4, <2>6, <2>7, <2>8
  <2>10. DeltaIn(L, db[at], x) = DeltaIn(entries, db[at], y)
    BY <2>3, <2>5 DEF DeltaIn
  <2> HIDE DEF y
  <2> QED BY <2>2, <2>3, <2>9, <2>10 DEF z
<1>8. ASSUME NEW x \in C, NEW y \in C, h[x] = h[y] PROVE x = y
  <2>1. e(x)[1] = e(y)[1] /\ e(x)[2] = e(y)[2] /\ x[3] = y[3]
    BY <1>7, <1>8
  <2>2. e(x) \in txset /\ e(y) \in txset
    BY <1>6
  <2>3. e(x) = e(y)
    <3> HIDE DEF e
    <3> QED BY <2>1, <2>2, <1>3
  <2>4. Nth(x[1]) = Nth(y[1]) /\ x[1] \in 1 .. N /\ y[1] \in 1 .. N
    BY <1>6, <2>3
  <2>5. x[1] = y[1]
    BY <2>4, <1>2
  <2>6. Fits(Nth(x[1]), G[Nth(x[1])])
    BY <1>1, <1>6
  <2>7. x[2] = y[2]
    BY <1>6, <2>3, <2>5, <2>6
  <2> QED BY <1>6, <2>1, <2>5, <2>7
<1>9. ASSUME NEW y \in B PROVE \E x \in C : h[x] = y
  <2>1. y \in NameSet /\ <<y[1], y[2]>> \in txset /\ 1 <= y[3] /\ y[3] <= Width(entries, y[1])
        /\ KeyIn(entries, y) = key
    BY <1>4
  <2> DEFINE z == <<y[1], y[2]>>
             tx == entries[y[1]].tx
  <2>2. z \in txset /\ z[1] = y[1] /\ z[2] = y[2] /\ y = <<y[1], y[2], y[3]>> /\ y[3] \in Nat
    BY <2>1 DEF NameSet
  <2>3. tx \in InBlock /\ Width(entries, y[1]) \in Nat /\ z \in Of(tx)
    BY <1>3, <2>2
  <2> HIDE DEF z
  <2>4. PICK i \in 1 .. N : Nth(i) = tx
    BY <1>2, <2>3
  <2>5. Fits(tx, G[tx]) /\ Times(tx) \in Nat
    BY <1>1, <2>3
  <2>6. PICK a \in 1 .. Times(tx) : G[tx][a] = z
    BY <2>3, <2>5
  <2> DEFINE x == <<i, a, y[3]>>
  <2>7. x[1] = i /\ x[2] = a /\ x[3] = y[3] /\ i \in Nat /\ a \in Nat
    BY <1>2, <2>5
  <2>8. Width(L, i) = Width(entries, y[1]) /\ Writes(L[i].tx)[y[3]] = Writes(entries[y[1]].tx)[y[3]]
    BY <1>5, <2>2, <2>4
  <2>9. x \in NameSet
    BY <2>2, <2>7 DEF NameSet
  <2>10. KeyIn(L, x) = key
    BY <2>1, <2>7, <2>8 DEF KeyIn
  <2>11. L[i].n = Times(tx) /\ Len(L) = N
    BY <1>2, <2>4
  <2>12. y[3] \in 1 .. Width(L, i)
    BY <2>1, <2>2, <2>3, <2>8
  <2> HIDE DEF x
  <2>13. x \in C
    BY <2>6, <2>7, <2>9, <2>10, <2>11, <2>12 DEF C, NamesOn
  <2>14. e(x) = z
    BY <2>4, <2>6, <2>7
  <2>15. h[x] = <<e(x)[1], e(x)[2], x[3]>>
    BY <2>13
  <2> HIDE DEF e, h
  <2>16. h[x] = y
    BY <2>2, <2>7, <2>14, <2>15
  <2> QED BY <2>13, <2>16
<1>10. \A x \in C : Effects(L, db[at])[x] = Effects(entries, db[at])[h[x]]
  BY <1>4, <1>6, <1>7 DEF Effects
<1>11. h \in [C -> B]
  BY <1>7
<1> HIDE DEF h
<1>12. Matches(Effects(L, db[at]), C, Effects(entries, db[at]), B, h)
  BY <1>8, <1>9, <1>10, <1>11 DEF Matches
<1> QED BY <1>12 DEF L, C, B

-----------------------------------------------------------------------------
(* The end of a block                                                      *)

\* Only the deltas that commit matter.
LEMMA SameDeltas ==
  ASSUME NEW D, NEW C, NEW E, \A x \in C : D[x] = E[x]
  PROVE  Matches(D, C, E, C, [x \in C |-> x])
BY DEF Matches

\* What commit_modifications makes of an object when every thread is idle.
LEMMA SettledOutcome ==
  ASSUME BlockInv, FirmInv, AllIdle, NEW key \in Keys
  PROVE  Committed(key) = Outcome(db[at][key], Effects(entries, db[at]), objs[at][key].done)
<1> DEFINE o == objs[at][key]
           D == AllDeltas(o.done)
           E == Effects(entries, db[at])
<1>1. o.held = {} /\ o.done \subseteq NameSet /\ (o.done # {} => key \in logged)
  BY IdleIsSettled, ObjectTypes DEF BlockInv, Types
<1>2. o.held \cup o.done = o.done
  BY <1>1
<1>3. Firm(db[at][key], E, o.done)
  BY <1>2 DEF FirmInv
<1>4. Committed(key) = IF key \in logged THEN Outcome(db[at][key], D, o.done) ELSE db[at][key]
  BY <1>2 DEF Committed
<1>5. CASE o.done = {}
  BY <1>4, <1>5 DEF Outcome
<1>6. CASE o.done # {}
  <2>1. \A x \in o.done : D[x] = E[x]
    BY <1>1, EffectsAre
  <2> HIDE DEF D, E, o
  <2>2. Matches(D, o.done, E, o.done, [x \in o.done |-> x])
    BY <2>1, SameDeltas
  <2>3. Outcome(db[at][key], D, o.done) = Outcome(db[at][key], E, o.done)
    BY <2>2, <1>3, OutcomeMatches
  <2>4. Committed(key) = Outcome(db[at][key], E, o.done)
    BY <2>3, <1>1, <1>4, <1>6
  <2> QED BY <2>4 DEF E, o
<1> QED BY <1>5, <1>6

\* The state that a block leaves.
LEMMA CommittedState ==
  ASSUME BlockInv, LegalInv, FirmInv, AllIdle, CommitBlock
  PROVE  /\ DOMAIN db' = Nodes
         /\ \A n \in Nodes : n # at => db'[n] = db[n]
         /\ db'[at] = [key \in Keys |->
              Outcome(db[at][key], Effects(entries, db[at]), objs[at][key].done)]
<1>1. DOMAIN db = Nodes /\ at \in Nodes
  BY DEF LegalInv, BlockInv, Types
<1>2. db' = [db EXCEPT ![at] = [key \in Keys |-> Committed(key)]]
  BY DEF CommitBlock
<1>3. [key \in Keys |-> Committed(key)] =
        [key \in Keys |-> Outcome(db[at][key], Effects(entries, db[at]), objs[at][key].done)]
  BY SettledOutcome
<1> QED BY <1>1, <1>2, <1>3

\* Integers stay integers, and nothing becomes an asset.
LEMMA OutcomeIsWhole ==
  ASSUME NEW object, Whole(object), NEW D, NEW C, Firm(object, D, C)
  PROVE  Whole(Outcome(object, D, C))
<1>1. 0 \in 0 .. MaxUint
  BY BlockAssumption DEF MaxUint
<1>2. CASE C = {}
  BY <1>2 DEF Outcome
<1>3. ASSUME NEW x \in C, Touching(D, C) # C PROVE Whole(Outcome(object, D, C))
  <2>1. Outcome(object, D, C) = NoObject
    BY <1>3 DEF Outcome
  <2> QED BY <1>1, <2>1 DEF Whole, NoObject, Supply
<1>4. ASSUME NEW x \in C, Touching(D, C) = C PROVE Whole(Outcome(object, D, C))
  <2>1. Plain(D[x]) /\ IsFiniteSet(C) /\ \A y \in C : Plain(D[y])
    BY DEF Firm
  <2>2. D[x].type # "DELETE_LAST"
    BY <1>4 DEF Touching
  <2>3. CASE D[x].type = "NONNEGATIVE_INT64_SET_ADD"
    <3> DEFINE v == Min({MaxInt, D[x].set_value + Total(D, C)})
    <3>1. OfType(D, C, "NONNEGATIVE_INT64_SET_ADD") = C
      <4>1. ASSUME NEW y \in C PROVE D[y].type = "NONNEGATIVE_INT64_SET_ADD"
        <5>1. DeltaClass(D[x]) = DeltaClass(D[y]) /\ D[y].type # "DELETE_LAST" /\ Plain(D[y])
          BY <1>4, <2>1 DEF Firm, Touching
        <5> QED BY <2>1, <2>3, <5>1, SameBase
      <4> QED BY <4>1 DEF OfType
    <3>2. Total(D, C) \in Int /\ D[x].set_value \in Int /\ MaxInt \in Int
      BY <2>1, <2>3, <3>1, ReductionsAreLeast, PlainClass, BlockAssumption
    <3>3. v \in Int
      <4>1. D[x].set_value + Total(D, C) \in Int
        BY <3>2
      <4>2. v = IF MaxInt <= D[x].set_value + Total(D, C) THEN MaxInt ELSE D[x].set_value + Total(D, C)
        BY <3>2, <4>1, MinPair
      <4> HIDE DEF v
      <4> QED BY <3>2, <4>1, <4>2
    <3>4. Outcome(object, D, C) = [type |-> "NONNEGATIVE_INT64", value |-> v]
      BY <1>4, <2>3, FirmOutcome
    <3> HIDE DEF v
    <3> QED BY <1>1, <3>3, <3>4 DEF Whole, Supply
  <2>4. CASE D[x].type = "RAW_MEMORY_WRITE"
    <3>1. Outcome(object, D, C) = DeltaClass(D[x])
      <4>1. Outcome(object, D, C) =
              IF Touching(D, C) # C THEN NoObject
              ELSE IF D[x].type = "NONNEGATIVE_INT64_SET_ADD"
              THEN [type |-> "NONNEGATIVE_INT64", value |-> Min({MaxInt, D[x].set_value + Total(D, C)})]
              ELSE DeltaClass(D[x])
        BY <1>4, FirmOutcome
      <4> QED BY <4>1, <1>4, <2>4
    <3>2. Outcome(object, D, C).type = "RAW_MEMORY"
      BY <2>1, <2>4, <3>1, PlainClass
    <3> QED BY <1>1, <3>2 DEF Whole, Supply
  <2> QED BY <2>1, <2>2, <2>3, <2>4, PlainClass
<1> QED BY <1>2, <1>3, <1>4

\* A block leaves whole objects.
LEMMA CommittedIsWhole ==
  ASSUME BlockInv, LegalInv, FirmInv, WholeInv, AllIdle, CommitBlock
  PROVE  WholeInv'
<1> DEFINE Out(key) == Outcome(db[at][key], Effects(entries, db[at]), objs[at][key].done)
<1>1. (\A n \in Nodes : n # at => db'[n] = db[n]) /\ db'[at] = [key \in Keys |-> Out(key)]
  BY CommittedState
<1>2. ASSUME NEW key \in Keys PROVE Whole(Out(key))
  <2>1. objs[at][key].held = {} /\ at \in Nodes
    BY IdleIsSettled DEF BlockInv, Types
  <2>2. Firm(db[at][key], Effects(entries, db[at]), objs[at][key].held \cup objs[at][key].done)
    BY DEF FirmInv
  <2>3. objs[at][key].held \cup objs[at][key].done = objs[at][key].done
    BY <2>1
  <2>4. Whole(db[at][key])
    BY <2>1 DEF WholeInv
  <2> QED BY <2>2, <2>3, <2>4, OutcomeIsWhole
<1> HIDE DEF Out
<1>3. ASSUME NEW n \in Nodes, NEW key \in Keys PROVE Whole(db'[n][key])
  <2>1. CASE n = at
    BY <2>1, <1>1, <1>2
  <2>2. CASE n # at
    BY <2>2, <1>1 DEF WholeInv
  <2> QED BY <2>1, <2>2
<1> QED BY <1>3 DEF WholeInv

\* What is proposed executes again on the state that it was assembled on.
LEMMA ProposalIsGood ==
  ASSUME BlockInv, LegalInv, AgreeInv, FinishProposal
  PROVE  OfferInv'
<1> DEFINE L == SerializedBlock
           N == Cardinality(InBlock)
<1>1. AllIdle /\ CommitBlock
      /\ offer' = [block |-> L, by |-> at, before |-> db[at], after |-> db'[at]]
  BY DEF FinishProposal
<1>2. offer'.block = L /\ offer'.before = db[at] /\ offer'.after = db'[at]
  BY <1>1
<1>3. FirmInv /\ RanInv /\ UniqueInv /\ OneKind /\ IsFiniteSet(txset)
  BY DEF AgreeInv, Agreeable, LegalInv
<1>4. /\ N \in Nat /\ Len(L) = N
      /\ \A i \in 1 .. N : /\ Nth(i) \in InBlock /\ L[i].tx = Nth(i) /\ L[i].n = Times(Nth(i))
                           /\ L[i].unused = FALSE
      /\ \A i, j \in 1 .. N : Nth(i) = Nth(j) => i = j
  BY BlockTxs
<1> HIDE DEF L, N
<1>5. ASSUME NEW tx \in InBlock
      PROVE  /\ Times(tx) \in Nat \ {0} /\ ~Fails(db[at], tx)
             /\ Sisyphus # {} => Times(tx) = 1
  <2>1. Times(tx) \in Nat \ {0}
    BY <1>3, Executions
  <2>2. PICK e \in txset : entries[e[1]].tx = tx
    BY DEF InBlock, Listed
  <2>3. ~Fails(db[at], tx)
    BY <1>3, <2>2 DEF RanInv
  <2>4. ASSUME Sisyphus # {} PROVE Times(tx) = 1
    <3>1. at \in Sisyphus
      BY <1>3, <2>4 DEF OneKind, BlockInv, Types
    <3>2. {f \in txset : entries[f[1]].tx = tx} = {e}
      BY <1>3, <2>2, <3>1 DEF UniqueInv
    <3> QED BY <3>2, FS_Singleton DEF Times
  <2> QED BY <2>1, <2>3, <2>4
<1>6. ASSUME NEW key \in Keys
      PROVE  /\ Firm(db[at][key], Effects(L, db[at]), NamesOn(L, key))
             /\ Outcome(db[at][key], Effects(entries, db[at]), objs[at][key].done)
                  = Outcome(db[at][key], Effects(L, db[at]), NamesOn(L, key))
  <2>1. PICK h : Matches(Effects(L, db[at]), NamesOn(L, key),
                         Effects(entries, db[at]), objs[at][key].done, h)
    BY <1>1, <1>3, SerializedMatches DEF L
  <2>2. objs[at][key].held \cup objs[at][key].done = objs[at][key].done
    BY <1>1, IdleIsSettled
  <2>3. Firm(db[at][key], Effects(entries, db[at]), objs[at][key].done)
    BY <1>3, <2>2 DEF FirmInv
  <2> QED BY <2>1, <2>3, FirmMatches, OutcomeMatches
<1>7. db'[at] = [key \in Keys |-> Outcome(db[at][key], Effects(L, db[at]), NamesOn(L, key))]
  <2>1. db'[at] = [key \in Keys |->
              Outcome(db[at][key], Effects(entries, db[at]), objs[at][key].done)]
    BY <1>1, <1>3, CommittedState
  <2> QED BY <2>1, <1>6
<1>8. GoodBlock(L, db[at], db'[at])
  <2>1. \A i \in 1 .. Len(L) :
         /\ L[i].n \in Nat \ {0} /\ L[i].unused = FALSE /\ (Sisyphus # {} => L[i].n = 1)
         /\ ~Fails(db[at], L[i].tx)
    BY <1>4, <1>5
  <2>2. \A i, j \in 1 .. Len(L) : L[i].tx = L[j].tx => i = j
    BY <1>4
  <2> QED BY <2>1, <2>2, <1>6, <1>7 DEF GoodBlock
<1> QED BY <1>2, <1>8 DEF OfferInv

-----------------------------------------------------------------------------
(* The steps of the threads                                                *)

\* Between blocks there is nothing on the objects.
LEMMA RestAgrees == Types /\ AtRest => FirmInv /\ RanInv /\ UniqueInv
<1> SUFFICES ASSUME Types, AtRest PROVE FirmInv /\ RanInv /\ UniqueInv
  OBVIOUS
<1>1. at \in Nodes /\ txset = {} /\ \A t \in Threads : th[t].pc \notin Busy
  BY DEF Types, AtRest, Busy
<1>2. ASSUME NEW object, NEW D PROVE Firm(object, D, {})
  BY FS_EmptySet DEF Firm, Touching, Reductions, OfType
<1>3. \A key \in Keys : objs[at][key].held \cup objs[at][key].done = {}
  BY <1>1 DEF AtRest, Empty
<1>4. FirmInv
  BY <1>2, <1>3 DEF FirmInv
<1> QED BY <1>1, <1>4 DEF RanInv, UniqueInv

\* What a step of a thread leaves alone.
LEMMA WorkFrame ==
  ASSUME NEW t \in Threads, Work(t)
  PROVE  UNCHANGED <<db, stage, at, entries, offer>>
BY DEF Work, Execute, Run, Push, AddTx, CommitOne, LogKeys, UndoOne, Undone, Fetch,
       TakeRange, ReadError, StoreError, machine

\* The deltas of a program that ran without a HostError.
LEMMA DeltaIsPlain ==
  ASSUME SimplePrograms, NEW tx \in Txs, NEW m \in 1 .. Len(Writes(tx)), NEW state,
         Whole(state[Writes(tx)[m].key]), ~Fails(state, tx)
  PROVE  Plain(Delta(state[Writes(tx)[m].key], Writes(tx)[m]))
<1> DEFINE op == Writes(tx)[m]
           object == state[op.key]
<1>1. m \in DOMAIN Writes(tx)
  BY ProgramShape
<1>2. ~Refuses(object, op)
  BY <1>1 DEF Fails
<1>3. \/ op.op \in {"add", "write", "delete"}
      \/ /\ op.op = "set_add"
         /\ op.d \in MinInt .. MaxInt /\ op.set_value \in MinInt .. MaxInt
  BY <1>1 DEF SimplePrograms
<1>4. op.op = "add" => op.d \in MinInt .. MaxInt
  BY <1>1, BlockAssumption DEF Writes
<1>5. MinInt \in Int /\ MaxInt \in Int
  BY BlockAssumption DEF MinInt
<1>6. object.type = "NONNEGATIVE_INT64" => object.value \in Int
  BY DEF Whole
<1> HIDE DEF op, object
<1>7. CASE op.op = "add"
  <2>1. object = NoObject \/ object.type = "NONNEGATIVE_INT64"
    BY <1>2, <1>7 DEF Refuses
  <2>2. op.d \in Int
    BY <1>4, <1>5, <1>7
  <2> DEFINE v == IF object = NoObject THEN 0 ELSE object.value
  <2>3. v \in Int
    BY <1>6, <2>1
  <2>4. Delta(object, op) = [type |-> "NONNEGATIVE_INT64_SET_ADD", delta |-> op.d, set_value |-> v]
    BY <1>7 DEF Delta
  <2> HIDE DEF v
  <2> QED BY <2>2, <2>3, <2>4 DEF Plain, op, object
<1>8. CASE op.op = "set_add"
  <2>1. op.d \in Int /\ op.set_value \in Int
    BY <1>3, <1>5, <1>8
  <2>2. Delta(object, op) =
          [type |-> "NONNEGATIVE_INT64_SET_ADD", delta |-> op.d, set_value |-> op.set_value]
    BY <1>8 DEF Delta
  <2> QED BY <2>1, <2>2 DEF Plain, op, object
<1>9. CASE op.op = "write"
  BY <1>9 DEF Delta, Plain, op, object
<1>10. CASE op.op = "delete"
  BY <1>10 DEF Delta, Plain, op, object
<1> QED BY <1>3, <1>7, <1>8, <1>9, <1>10

\* An object with no more deltas than it had.
LEMMA FirmFewer ==
  ASSUME FirmInv, UNCHANGED <<db, at, entries>>,
         \A key \in Keys : objs'[at][key].held \cup objs'[at][key].done
                             \subseteq objs[at][key].held \cup objs[at][key].done
  PROVE  FirmInv'
<1>1. ASSUME NEW key \in Keys
      PROVE  Firm(db[at][key], Effects(entries, db[at]), objs'[at][key].held \cup objs'[at][key].done)
  <2>1. Firm(db[at][key], Effects(entries, db[at]), objs[at][key].held \cup objs[at][key].done)
    BY DEF FirmInv
  <2> QED BY <2>1, FirmSubset
<1> QED BY <1>1 DEF FirmInv

\* A delta is pushed that try_add_delta admits.
LEMMA PushFirm ==
  ASSUME BlockInv, AgreeInv, NEW t \in Threads, Push(t)
  PROVE  FirmInv'
<1> DEFINE name == Named(t)
           key == KeyIn(entries, name)
           o == objs[at][key]
           E == Effects(entries, db[at])
           object == db[at][key]
<1>1. th[t].pc = "push" /\ Executes(t) /\ th[t].pc \in Busy
  BY DEF Push, Executes, Busy
<1>2. UNCHANGED <<db, at, entries, txset>>
  BY DEF Push, machine, block_context
<1>3. 1 <= th[t].k /\ th[t].k <= Width(entries, th[t].i)
  BY <1>1 DEF BlockInv, Positioned
<1>4. /\ name \in NameSet /\ KeyOf(name) = key /\ key \in Keys
      /\ name[1] = th[t].i /\ name[3] = th[t].k
      /\ Object(t) = o /\ Object(t) \in DeltaSets
  BY <1>1, <1>3, AtDelta DEF BlockInv
<1>5. FirmInv /\ WholeInv /\ RanInv /\ SimplePrograms
  BY DEF AgreeInv, Agreeable
<1>6. CASE UNCHANGED objs
  BY <1>2, <1>5, <1>6 DEF FirmInv
<1>7. CASE Accepts(key, o, name) /\ SetObject(key, Reserved(o, name))
  <2>1. o \in DeltaSets /\ o.held \in SUBSET NameSet /\ o.done \in SUBSET NameSet /\ o.used \in Nat
    BY <1>4 DEF DeltaSets
  <2> DEFINE C == o.held \cup o.done
             D == AllDeltas(C \cup {name})
             n == o.used + (IF IsInsert(name) THEN 1 ELSE 0)
             r == [o EXCEPT !.held = o.held \cup {name}, !.used = n]
  <2>2. /\ \A S \in SUBSET o.held : Legal(object, D, o.done \cup S \cup {name})
        /\ D[name].type = "NONNEGATIVE_INT64_SET_ADD" /\ D[name].delta < 0 =>
             /\ D[name].set_value >= 0
             /\ \A S \in SUBSET C : Legal(object, D, S \cup {name})
    BY <1>7 DEF Accepts, Admits
  <2>3. C \cup {name} \subseteq NameSet
    BY <1>4, <2>1
  <2>4. \A x \in C \cup {name} : D[x] = E[x]
    <3> HIDE DEF C
    <3> QED BY <2>3, EffectsAre
  <2>5. n \in Nat /\ o.held \cup {name} \in SUBSET NameSet
    BY <2>1, <1>4
  <2>6. Reserved(o, name) = r
    BY DEF Reserved
  <2>7. Plain(E[name])
    <3>1. entries[th[t].i].tx \in Txs /\ ~Fails(db[at], entries[th[t].i].tx)
          /\ th[t].k \in 1 .. Len(Writes(entries[th[t].i].tx))
      <4>1. entries[th[t].i].tx \in Txs /\ Width(entries, th[t].i) \in Nat /\ th[t].k \in Nat
        BY <1>1, ThreadEntry, ThreadTypes DEF BlockInv
      <4> QED BY <4>1, <1>1, <1>3, <1>5 DEF RanInv, Width
    <3>2. key = Writes(entries[th[t].i].tx)[th[t].k].key
      BY <1>4 DEF KeyIn
    <3>3. Whole(object)
      BY <1>4, <1>5 DEF WholeInv, BlockInv, Types
    <3>4. Plain(Delta(object, Writes(entries[th[t].i].tx)[th[t].k]))
      BY <1>5, <3>1, <3>2, <3>3, DeltaIsPlain
    <3>5. E[name] = Delta(object, Writes(entries[th[t].i].tx)[th[t].k])
      BY <1>4, <3>2 DEF Effects, DeltaIn
    <3> QED BY <3>4, <3>5
  <2>8. Firm(object, E, C)
    BY <1>4, <1>5 DEF FirmInv
  <2> HIDE DEF o, D, E, n, name, key, object
  <2>9. r \in DeltaSets /\ r.held = o.held \cup {name} /\ r.done = o.done
    BY <2>1, <2>5 DEF DeltaSets
  <2> HIDE DEF r
  <2>10. objs'[at][key] = r /\ \A q \in Keys : q # key => objs'[at][q] = objs[at][q]
    BY <1>4, <1>7, <2>6, <2>9, SetObjectStep DEF BlockInv
  <2>11. Legal(object, E, C \cup {name})
    <3>1. o.done \cup o.held \cup {name} = C \cup {name} /\ o.held \in SUBSET o.held
      OBVIOUS
    <3>2. Legal(object, D, C \cup {name})
      BY <2>2, <3>1
    <3> QED BY <3>2, <2>4, LegalAgrees
  <2>12. E[name].type = "NONNEGATIVE_INT64_SET_ADD" /\ E[name].delta < 0 =>
           E[name].set_value >= 0 /\ Legal(object, E, Reductions(E, C) \cup {name})
    <3> HAVE E[name].type = "NONNEGATIVE_INT64_SET_ADD" /\ E[name].delta < 0
    <3>1. D[name] = E[name]
      BY <2>4
    <3>2. Reductions(E, C) \in SUBSET C
      BY DEF Reductions
    <3>3. E[name].set_value >= 0 /\ Legal(object, D, Reductions(E, C) \cup {name})
      BY <2>2, <3>1, <3>2
    <3>4. \A x \in Reductions(E, C) \cup {name} : D[x] = E[x]
      BY <2>4, <3>2
    <3> QED BY <3>3, <3>4, LegalAgrees
  <2>13. Firm(object, E, C \cup {name})
    BY <2>7, <2>8, <2>11, <2>12, AdmittedIsFirm
  <2>14. ASSUME NEW q \in Keys
         PROVE  Firm(db[at][q], E, objs'[at][q].held \cup objs'[at][q].done)
    <3>1. CASE q = key
      <4>1. r.held \cup r.done = C \cup {name}
        BY <2>9
      <4> HIDE DEF C
      <4> QED BY <3>1, <4>1, <2>10, <2>13 DEF object
    <3>2. CASE q # key
      <4>1. objs'[at][q] = objs[at][q]
        BY <2>10, <3>2
      <4> QED BY <4>1, <1>5 DEF FirmInv, E
    <3> QED BY <3>1, <3>2
  <2> QED BY <2>14, <1>2 DEF FirmInv, E
<1> QED BY <1>4, <1>6, <1>7 DEF Push

\* A delta is committed or given back.
LEMMA FewerFirm ==
  ASSUME BlockInv, FirmInv, NEW t \in Threads, CommitOne(t) \/ UndoOne(t)
  PROVE  FirmInv'
<1> DEFINE name == Named(t)
           key == KeyIn(entries, name)
           o == objs[at][key]
           c == [o EXCEPT !.held = o.held \ {name}, !.done = o.done \cup {name}]
           u == [o EXCEPT !.held = o.held \ {name}]
<1>1. Executes(t) /\ th[t].pc \in Busy
  BY DEF CommitOne, UndoOne, Executes, Busy
<1>2. UNCHANGED <<db, at, entries>>
  BY DEF CommitOne, UndoOne, machine
<1>3. 1 <= th[t].k /\ th[t].k <= Width(entries, th[t].i)
  BY <1>1 DEF CommitOne, UndoOne, Width, Tx, BlockInv, Positioned
<1>4. /\ name = Name(t, th[t].k) /\ name \in NameSet /\ KeyOf(name) = key /\ key \in Keys
      /\ Object(t) = o /\ Object(t) \in DeltaSets
  BY <1>1, <1>3, AtDelta DEF BlockInv
<1>5. CommitOne(t) => name \in o.held
  <2> HAVE CommitOne(t)
  <2>1. th[t].k \in Nat /\ Width(entries, th[t].i) \in Nat
    BY <1>1, ThreadTypes, ThreadEntry DEF BlockInv
  <2>2. th[t].k \in 1 .. Width(entries, th[t].i) /\ th[t].k <= th[t].k
    BY <1>3, <2>1
  <2>3. HeldAt(t, th[t].k)
    BY <2>2 DEF BlockInv, NoGap, CommitOne
  <2> QED BY <2>3, <1>4 DEF HeldAt
<1>6. \/ SetObject(key, c) /\ name \in o.held
      \/ SetObject(key, u)
  BY <1>4, <1>5 DEF CommitOne, UndoOne
<1>7. o \in DeltaSets /\ o.held \in SUBSET NameSet /\ o.done \in SUBSET NameSet
  BY <1>4 DEF DeltaSets
<1> HIDE DEF name, key, o
<1>8. /\ c \in DeltaSets /\ c.held = o.held \ {name} /\ c.done = o.done \cup {name}
      /\ u \in DeltaSets /\ u.held = o.held \ {name} /\ u.done = o.done
  BY <1>4, <1>7 DEF DeltaSets
<1> HIDE DEF c, u
<1>9. /\ \A q \in Keys : q # key => objs'[at][q] = objs[at][q]
      /\ objs'[at][key].held \cup objs'[at][key].done \subseteq o.held \cup o.done
  <2>1. CASE SetObject(key, c) /\ name \in o.held
    <3>1. objs'[at][key] = c /\ \A q \in Keys : q # key => objs'[at][q] = objs[at][q]
      BY <1>4, <1>8, <2>1, SetObjectStep DEF BlockInv
    <3> QED BY <3>1, <1>8, <2>1
  <2>2. CASE SetObject(key, u)
    <3>1. objs'[at][key] = u /\ \A q \in Keys : q # key => objs'[at][q] = objs[at][q]
      BY <1>4, <1>8, <2>2, SetObjectStep DEF BlockInv
    <3> QED BY <3>1, <1>8
  <2> QED BY <1>6, <2>1, <2>2
<1>10. \A q \in Keys : objs'[at][q].held \cup objs'[at][q].done
                         \subseteq objs[at][q].held \cup objs[at][q].done
  BY <1>9 DEF o
<1> QED BY <1>2, <1>10, FirmFewer

\* Every step of a thread keeps the deltas of an object firm.
LEMMA WorkFirm ==
  ASSUME BlockInv, AgreeInv, NEW t \in Threads, Work(t)
  PROVE  FirmInv'
<1>1. FirmInv
  BY DEF AgreeInv
<1>2. CASE Push(t)
  BY <1>2, PushFirm
<1>3. CASE CommitOne(t) \/ UndoOne(t)
  BY <1>1, <1>3, FewerFirm
<1>4. CASE Run(t) \/ AddTx(t) \/ LogKeys(t) \/ Undone(t) \/ Fetch(t) \/ TakeRange(t) \/ ReadError(t) \/ StoreError(t)
  <2>1. UNCHANGED <<db, at, entries, objs>>
    BY <1>4 DEF Run, AddTx, LogKeys, Undone, Fetch, TakeRange, ReadError, StoreError, machine
  <2> QED BY <1>1, <2>1 DEF FirmInv
<1> QED BY <1>2, <1>3, <1>4 DEF Work, Execute

\* The end of an execution, in full.
LEMMA ReturnFields ==
  ASSUME Types, NEW t \in Threads, NEW success \in BOOLEAN, Return(t, success)
  PROVE  /\ \A u \in Threads : u # t => th'[u] = th[u]
         /\ stage = "assembling" => th'[t] = Resting
         /\ stage # "assembling" =>
              /\ th'[t].hi = th[t].hi
              /\ \/ /\ success /\ th[t].j < entries[th[t].i].n
                    /\ th'[t].pc = "run" /\ th'[t].err = th[t].err
                    /\ th'[t].i = th[t].i /\ th'[t].j = th[t].j + 1
                 \/ /\ success => ~(th[t].j < entries[th[t].i].n)
                    /\ th'[t].pc = IF th[t].i < th[t].hi THEN "run" ELSE "read"
                    /\ th'[t].err = (th[t].err \/ ~success)
                    /\ th'[t].i = th[t].i + 1 /\ th'[t].j = 1
<1> DEFINE again == success /\ th[t].j < entries[th[t].i].n
           repeat == [th[t] EXCEPT !.pc = "run", !.j = th[t].j + 1, !.k = 0]
           pc == IF th[t].i < th[t].hi THEN "run" ELSE "read"
           err == th[t].err \/ ~success
           after == [th[t] EXCEPT !.pc = pc, !.i = th[t].i + 1, !.j = 1, !.k = 0, !.err = err]
           s == IF stage = "assembling" THEN Resting ELSE IF again THEN repeat ELSE after
<1>1. Become(t, s)
  BY DEF Return
<1>2. th[t] \in ThreadStates /\ th \in [Threads -> ThreadStates]
  BY DEF Types
<1>3. repeat.pc = "run" /\ repeat.i = th[t].i /\ repeat.j = th[t].j + 1 /\ repeat.hi = th[t].hi
      /\ repeat.err = th[t].err
  <2> DEFINE j == th[t].j + 1
  <2> HIDE DEF j
  <2>1. repeat = [th[t] EXCEPT !.pc = "run", !.j = j, !.k = 0]
    BY DEF j
  <2> HIDE DEF repeat
  <2> QED BY <1>2, <2>1 DEF ThreadStates, j
<1>4. after.pc = pc /\ after.i = th[t].i + 1 /\ after.j = 1 /\ after.hi = th[t].hi /\ after.err = err
  <2> DEFINE i == th[t].i + 1
  <2> HIDE DEF i, pc, err
  <2>1. after = [th[t] EXCEPT !.pc = pc, !.i = i, !.j = 1, !.k = 0, !.err = err]
    BY DEF i
  <2> HIDE DEF after
  <2> QED BY <1>2, <2>1 DEF ThreadStates, i
<1>5. th'[t] = s /\ \A u \in Threads : u # t => th'[u] = th[u]
  <2> HIDE DEF s
  <2> QED BY <1>1, BecomeStep
<1> HIDE DEF repeat, after
<1>6. CASE stage = "assembling"
  BY <1>5, <1>6
<1>7. CASE stage # "assembling" /\ again
  BY <1>3, <1>5, <1>7
<1>8. CASE stage # "assembling" /\ ~again
  <2>1. th'[t] = after
    BY <1>5, <1>8
  <2> QED BY <1>4, <1>5, <1>8, <2>1
<1> QED BY <1>6, <1>7, <1>8

\* A step of a thread, and what it says of its transaction.
LEMMA WorkThread ==
  ASSUME BlockInv, NEW t \in Threads, Work(t)
  PROVE  /\ \A u \in Threads : u # t => th'[u] = th[u]
         /\ th'[t].pc \in Busy =>
              /\ th'[t].i = th[t].i
              /\ th[t].pc \in Busy \/ ~Fails(db[at], entries[th[t].i].tx)
         /\ th'[t].pc = "idle" => th'[t].err = FALSE \/ th'[t] = th[t]
         /\ th'[t].pc = "read" => stage # "assembling" /\ Executes(t)
         /\ th'[t].pc = "store" => th[t].pc = "read"
         /\ found_error' # found_error => th[t].pc = "store"
<1>1. Types /\ Ranges /\ Resting.pc = "idle" /\ Resting.err = FALSE
  BY DEF BlockInv, Resting
<1> DEFINE Thesis == /\ \A u \in Threads : u # t => th'[u] = th[u]
                     /\ th'[t].pc \in Busy =>
                          /\ th'[t].i = th[t].i
                          /\ th[t].pc \in Busy \/ ~Fails(db[at], entries[th[t].i].tx)
                     /\ th'[t].pc = "idle" => th'[t].err = FALSE \/ th'[t] = th[t]
                     /\ th'[t].pc = "read" => stage # "assembling" /\ Executes(t)
                     /\ th'[t].pc = "store" => th[t].pc = "read"
<1>2. ASSUME NEW success \in BOOLEAN, Return(t, success), Executes(t) PROVE Thesis
  BY <1>1, <1>2, ReturnFields DEF Busy
<1>3. ASSUME NEW pc \in {"push", "add", "commit", "undo"}, NEW k \in Nat, Goto(t, pc, k),
             th[t].pc \in Busy \/ ~Fails(db[at], entries[th[t].i].tx)
      PROVE  Thesis
  <2>1. pc \in Labels
    BY DEF Labels
  <2> QED BY <1>1, <1>3, <2>1, GotoStep
<1>4. ASSUME NEW s, Become(t, s), s.pc \in {"run", "store", "idle"},
             s.pc = "store" => th[t].pc = "read", s.pc = "idle" => s.err = FALSE
      PROVE  Thesis
  BY <1>1, <1>4, BecomeStep DEF Busy
<1>5. th[t].k \in Nat /\ th[t].k + 1 \in Nat /\ 1 \in Nat /\ TRUE \in BOOLEAN /\ FALSE \in BOOLEAN
  BY <1>1, ThreadTypes
<1>6. CASE Run(t)
  <2>1. Executes(t) /\ (HostError(Tx(t)) <=> Fails(db[at], entries[th[t].i].tx)) /\ found_error' = found_error
    BY <1>6 DEF Run, Executes, HostError, Fails, Tx
  <2>2. ASSUME Return(t, FALSE) PROVE Thesis
    BY <1>2, <1>5, <2>1, <2>2
  <2>3. ASSUME ~HostError(Tx(t)), Goto(t, IF Writes(Tx(t)) = <<>> THEN "add" ELSE "push", 1)
        PROVE  Thesis
    BY <1>3, <1>5, <2>1, <2>3
  <2> HIDE DEF Thesis
  <2>4. Thesis
    BY <1>6, <2>2, <2>3 DEF Run
  <2> QED BY <2>1, <2>4 DEF Thesis
<1>7. CASE Push(t) \/ AddTx(t) \/ CommitOne(t) \/ UndoOne(t)
  <2>1. th[t].pc \in Busy /\ found_error' = found_error
    BY <1>7 DEF Push, AddTx, CommitOne, UndoOne, Busy
  <2>2. \/ Goto(t, "add", 1) \/ Goto(t, "push", th[t].k + 1) \/ Goto(t, "commit", 1)
        \/ Goto(t, "commit", th[t].k + 1) \/ Goto(t, "undo", 1) \/ Goto(t, "undo", th[t].k + 1)
    <3>1. CASE Push(t)
      BY <3>1 DEF Push
    <3>2. CASE AddTx(t)
      BY <3>2 DEF AddTx
    <3>3. CASE CommitOne(t)
      BY <3>3 DEF CommitOne
    <3>4. CASE UndoOne(t)
      BY <3>4 DEF UndoOne
    <3> QED BY <1>7, <3>1, <3>2, <3>3, <3>4
  <2>3. PICK pc \in {"push", "add", "commit", "undo"} : \E k \in Nat : Goto(t, pc, k)
    BY <1>5, <2>2
  <2> HIDE DEF Thesis
  <2>4. Thesis
    BY <1>3, <2>1, <2>3
  <2> QED BY <2>1, <2>4 DEF Thesis
<1>8. CASE LogKeys(t) \/ Undone(t)
  <2>1. Executes(t) /\ found_error' = found_error
    BY <1>8 DEF LogKeys, Undone, Executes, Busy
  <2>2. \E success \in BOOLEAN : Return(t, success)
    BY <1>5, <1>8 DEF LogKeys, Undone
  <2> HIDE DEF Thesis
  <2>3. Thesis
    BY <1>2, <2>1, <2>2
  <2> QED BY <2>1, <2>3 DEF Thesis
<1>9. CASE Fetch(t) \/ TakeRange(t)
  <2>1. found_error' = found_error
    BY <1>9 DEF Fetch, TakeRange
  <2>2. CASE UNCHANGED th
    <3>1. th[t].pc = "idle"
      BY <1>9 DEF Fetch, TakeRange
    <3> QED BY <2>1, <2>2, <3>1 DEF Busy
  <2>3. ASSUME NEW hi, Become(t, [Resting EXCEPT !.pc = "run", !.i = next, !.j = 1, !.hi = hi])
        PROVE  Thesis
    <3> DEFINE s == [Resting EXCEPT !.pc = "run", !.i = next, !.j = 1, !.hi = hi]
    <3>1. s.pc = "run"
      BY DEF Resting
    <3> HIDE DEF s, Thesis
    <3>2. Become(t, s)
      BY <2>3 DEF s
    <3> QED BY <1>4, <3>1, <3>2
  <2>4. UNCHANGED th \/ \E hi : Become(t, [Resting EXCEPT !.pc = "run", !.i = next, !.j = 1, !.hi = hi])
    BY <1>9 DEF Fetch, TakeRange
  <2>5. CASE ~UNCHANGED th
    <3> HIDE DEF Thesis
    <3>1. Thesis
      BY <2>3, <2>4, <2>5
    <3> QED BY <2>1, <3>1 DEF Thesis
  <2> QED BY <2>2, <2>5
<1>10. CASE ReadError(t)
  <2> DEFINE e == found_error \/ th[t].err
             s == [Resting EXCEPT !.pc = "store", !.err = e]
  <2>1. Become(t, s) /\ th[t].pc = "read" /\ found_error' = found_error
    BY <1>10 DEF ReadError
  <2> HIDE DEF e
  <2>2. s.pc = "store"
    BY DEF Resting
  <2> HIDE DEF s, Thesis
  <2>3. Thesis
    BY <1>4, <2>1, <2>2
  <2> QED BY <2>1, <2>3 DEF Thesis
<1>11. CASE StoreError(t)
  <2>1. Become(t, Resting) /\ th[t].pc = "store"
    BY <1>11 DEF StoreError
  <2> HIDE DEF Thesis
  <2>2. Thesis
    BY <1>1, <1>4, <2>1
  <2> QED BY <2>1, <2>2 DEF Thesis
<1> QED BY <1>6, <1>7, <1>8, <1>9, <1>10, <1>11 DEF Work, Execute

\* tx_set grows by executions that ran, of transactions that a UniqueTxSet did
\* not have.
LEMMA WorkListed ==
  ASSUME NEW t \in Threads, Work(t)
  PROVE  \/ txset' = txset
         \/ /\ txset' = txset \cup {<<th[t].i, th[t].j>>} /\ th[t].pc \in Busy
            /\ at \in Sisyphus => \A e \in txset : entries[e[1]].tx # entries[th[t].i].tx
<1>1. CASE AddTx(t)
  BY <1>1 DEF AddTx, MayAdd, Listed, Tx, UniqueTxs, Busy
<1>2. CASE Run(t) \/ Push(t) \/ CommitOne(t) \/ LogKeys(t) \/ UndoOne(t) \/ Undone(t)
           \/ Fetch(t) \/ TakeRange(t) \/ ReadError(t) \/ StoreError(t)
  BY <1>2 DEF Run, Push, CommitOne, LogKeys, UndoOne, Undone, Fetch, TakeRange, ReadError,
              StoreError, block_context
<1> QED BY <1>1, <1>2 DEF Work, Execute

\* Every step of a thread, but for the validation of a block that was proposed.
LEMMA WorkAgrees ==
  ASSUME BlockInv, AgreeInv, NEW t \in Threads, Work(t)
  PROVE  FirmInv' /\ WholeInv' /\ RanInv' /\ UniqueInv' /\ ErrorInv' /\ OfferInv'
<1>1. WholeInv /\ RanInv /\ UniqueInv /\ ErrorInv /\ OfferInv
  BY DEF AgreeInv
<1>2. UNCHANGED <<db, stage, at, entries, offer>>
  BY WorkFrame
<1>3. FirmInv'
  BY WorkFirm
<1>4. WholeInv' /\ OfferInv'
  BY <1>1, <1>2 DEF WholeInv, OfferInv
<1>5. /\ \A u \in Threads : u # t => th'[u] = th[u]
      /\ th'[t].pc \in Busy =>
           /\ th'[t].i = th[t].i
           /\ th[t].pc \in Busy \/ ~Fails(db[at], entries[th[t].i].tx)
      /\ th'[t].pc = "idle" => th'[t].err = FALSE \/ th'[t] = th[t]
      /\ th'[t].pc = "read" => stage # "assembling" /\ Executes(t)
      /\ th'[t].pc = "store" => th[t].pc = "read"
      /\ found_error' # found_error => th[t].pc = "store"
  BY WorkThread
<1>6. \/ txset' = txset
      \/ /\ txset' = txset \cup {<<th[t].i, th[t].j>>} /\ th[t].pc \in Busy
         /\ at \in Sisyphus => \A e \in txset : entries[e[1]].tx # entries[th[t].i].tx
  BY WorkListed
<1>7. RanInv'
  <2>1. \A u \in Threads : th'[u].pc \in Busy => ~Fails(db[at], entries[th'[u].i].tx)
    BY <1>1, <1>5 DEF RanInv
  <2>2. \A e \in txset' : ~Fails(db[at], entries[e[1]].tx)
    BY <1>1, <1>6 DEF RanInv
  <2> QED BY <1>2, <2>1, <2>2 DEF RanInv
<1>8. UniqueInv'
  <2>1. ASSUME at \in Sisyphus, NEW e \in txset', NEW f \in txset', entries[e[1]].tx = entries[f[1]].tx
        PROVE  e = f
    BY <1>1, <1>6, <2>1 DEF UniqueInv
  <2> QED BY <1>2, <2>1 DEF UniqueInv
<1>9. ErrorInv'
  <2>1. \A u \in Threads : th'[u].pc = "idle" => th'[u].err = FALSE
    BY <1>1, <1>5 DEF ErrorInv
  <2>2. ASSUME stage # "validating"
        PROVE  found_error' = FALSE /\ \A u \in Threads : th'[u].pc \notin {"read", "store"}
    <3>1. found_error = FALSE /\ \A u \in Threads : th[u].pc \notin {"read", "store"}
      BY <1>1, <2>2 DEF ErrorInv
    <3>2. Executes(t) => stage = "assembling"
      <4>1. stage = "idle" => ~Executes(t)
        BY DEF BlockInv, IdleClean, Executes, Busy
      <4>2. stage \in {"idle", "assembling", "validating"}
        BY <1>1 DEF ErrorInv
      <4> QED BY <4>1, <4>2, <2>2
    <3> QED BY <1>5, <3>1, <3>2
  <2> QED BY <1>1, <1>2, <2>1, <2>2 DEF ErrorInv
<1> QED BY <1>3, <1>4, <1>7, <1>8, <1>9

-----------------------------------------------------------------------------
(* The validation of a block that was proposed                             *)

\* A delta of a firm set is admitted beside any of the others.
LEMMA FirmAdmits ==
  ASSUME NEW object, Supply(object) \in 0 .. MaxUint, NEW E, NEW C, Firm(object, E, C),
         NEW held, NEW done, NEW x, held \cup done \cup {x} \subseteq C,
         NEW D, \A y \in held \cup done \cup {x} : D[y] = E[y]
  PROVE  Admits(object, D, held, done, x)
<1>1. ASSUME NEW S, S \subseteq held \cup done \cup {x} PROVE Legal(object, D, S)
  <2>1. S \subseteq C
    BY <1>1
  <2>2. Legal(object, E, S)
    BY <2>1, FirmLegal
  <2>3. \A y \in S : E[y] = D[y]
    BY <1>1
  <2> QED BY <2>2, <2>3, LegalAgrees
<1>2. ASSUME D[x].type = "NONNEGATIVE_INT64_SET_ADD", D[x].delta < 0 PROVE D[x].set_value >= 0
  <2>1. x \in C /\ D[x] = E[x]
    OBVIOUS
  <2>2. x \in Reductions(E, C)
    BY <1>2, <2>1 DEF Reductions
  <2> QED BY <2>1, <2>2 DEF Firm
<1>3. \A S \in SUBSET held : done \cup S \cup {x} \subseteq held \cup done \cup {x}
  OBVIOUS
<1>4. \A S \in SUBSET (held \cup done) : S \cup {x} \subseteq held \cup done \cup {x}
  OBVIOUS
<1> QED BY <1>1, <1>2, <1>3, <1>4 DEF Admits

\* A thread goes on: what was before it is listed or still before it.
LEMMA SmoothStep ==
  ASSUME Smooth, Types, NEW t \in Threads, \A u \in Threads : u # t => th'[u] = th[u],
         entries' = entries, found_error' = FALSE, th'[t].err = FALSE, th'[t].pc # "undo",
         Executes(t)' => th'[t].j \in 1 .. entries[th'[t].i].n,
         txset' = txset \/ (txset' = txset \cup {<<th[t].i, th[t].j>>} /\ Executes(t)),
         next' \in Nat,
         \A i \in 1 .. next' - 1 : \A j \in 1 .. entries[i].n :
           i >= next \/ Before(t, i, j) => <<i, j>> \in txset' \/ Before(t, i, j)'
  PROVE  Smooth'
<1>1. \A u \in Threads : u # t => /\ th'[u] = th[u] /\ (Executes(u)' <=> Executes(u))
                                  /\ \A i, j : Before(u, i, j)' <=> Before(u, i, j)
  BY DEF Executes, Before
<1>2. /\ \A u \in Threads : th[u].err = FALSE /\ th[u].pc # "undo"
      /\ \A u \in Threads : Executes(u) => th[u].j \in 1 .. entries[th[u].i].n
      /\ \A e \in txset : e[2] \in 1 .. entries[e[1]].n
  BY DEF Smooth
<1>3. \A u \in Threads : th'[u].err = FALSE /\ th'[u].pc # "undo"
  BY <1>1, <1>2
<1>4. \A u \in Threads : Executes(u)' => th'[u].j \in 1 .. entries[th'[u].i].n
  BY <1>1, <1>2
<1>5. \A e \in txset' : e[2] \in 1 .. entries[e[1]].n
  BY <1>2
<1>6. ASSUME NEW i \in 1 .. next' - 1, NEW j \in 1 .. entries[i].n
      PROVE  <<i, j>> \in txset' \/ \E u \in Threads : Before(u, i, j)'
  <2>1. CASE i >= next
    BY <2>1
  <2>2. CASE ~(i >= next)
    <3>1. next \in Nat /\ i \in Nat
      BY DEF Types, IsList
    <3>2. i \in 1 .. next - 1
      BY <2>2, <3>1
    <3>3. <<i, j>> \in txset \/ \E u \in Threads : Before(u, i, j)
      BY <3>2 DEF Smooth
    <3> QED BY <3>3, <1>1
  <2> QED BY <2>1, <2>2
<1> QED BY <1>3, <1>4, <1>5, <1>6 DEF Smooth

\* The same where the thread stays with its execution.
LEMMA SmoothGoto ==
  ASSUME Smooth, BlockInv, NEW t \in Threads, Executes(t), NEW pc \in {"push", "add", "commit"},
         NEW k \in Nat, Goto(t, pc, k), UNCHANGED <<entries, found_error, next>>,
         \/ txset' = txset /\ (pc = "commit" => th[t].pc = "commit")
         \/ txset' = txset \cup {<<th[t].i, th[t].j>>}
  PROVE  Smooth'
<1>1. Types /\ pc \in Labels /\ pc # "undo" /\ next \in Nat
  BY DEF BlockInv, Types, IsList, Labels
<1>2. /\ th'[t].pc = pc /\ th'[t].i = th[t].i /\ th'[t].j = th[t].j /\ th'[t].hi = th[t].hi
      /\ \A u \in Threads : u # t => th'[u] = th[u]
  BY <1>1, GotoStep
<1>3. th'[t].err = th[t].err
  <2>1. th'= [th EXCEPT ![t] = [th[t] EXCEPT !.pc = pc, !.k = k]]
    BY DEF Goto, Become
  <2>2. th \in [Threads -> ThreadStates]
    BY <1>1 DEF Types
  <2>3. th'[t] = [th[t] EXCEPT !.pc = pc, !.k = k] /\ th[t] \in ThreadStates
    BY <2>1, <2>2
  <2> QED BY <2>3 DEF ThreadStates
<1>4. found_error = FALSE /\ th[t].err = FALSE /\ th[t].j \in 1 .. entries[th[t].i].n
  BY DEF Smooth
<1>5. Executes(t)'
  BY <1>2 DEF Executes, Busy
<1>6. ASSUME NEW i \in 1 .. next - 1, NEW j \in 1 .. entries[i].n, i >= next \/ Before(t, i, j)
      PROVE  <<i, j>> \in txset' \/ Before(t, i, j)'
  <2>1. Before(t, i, j)
    BY <1>1, <1>6
  <2> QED BY <1>2, <1>5, <2>1 DEF Before
<1> QED BY <1>1, <1>2, <1>3, <1>4, <1>6, SmoothStep

\* What the threads have on an object are deltas of the block.
LEMMA OfTheBlock ==
  ASSUME BlockInv, Smooth, NEW key \in Keys
  PROVE  objs[at][key].held \cup objs[at][key].done \subseteq NamesOn(entries, key)
<1>1. Types /\ Ranges /\ next \in 1 .. Len(entries) + 1 /\ Len(entries) \in Nat /\ at \in Nodes
      /\ IsList(entries)
  BY DEF BlockInv, Types, IsList
<1>2. objs[at][key].held \subseteq NameSet /\ objs[at][key].done \subseteq NameSet
  BY <1>1, ObjectTypes
<1>3. ASSUME NEW x \in NameSet, x[1] \in 1 .. Len(entries), x[2] \in 1 .. entries[x[1]].n,
             1 <= x[3], x[3] <= Width(entries, x[1]), KeyIn(entries, x) = key
      PROVE  x \in NamesOn(entries, key)
  <2>1. Width(entries, x[1]) \in Nat /\ x[3] \in Nat
    BY <1>1, <1>3, EntryShape DEF NameSet
  <2>2. x[3] \in 1 .. Width(entries, x[1])
    BY <1>3, <2>1
  <2> QED BY <1>3, <2>2 DEF NamesOn
<1>4. ASSUME NEW x \in objs[at][key].held PROVE x \in NamesOn(entries, key)
  <2>1. KeyIn(entries, x) = key
    BY DEF BlockInv, HeldBySomeone
  <2>2. PICK u \in Threads : HolderOf(u, x)
    BY DEF BlockInv, HeldBySomeone
  <2>3. Executes(u) /\ x[1] = th[u].i /\ x[2] = th[u].j /\ 1 <= x[3] /\ x[3] <= Width(entries, x[1])
    BY <2>2 DEF HolderOf, Executes
  <2>4. th[u].i \in 1 .. Len(entries)
    BY <1>1, <2>3, ThreadEntry
  <2>5. th[u].j \in 1 .. entries[th[u].i].n
    BY <2>3 DEF Smooth
  <2> QED BY <1>2, <1>3, <2>1, <2>3, <2>4, <2>5
<1>5. ASSUME NEW x \in objs[at][key].done PROVE x \in NamesOn(entries, key)
  <2>1. x \in NameSet /\ Finished(x) /\ KeyIn(entries, x) = key
    BY <1>2 DEF BlockInv, DoneIsListed
  <2> DEFINE e == <<x[1], x[2]>>
  <2>2. e \in txset /\ e[1] = x[1] /\ e[2] = x[2] /\ 1 <= x[3] /\ x[3] <= Width(entries, x[1])
    BY <2>1 DEF Finished
  <2> HIDE DEF e
  <2>3. e[1] \in 1 .. Len(entries)
    BY <1>1, <2>2 DEF Types
  <2>4. e[2] \in 1 .. entries[e[1]].n
    BY <2>2 DEF Smooth
  <2> QED BY <1>3, <2>1, <2>2, <2>3, <2>4
<1> QED BY <1>4, <1>5

\* A delta of the block is admitted.
LEMMA PushSmooth ==
  ASSUME BlockInv, WholeInv, Smooth, NEW after, GoodBlock(entries, db[at], after),
         NEW t \in Threads, Push(t)
  PROVE  Smooth'
<1> DEFINE name == Named(t)
           key == KeyIn(entries, name)
           o == objs[at][key]
           E == Effects(entries, db[at])
           C == o.held \cup o.done \cup {name}
<1>1. th[t].pc = "push" /\ Executes(t) /\ th[t].pc \in Busy
  BY DEF Push, Executes, Busy
<1>2. UNCHANGED <<entries, txset, next, found_error>>
  BY DEF Push, machine, block_context
<1>3. 1 <= th[t].k /\ th[t].k <= Width(entries, th[t].i)
  BY <1>1 DEF BlockInv, Positioned
<1>4. /\ name \in NameSet /\ KeyOf(name) = key /\ key \in Keys
      /\ name[1] = th[t].i /\ name[2] = th[t].j /\ name[3] = th[t].k
      /\ Object(t) = o /\ at \in Nodes
  BY <1>1, <1>3, AtDelta DEF BlockInv, Types
<1>5. th[t].k \in Nat /\ Width(entries, th[t].i) \in Nat /\ th[t].i \in 1 .. Len(entries)
  BY <1>1, ThreadTypes, ThreadEntry DEF BlockInv
<1>6. name \in NamesOn(entries, key)
  <2>1. th[t].j \in 1 .. entries[th[t].i].n
    BY <1>1 DEF Smooth
  <2>2. th[t].k \in 1 .. Width(entries, th[t].i)
    BY <1>3, <1>5
  <2> HIDE DEF name
  <2> QED BY <1>4, <1>5, <2>1, <2>2 DEF NamesOn
<1>7. C \subseteq NamesOn(entries, key)
  BY <1>4, <1>6, OfTheBlock
<1>8. Firm(db[at][key], E, NamesOn(entries, key)) /\ Supply(db[at][key]) \in 0 .. MaxUint
  BY <1>4 DEF GoodBlock, WholeInv, Whole
<1>9. C \subseteq NameSet
  BY <1>7 DEF NamesOn
<1>10. \A y \in C : AllDeltas(C)[y] = E[y]
  <2> HIDE DEF C
  <2> QED BY <1>9, EffectsAre
<1>11. Admits(db[at][key], AllDeltas(C), o.held, o.done, name)
  <2> HIDE DEF o, E, name, key
  <2> QED BY <1>7, <1>8, <1>10, FirmAdmits
<1>12. ~IsInsert(name)
  <2>1. Plain(E[name])
    BY <1>6, <1>8 DEF Firm
  <2>2. E[name] = DeltaOf(name)
    BY <1>4 DEF Effects, DeltaIn, DeltaOf
  <2> HIDE DEF E, name
  <2> QED BY <2>1, <2>2, PlainClass DEF IsInsert
<1>13. Accepts(key, o, name)
  BY <1>11, <1>12 DEF Accepts
<1>14. Goto(t, "add", 1) \/ Goto(t, "push", th[t].k + 1)
  <2> HIDE DEF o, name, key
  <2> QED BY <1>4, <1>13 DEF Push, name
<1>15. th[t].k + 1 \in Nat /\ 1 \in Nat
  BY <1>5
<1>16. \E pc \in {"push", "add"}, k \in Nat : Goto(t, pc, k)
  BY <1>14, <1>15
<1> QED BY <1>1, <1>2, <1>16, SmoothGoto

\* A transaction of the block is listed.
LEMMA AddSmooth ==
  ASSUME BlockInv, Smooth, NEW after, GoodBlock(entries, db[at], after),
         NEW t \in Threads, AddTx(t)
  PROVE  Smooth'
<1>1. th[t].pc = "add" /\ Executes(t)
  BY DEF AddTx, Executes, Busy
<1>2. UNCHANGED <<entries, next, found_error>>
  BY DEF AddTx, machine
<1>3. Types /\ Ranges /\ th[t].i \in 1 .. Len(entries) /\ th[t].i <= th[t].hi
      /\ th[t].i \in Nat /\ th[t].hi \in Nat
  BY <1>1, ThreadEntry, ThreadTypes DEF BlockInv, Ranges
<1>4. entries[th[t].i].unused = FALSE
  BY <1>3 DEF GoodBlock
<1>5. ASSUME UniqueTxs, Listed(Tx(t)) PROVE FALSE
  <2>1. PICK e \in txset : entries[e[1]].tx = entries[th[t].i].tx
    BY <1>5 DEF Listed, Tx
  <2>2. e[1] \in 1 .. Len(entries) /\ e[2] \in Nat
    BY <1>3 DEF Types, IsList
  <2>3. e[1] = th[t].i
    BY <1>3, <2>1, <2>2 DEF GoodBlock
  <2>4. e[2] < th[t].j
    <3>1. th[t].i <= e[1] /\ e[1] <= th[t].hi
      BY <1>3, <2>3
    <3> QED BY <1>1, <3>1 DEF BlockInv, Lists, Committing
  <2>5. entries[th[t].i].n = 1
    BY <1>3, <1>5 DEF GoodBlock, UniqueTxs
  <2>6. e[2] \in 1 .. 1 /\ th[t].j \in 1 .. 1
    BY <1>1, <2>3, <2>5 DEF Smooth
  <2> QED BY <2>4, <2>6
<1>6. MayAdd(t)
  BY <1>4, <1>5 DEF MayAdd
<1>7. txset' = txset \cup {<<th[t].i, th[t].j>>} /\ Goto(t, "commit", 1) /\ 1 \in Nat
  BY <1>6 DEF AddTx
<1> QED BY <1>1, <1>2, <1>7, SmoothGoto

\* An execution ends, and the next one is before the thread.
LEMMA LogSmooth ==
  ASSUME BlockInv, Smooth, NEW after, GoodBlock(entries, db[at], after), stage = "validating",
         NEW t \in Threads, LogKeys(t)
  PROVE  Smooth'
<1> DEFINE n == entries[th[t].i].n
<1>1. th[t].pc = "commit" /\ Executes(t) /\ Return(t, TRUE)
  BY DEF LogKeys, Executes, Busy
<1>2. UNCHANGED <<entries, next, found_error, txset>>
  BY DEF LogKeys, machine
<1>3. /\ Types /\ th[t].i \in Nat /\ th[t].hi \in Nat /\ th[t].j \in Nat /\ th[t].hi < next
      /\ next \in 1 .. Len(entries) + 1 /\ Len(entries) \in Nat /\ th[t].i \in 1 .. Len(entries)
      /\ next \in Nat
  BY <1>1, ThreadEntry, ThreadTypes DEF BlockInv, Ranges, Types, IsList
<1>4. found_error = FALSE /\ th[t].err = FALSE /\ th[t].j \in 1 .. n /\ n \in Nat
  BY <1>1, <1>3 DEF Smooth, GoodBlock
<1>5. /\ \A u \in Threads : u # t => th'[u] = th[u]
      /\ th'[t].hi = th[t].hi /\ th'[t].err = FALSE
      /\ \/ /\ th[t].j < n /\ th'[t].pc = "run"
            /\ th'[t].i = th[t].i /\ th'[t].j = th[t].j + 1
         \/ /\ ~(th[t].j < n)
            /\ th'[t].pc = IF th[t].i < th[t].hi THEN "run" ELSE "read"
            /\ th'[t].i = th[t].i + 1 /\ th'[t].j = 1
  <2>1. TRUE \in BOOLEAN /\ stage # "assembling"
    OBVIOUS
  <2> QED BY <1>1, <1>3, <1>4, <2>1, ReturnFields
<1> HIDE DEF n
<1>6. CASE th[t].j < n
  <2>1. th'[t].pc = "run" /\ th'[t].i = th[t].i /\ th'[t].j = th[t].j + 1
    BY <1>5, <1>6
  <2>2. Executes(t)' /\ th'[t].j \in 1 .. entries[th'[t].i].n
    BY <1>3, <1>4, <1>6, <2>1 DEF Executes, n
  <2>3. ASSUME NEW i \in 1 .. next - 1, NEW j \in 1 .. entries[i].n, i >= next \/ Before(t, i, j)
        PROVE  Before(t, i, j)'
    <3>1. i \in Nat /\ Before(t, i, j)
      BY <1>3, <2>3
    <3>2. CASE th[t].i < i /\ i <= th[t].hi
      BY <1>5, <2>1, <2>2, <3>2 DEF Before
    <3>3. CASE i = th[t].i /\ th[t].j < j
      <4>1. j \in Int
        BY <1>4, <3>3 DEF n
      <4>2. th[t].j + 1 < j \/ th[t].j + 1 = j
        BY <1>3, <3>3, <4>1
      <4> QED BY <1>5, <2>1, <2>2, <3>3, <4>2 DEF Before
    <3> QED BY <1>1, <3>1, <3>2, <3>3 DEF Before
  <2>4. th'[t].pc # "undo" /\ next' \in Nat /\ txset' = txset /\ found_error' = FALSE
    BY <1>2, <1>3, <1>4, <2>1
  <2>5. ASSUME NEW i \in 1 .. next' - 1, NEW j \in 1 .. entries[i].n, i >= next \/ Before(t, i, j)
        PROVE  Before(t, i, j)'
    BY <1>2, <2>3, <2>5
  <2> QED BY <1>2, <1>3, <1>5, <2>2, <2>4, <2>5, SmoothStep
<1>7. CASE ~(th[t].j < n)
  <2>1. th'[t].pc = (IF th[t].i < th[t].hi THEN "run" ELSE "read") /\ th'[t].i = th[t].i + 1 /\ th'[t].j = 1
    BY <1>5, <1>7
  <2>2. th'[t].pc # "undo" /\ (Executes(t)' <=> th[t].i < th[t].hi)
    BY <2>1 DEF Executes, Busy
  <2>3. ASSUME Executes(t)' PROVE th'[t].j \in 1 .. entries[th'[t].i].n
    <3>1. th[t].i + 1 \in 1 .. Len(entries)
      BY <1>3, <2>2, <2>3
    <3>2. entries[th[t].i + 1].n \in Nat \ {0}
      BY <3>1 DEF GoodBlock
    <3> QED BY <2>1, <3>2
  <2>4. ASSUME NEW i \in 1 .. next - 1, NEW j \in 1 .. entries[i].n, i >= next \/ Before(t, i, j)
        PROVE  Before(t, i, j)'
    <3>1. i \in Nat /\ Before(t, i, j) /\ i \in 1 .. Len(entries)
      BY <1>3, <2>4
    <3>2. entries[i].n \in Nat
      BY <3>1 DEF GoodBlock
    <3>3. j \in Nat /\ 1 <= j /\ j <= entries[i].n
      BY <3>2
    <3>4. ~(i = th[t].i /\ th[t].j < j)
      BY <1>3, <1>4, <1>7, <3>3 DEF n
    <3>5. th[t].i < i /\ i <= th[t].hi
      BY <1>1, <3>1, <3>4 DEF Before
    <3>6. Executes(t)' /\ th'[t].pc = "run"
      BY <1>3, <2>1, <2>2, <3>1, <3>5
    <3>7. th[t].i + 1 < i \/ th[t].i + 1 = i
      BY <1>3, <3>1, <3>5
    <3>8. 1 < j \/ 1 = j
      BY <3>3
    <3> QED BY <1>5, <2>1, <3>5, <3>6, <3>7, <3>8 DEF Before
  <2>5. next' \in Nat /\ txset' = txset /\ found_error' = FALSE
    BY <1>2, <1>3, <1>4
  <2>6. ASSUME NEW i \in 1 .. next' - 1, NEW j \in 1 .. entries[i].n, i >= next \/ Before(t, i, j)
        PROVE  Before(t, i, j)'
    BY <1>2, <2>4, <2>6
  <2> QED BY <1>2, <1>3, <1>5, <2>2, <2>3, <2>5, <2>6, SmoothStep
<1> QED BY <1>6, <1>7

\* Every step of a thread, while a block that was proposed is validated on the
\* state that it was proposed for.
LEMMA WorkSmooth ==
  ASSUME BlockInv, WholeInv, Smooth, NEW after, GoodBlock(entries, db[at], after),
         stage = "validating", NEW t \in Threads, Work(t)
  PROVE  Smooth'
<1>1. /\ Types /\ next \in 1 .. Len(entries) + 1 /\ Len(entries) \in Nat /\ next \in Nat
      /\ found_error = FALSE /\ \A u \in Threads : th[u].err = FALSE /\ th[u].pc # "undo"
  BY DEF BlockInv, Types, IsList, Smooth
<1>2. CASE Run(t)
  <2>1. Executes(t) /\ th[t].pc = "run" /\ UNCHANGED <<entries, found_error, next, txset>>
    BY <1>2 DEF Run, Executes, machine, block_context
  <2>2. th[t].i \in 1 .. Len(entries)
    BY <2>1, ThreadEntry DEF BlockInv
  <2>3. ~HostError(Tx(t))
    BY <2>2 DEF GoodBlock, Fails, HostError, Tx
  <2>4. Goto(t, IF Writes(Tx(t)) = <<>> THEN "add" ELSE "push", 1)
    BY <1>2, <2>3 DEF Run
  <2>5. \E pc \in {"push", "add"}, k \in Nat : Goto(t, pc, k)
    BY <2>4
  <2> QED BY <2>1, <2>5, SmoothGoto
<1>3. CASE Push(t) \/ AddTx(t) \/ LogKeys(t)
  BY <1>3, PushSmooth, AddSmooth, LogSmooth
<1>4. CASE CommitOne(t)
  <2>1. Executes(t) /\ th[t].pc = "commit" /\ UNCHANGED <<entries, found_error, next, txset>>
        /\ Goto(t, "commit", th[t].k + 1)
    BY <1>4 DEF CommitOne, Executes, Busy, machine, block_context
  <2>2. th[t].k + 1 \in Nat
    BY <1>1, ThreadTypes
  <2> QED BY <2>1, <2>2, SmoothGoto
<1>5. CASE UndoOne(t) \/ Undone(t)
  BY <1>1, <1>5 DEF UndoOne, Undone
<1>6. CASE Fetch(t)
  BY <1>6 DEF Fetch
<1>7. CASE TakeRange(t)
  <2>1. th[t].pc = "idle" /\ UNCHANGED <<entries, found_error, txset>>
    BY <1>7 DEF TakeRange, machine, block_context
  <2>2. PICK hi \in next .. Len(entries) :
          /\ next' = hi + 1
          /\ Become(t, [Resting EXCEPT !.pc = "run", !.i = next, !.j = 1, !.hi = hi])
    BY <1>1, <1>7 DEF TakeRange
  <2> DEFINE s == [Resting EXCEPT !.pc = "run", !.i = next, !.j = 1, !.hi = hi]
  <2>3. s.pc = "run" /\ s.i = next /\ s.j = 1 /\ s.hi = hi /\ s.err = FALSE
    BY DEF Resting
  <2>4. Become(t, s)
    BY <2>2
  <2> HIDE DEF s
  <2>5. th'[t] = s /\ \A u \in Threads : u # t => th'[u] = th[u]
    BY <1>1, <2>4, BecomeStep
  <2>6. hi \in Nat /\ next <= hi /\ next' \in Nat /\ hi <= Len(entries)
    BY <1>1, <2>2
  <2>7. Executes(t)' /\ ~Executes(t)
    BY <2>1, <2>3, <2>5 DEF Executes, Busy
  <2>8. \A i \in 1 .. Len(entries) : entries[i].n \in Nat \ {0}
    BY DEF GoodBlock
  <2>9. next \in 1 .. Len(entries)
    BY <1>1, <2>6
  <2>10. th'[t].j \in 1 .. entries[th'[t].i].n
    BY <2>3, <2>5, <2>8, <2>9
  <2>11. ASSUME NEW i \in 1 .. next' - 1, NEW j \in 1 .. entries[i].n, i >= next \/ Before(t, i, j)
         PROVE  Before(t, i, j)'
    <3>1. i >= next /\ i \in Nat /\ i <= hi /\ i \in 1 .. Len(entries)
      BY <2>2, <2>6, <2>7, <2>11 DEF Before
    <3>2. 1 < j \/ 1 = j
      BY <2>8, <3>1
    <3>3. next < i \/ next = i
      BY <1>1, <3>1
    <3> QED BY <2>3, <2>5, <2>7, <3>1, <3>2, <3>3 DEF Before
  <2> QED BY <1>1, <2>1, <2>3, <2>5, <2>6, <2>10, <2>11, SmoothStep
<1>8. CASE ReadError(t) \/ StoreError(t)
  <2>1. th[t].pc \in {"read", "store"} /\ UNCHANGED <<entries, next, txset>>
    BY <1>8 DEF ReadError, StoreError, machine, block_context
  <2>2. found_error' = FALSE
    BY <1>1, <1>8 DEF ReadError, StoreError
  <2>3. /\ th'[t].err = FALSE /\ th'[t].pc \in {"store", "idle"}
        /\ \A u \in Threads : u # t => th'[u] = th[u]
    <3>1. CASE ReadError(t)
      <4> DEFINE s == [Resting EXCEPT !.pc = "store", !.err = FALSE]
      <4>1. (found_error \/ th[t].err) = FALSE
        BY <1>1
      <4>2. Become(t, s)
        BY <3>1, <4>1 DEF ReadError
      <4>3. s.pc = "store" /\ s.err = FALSE
        BY DEF Resting
      <4> HIDE DEF s
      <4> QED BY <1>1, <4>2, <4>3, BecomeStep
    <3>2. CASE StoreError(t)
      <4>1. Become(t, Resting) /\ Resting.pc = "idle" /\ Resting.err = FALSE
        BY <3>2 DEF StoreError, Resting
      <4> QED BY <1>1, <4>1, BecomeStep
    <3> QED BY <1>8, <3>1, <3>2
  <2>4. ~Executes(t) /\ ~Executes(t)'
    BY <2>1, <2>3 DEF Executes, Busy
  <2>5. \A i \in 1 .. next - 1 : \A j \in 1 .. entries[i].n : ~(i >= next \/ Before(t, i, j))
    BY <1>1, <2>4 DEF Before
  <2> QED BY <1>1, <2>1, <2>2, <2>3, <2>4, <2>5, SmoothStep
<1> QED BY <1>2, <1>3, <1>4, <1>5, <1>6, <1>7, <1>8 DEF Work, Execute

\* The first state, in which no block has been proposed.
LEMMA InitAgrees ==
  ASSUME Agreeable, Init
  PROVE  AgreeInv
<1>1. BlockInv /\ stage = "idle"
  BY InitRests DEF Init
<1>2. Types /\ AtRest
  BY <1>1 DEF BlockInv, IdleClean, OthersClean, AtRest
<1>3. FirmInv /\ RanInv /\ UniqueInv
  BY <1>2, RestAgrees
<1>4. WholeInv
  BY DEF Agreeable, WholeGenesis, WholeInv, Init
<1>5. \A t \in Threads : th[t] = Resting
  BY DEF Init
<1>6. ErrorInv
  BY <1>5 DEF ErrorInv, Init, Resting
<1>7. OfferInv /\ ValidInv
  BY DEF OfferInv, ValidInv, Init
<1> QED BY <1>3, <1>4, <1>6, <1>7 DEF AgreeInv

\* A block begins.
LEMMA BeginAgrees ==
  ASSUME BlockInv, BlockInv', AgreeInv, NEW n \in Nodes,
         \/ \E pool \in Pools : Propose(n, pool)
         \/ Validate(n)
         \/ \E block \in ForeignBlocks : ValidateForeign(n, block)
  PROVE  AgreeInv'
<1>1. /\ stage = "idle" /\ next' = 1
      /\ UNCHANGED <<db, objs, th, txset, found_error, offer>>
      /\ stage' \in {"assembling", "validating"}
      /\ stage' = "validating" /\ offer # NoOffer => entries' = offer.block
  BY DEF Propose, Validate, ValidateForeign, StartBlock, block_context
<1>2. Agreeable /\ WholeInv /\ ErrorInv /\ OfferInv
  BY DEF AgreeInv
<1>3. AtRest
  BY <1>1 DEF BlockInv, IdleClean, OthersClean, AtRest
<1>4. AtRest'
  BY <1>1, <1>3 DEF AtRest, Empty
<1>5. Types' /\ AtRest' => FirmInv' /\ RanInv' /\ UniqueInv'
  BY RestAgrees, PTL
<1>6. FirmInv' /\ RanInv' /\ UniqueInv'
  BY <1>4, <1>5 DEF BlockInv
<1>7. found_error = FALSE /\ \A t \in Threads : th[t].pc = "idle" /\ th[t].err = FALSE
  BY <1>1, <1>2, <1>3 DEF ErrorInv, AtRest
<1>8. WholeInv' /\ OfferInv' /\ ErrorInv'
  BY <1>1, <1>2, <1>7 DEF WholeInv, OfferInv, ErrorInv
<1>9. Smooth'
  <2>1. \A t \in Threads : ~Executes(t)' /\ th'[t].pc # "undo" /\ th'[t].err = FALSE
    BY <1>1, <1>7 DEF Executes, Busy
  <2>2. txset' = {} /\ found_error' = FALSE /\ 1 .. next' - 1 = {}
    BY <1>1, <1>3, <1>7 DEF AtRest
  <2> QED BY <2>1, <2>2 DEF Smooth
<1>10. ValidInv'
  BY <1>1, <1>9 DEF ValidInv
<1>11. Agreeable'
  BY <1>2 DEF Agreeable, SimplePrograms, WholeGenesis, OneKind
<1> QED BY <1>6, <1>8, <1>10, <1>11 DEF AgreeInv

\* A thread takes a step.
LEMMA WorkKeepsAgreement ==
  ASSUME BlockInv, AgreeInv, NEW t \in Threads, Work(t)
  PROVE  AgreeInv'
<1>1. FirmInv' /\ WholeInv' /\ RanInv' /\ UniqueInv' /\ ErrorInv' /\ OfferInv'
  BY WorkAgrees
<1>2. UNCHANGED <<db, stage, at, entries, offer>>
  BY WorkFrame
<1>3. ValidInv'
  <2> SUFFICES ASSUME stage = "validating", offer # NoOffer
               PROVE  entries = offer.block /\ (db[at] = offer.before => Smooth')
    BY <1>2 DEF ValidInv
  <2>1. entries = offer.block /\ (db[at] = offer.before => Smooth)
    BY DEF AgreeInv, ValidInv
  <2>2. ASSUME db[at] = offer.before PROVE Smooth'
    <3>1. GoodBlock(entries, db[at], offer.after)
      BY <2>1, <2>2 DEF AgreeInv, OfferInv
    <3>2. WholeInv
      BY DEF AgreeInv
    <3> QED BY <2>1, <2>2, <3>1, <3>2, WorkSmooth
  <2> QED BY <2>1, <2>2
<1>4. Agreeable'
  BY DEF AgreeInv, Agreeable, SimplePrograms, WholeGenesis, OneKind
<1> QED BY <1>1, <1>3, <1>4 DEF AgreeInv

\* A block ends.
LEMMA FinishAgrees ==
  ASSUME BlockInv, BlockInv', LegalInv, AgreeInv, Finish
  PROVE  AgreeInv'
<1>1. /\ AllIdle /\ stage' = "idle" /\ found_error' = FALSE /\ th' = th
      /\ UNCHANGED db \/ CommitBlock
      /\ FinishProposal \/ offer' = NoOffer
  BY DEF Finish, FinishProposal, Accept, Reject, Joined, ResetContext
<1>2. Agreeable /\ FirmInv /\ WholeInv /\ ErrorInv
  BY DEF AgreeInv
<1>3. Types' /\ AtRest'
  BY <1>1 DEF BlockInv, IdleClean, OthersClean, AtRest
<1>4. Types' /\ AtRest' => FirmInv' /\ RanInv' /\ UniqueInv'
  BY RestAgrees, PTL
<1>5. WholeInv'
  <2>1. CASE UNCHANGED db
    BY <1>2, <2>1 DEF WholeInv
  <2>2. CASE CommitBlock
    BY <1>1, <1>2, <2>2, CommittedIsWhole
  <2> QED BY <1>1, <2>1, <2>2
<1>6. ErrorInv'
  BY <1>1, <1>2 DEF ErrorInv, AllIdle
<1>7. OfferInv'
  BY <1>1, ProposalIsGood DEF OfferInv
<1>8. ValidInv'
  BY <1>1 DEF ValidInv
<1>9. Agreeable'
  BY <1>2 DEF Agreeable, SimplePrograms, WholeGenesis, OneKind
<1> QED BY <1>3, <1>4, <1>5, <1>6, <1>7, <1>8, <1>9 DEF AgreeInv

\* When the last thread has joined, every execution of the block is listed.
LEMMA JoinedOutcome ==
  ASSUME BlockInv, LegalInv, FirmInv, Smooth, NEW after, GoodBlock(entries, db[at], after),
         Joined, CommitBlock
  PROVE  db'[at] = after
<1>1. /\ AllIdle /\ next = Len(entries) + 1 /\ Len(entries) \in Nat /\ at \in Nodes
  BY DEF Joined, BlockInv, Types, IsList
<1>2. ASSUME NEW key \in Keys PROVE objs[at][key].done = NamesOn(entries, key)
  <2>1. objs[at][key].done \subseteq NamesOn(entries, key)
    BY OfTheBlock
  <2>2. ASSUME NEW x \in NamesOn(entries, key) PROVE x \in objs[at][key].done
    <3>1. /\ x \in NameSet /\ x[1] \in 1 .. Len(entries) /\ x[2] \in 1 .. entries[x[1]].n
          /\ x[3] \in 1 .. Width(entries, x[1]) /\ KeyIn(entries, x) = key
      BY DEF NamesOn
    <3>2. x[1] \in 1 .. next - 1
      BY <1>1, <3>1
    <3>3. \A t \in Threads : \A i, j : ~Before(t, i, j)
      BY <1>1 DEF AllIdle, Before, Executes, Busy
    <3>4. <<x[1], x[2]>> \in txset
      BY <3>1, <3>2, <3>3 DEF Smooth
    <3>5. 1 <= x[3] /\ x[3] <= Width(entries, x[1])
      <4>1. Width(entries, x[1]) \in Nat
        BY <3>1, EntryShape DEF BlockInv, Types
      <4> QED BY <3>1, <4>1
    <3> QED BY <1>1, <3>1, <3>4, <3>5, IdleIsSettled
  <2> QED BY <2>1, <2>2
<1>3. db'[at] = [key \in Keys |->
        Outcome(db[at][key], Effects(entries, db[at]), objs[at][key].done)]
  BY <1>1, CommittedState
<1>4. after = [key \in Keys |->
        Outcome(db[at][key], Effects(entries, db[at]), NamesOn(entries, key))]
  BY DEF GoodBlock
<1> QED BY <1>2, <1>3, <1>4

\* What one machine proposes, another machine in the same state accepts, and it
\* is then in the same state again, whatever the interleavings of the threads
\* of the one and of the other: for programs that add to integers, set them,
\* write memory and delete, and machines that all have the same kind of tx_set.
THEOREM ProposalsAreValid == Agreeable /\ Spec => ProposedIsValid
<1> DEFINE A == stage = "validating" /\ stage' = "idle" /\ offer # NoOffer /\ db[at] = offer.before
                  => ~found_error /\ db'[at] = offer.after
<1>1. Agreeable /\ Init => AgreeInv
  BY InitAgrees
<1>2. BlockInv /\ BlockInv' /\ LegalInv /\ AgreeInv /\ [Next]_vars => AgreeInv'
  <2> SUFFICES ASSUME BlockInv, BlockInv', LegalInv, AgreeInv, [Next]_vars PROVE AgreeInv'
    OBVIOUS
  <2>1. CASE \/ \E n \in Nodes, pool \in Pools : Propose(n, pool)
             \/ \E n \in Nodes : Validate(n)
             \/ \E n \in Nodes, block \in ForeignBlocks : ValidateForeign(n, block)
    BY <2>1, BeginAgrees
  <2>2. CASE \E t \in Threads : Work(t)
    BY <2>2, WorkKeepsAgreement
  <2>3. CASE Finish
    BY <2>3, FinishAgrees
  <2>4. CASE UNCHANGED vars
    <3>1. UNCHANGED <<db, objs, stage, at, entries, next, th, txset, logged, found_error, offer>>
      BY <2>4 DEF vars
    <3>2. FirmInv' /\ WholeInv' /\ RanInv' /\ UniqueInv' /\ ErrorInv' /\ OfferInv'
      BY <3>1 DEF AgreeInv, FirmInv, WholeInv, RanInv, UniqueInv, ErrorInv, OfferInv
    <3>3. ValidInv'
      BY <3>1 DEF AgreeInv, ValidInv, Smooth, Before, Executes
    <3>4. Agreeable'
      BY DEF AgreeInv, Agreeable, SimplePrograms, WholeGenesis, OneKind
    <3> QED BY <3>2, <3>3, <3>4 DEF AgreeInv
  <2> QED BY <2>1, <2>2, <2>3, <2>4 DEF Next
<1>3. BlockInv /\ LegalInv /\ AgreeInv /\ [Next]_vars => [A]_vars
  <2> SUFFICES ASSUME BlockInv, LegalInv, AgreeInv, Next, stage = "validating", stage' = "idle",
                      offer # NoOffer, db[at] = offer.before
               PROVE  ~found_error /\ db'[at] = offer.after
    OBVIOUS
  <2>1. entries = offer.block /\ Smooth /\ found_error = FALSE /\ FirmInv
    BY DEF AgreeInv, ValidInv, Smooth
  <2>2. GoodBlock(entries, db[at], offer.after)
    BY <2>1 DEF AgreeInv, OfferInv
  <2>3. ~\E t \in Threads : Work(t)
    BY WorkFrame
  <2>4. Finish
    BY <2>3 DEF Next, Propose, Validate, ValidateForeign, StartBlock
  <2>5. Joined /\ CommitBlock
    BY <2>1, <2>4 DEF Finish, FinishProposal, Accept, Reject
  <2> QED BY <2>1, <2>2, <2>5, JoinedOutcome
<1> QED BY <1>1, <1>2, <1>3, BlockInvariant, AnyOutcomeOfABlockIsLegal, PTL DEF Spec, ProposedIsValid
=============================================================================
