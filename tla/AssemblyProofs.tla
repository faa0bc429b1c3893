--------------------------- MODULE AssemblyProofs ---------------------------
(***************************************************************************)
(* Proofs about Assembly, for any number of workers, any transactions and  *)
(* any limits.                                                             *)
(*                                                                         *)
(*   StrayInv   who has a job and a slot of the rate limiter, by the place *)
(*              of the proposer; implies NoStrayWorker                     *)
(*   PoolInv    what each slot of the ring holds; with StrayInv implies    *)
(*              NoneLostOrTwice, if the ring is roomy                      *)
(*   LimitInv   who holds which part of the limits of a block; with the    *)
(*              other two implies LimitsHold                               *)
(*                                                                         *)
(* Each is proved inductive worker action by worker action; most of these  *)
(* are instances of one frame lemma (QuietStep, PoolQuiet, LimitQuiet).    *)
(***************************************************************************)
EXTENDS Assembly, SumTheorems

-----------------------------------------------------------------------------
(* Workers, jobs and slots                                                 *)

Labels == {"parked", "open", "slow", "fetch", "move", "reserve", "unslot", "gas", "ungas",
           "run", "send", "query", "unrecoverable", "commit", "undo", "return"}
Places == {"idle", "start", "wait", "stop", "unslot", "cancel", "join", "close"}

\* The types of the threads' places and of the rate limiter.
SlotTypes ==
    /\ wpc \in [Workers -> Labels]
    /\ has_slot \in [Workers -> BOOLEAN]
    /\ job \in [Workers -> BOOLEAN]
    /\ mpc \in Places
    /\ turn \in Workers

\* active counts the slots that are held.
SlotsHeld(H) == {w \in Workers : H[w]}
SlotsCounted == active = Cardinality(SlotsHeld(has_slot))

\* Who has a job and a slot, and what the limiter allows, by the place of the
\* proposer: only a worker that it has yet to join can be anywhere.
JobsOfTheBlock ==
    /\ \A w \in Workers : wpc[w] = "parked" => ~has_slot[w]
    /\ \A w \in Workers : wpc[w] # "parked" => job[w]
    /\ \A w \in Workers : job[w] => /\ mpc \notin {"idle", "close"}
                                    /\ mpc = "join" => turn <= w
    /\ mpc \in {"start", "wait", "stop", "unslot"} => max_active = Cardinality(Workers)
    /\ mpc \in {"unslot", "cancel", "join", "close"} => shutdown
    /\ mpc \in {"cancel", "join", "close"} => max_active = 0
    /\ \A w \in Workers : wpc[w] = "slow" => mpc \in {"cancel", "join"}

StrayInv == SlotTypes /\ SlotsCounted /\ JobsOfTheBlock

\* The workers are numbered from 1, and after each but the last comes a next one.
LEMMA WorkersNumbered ==
  /\ Cardinality(Workers) \in Nat
  /\ 1 \in Workers
  /\ \A w \in Workers : w \in Nat /\ 1 <= w /\ w <= Cardinality(Workers)
  /\ \A w \in Workers : w # Cardinality(Workers) => w + 1 \in Workers
<1>1. Cardinality(Workers) \in Nat
  BY AssemblyAssumption, FS_CardinalityType
<1> QED BY <1>1, AssemblyAssumption

\* No more slots are held than there are workers.
LEMMA SlotsBounded ==
  ASSUME NEW H \in [Workers -> BOOLEAN]
  PROVE  /\ IsFiniteSet(SlotsHeld(H))
         /\ Cardinality(SlotsHeld(H)) \in 0 .. Cardinality(Workers)
<1>1. SlotsHeld(H) \subseteq Workers
  BY DEF SlotsHeld
<1> HIDE DEF SlotsHeld
<1>2. IsFiniteSet(SlotsHeld(H)) /\ Cardinality(SlotsHeld(H)) <= Cardinality(Workers)
  BY <1>1, FS_Subset, AssemblyAssumption
<1> QED BY <1>2, FS_CardinalityType, WorkersNumbered

\* claim_one_slot by a worker without a slot.
LEMMA ClaimCounts ==
  ASSUME NEW H \in [Workers -> BOOLEAN], NEW w \in Workers, ~H[w]
  PROVE  Cardinality(SlotsHeld([H EXCEPT ![w] = TRUE])) = Cardinality(SlotsHeld(H)) + 1
<1>1. SlotsHeld([H EXCEPT ![w] = TRUE]) = SlotsHeld(H) \cup {w} /\ w \notin SlotsHeld(H)
  BY DEF SlotsHeld
<1>2. IsFiniteSet(SlotsHeld(H))
  BY SlotsBounded
<1> HIDE DEF SlotsHeld
<1> QED BY <1>1, <1>2, FS_AddElement

\* free_one_slot, by a worker with or without one.
LEMMA FreeCounts ==
  ASSUME NEW H \in [Workers -> BOOLEAN], NEW w \in Workers
  PROVE  Cardinality(SlotsHeld([H EXCEPT ![w] = FALSE])) =
           Cardinality(SlotsHeld(H)) - (IF H[w] THEN 1 ELSE 0)
<1>2. IsFiniteSet(SlotsHeld(H)) /\ Cardinality(SlotsHeld(H)) \in Nat
  BY SlotsBounded, FS_CardinalityType
<1>3. CASE ~H[w]
  <2>1. [H EXCEPT ![w] = FALSE] = H
    BY <1>3
  <2>2. (IF H[w] THEN 1 ELSE 0) = 0
    BY <1>3
  <2>3. Cardinality(SlotsHeld(H)) = Cardinality(SlotsHeld(H)) - 0
    BY <1>2
  <2> QED BY <2>1, <2>2, <2>3, Zenon
<1>4. CASE H[w]
  <2>1. SlotsHeld([H EXCEPT ![w] = FALSE]) = SlotsHeld(H) \ {w} /\ w \in SlotsHeld(H)
    BY <1>4 DEF SlotsHeld
  <2> HIDE DEF SlotsHeld
  <2>2. Cardinality(SlotsHeld(H) \ {w}) = Cardinality(SlotsHeld(H)) - 1
    BY <2>1, <1>2, FS_RemoveElement
  <2> QED BY <2>1, <2>2, <1>4
<1> QED BY <1>3, <1>4

\* The workers' steps that leave limiter, jobs and proposer alone.
LEMMA QuietStep ==
  ASSUME StrayInv, NEW w \in Workers, wpc[w] # "parked", 
         NEW l \in Labels \ {"parked", "slow"}, Goto(w, l), UNCHANGED <<limiter, job, proposer>>
  PROVE  StrayInv'
<1>1. SlotTypes'
  BY DEF StrayInv, SlotTypes, Goto, limiter, proposer
<1>2. SlotsCounted'
  BY DEF StrayInv, SlotsCounted, limiter
<1>3. JobsOfTheBlock'
  BY DEF StrayInv, SlotTypes, JobsOfTheBlock, Goto, limiter, proposer
<1> QED BY <1>1, <1>2, <1>3 DEF StrayInv

\* The steps of a worker: those that touch the limiter or the job, and the quiet ones.
LEMMA StrayWorkerStep ==
  ASSUME StrayInv, NEW w \in Workers, WorkerStep(w)
  PROVE  StrayInv'
<1> USE DEF limiter, proposer
<1> DEFINE Quiet == \E l \in Labels \ {"parked", "slow"} :
                      wpc[w] # "parked" /\ Goto(w, l) /\ UNCHANGED <<limiter, job, proposer>>
<1>0. Quiet => StrayInv'
  <2> SUFFICES ASSUME Quiet PROVE StrayInv'
    OBVIOUS
  <2>1. PICK l \in Labels \ {"parked", "slow"} :
          wpc[w] # "parked" /\ Goto(w, l) /\ UNCHANGED <<limiter, job, proposer>>
    BY Zenon
  <2> QED BY <2>1, QuietStep
<1>1. CASE Begin(w)
  <2>1. ~has_slot[w] /\ job[w] /\ wpc[w] = "parked" /\ Goto(w, "open") /\ claim_one_slot(w)
        /\ UNCHANGED <<max_active, shutdown, job, proposer>>
    BY <1>1 DEF Begin, StrayInv, JobsOfTheBlock
  <2>2. SlotTypes'
    BY <2>1 DEF StrayInv, SlotTypes, Goto, Labels, claim_one_slot
  <2>3. SlotsCounted'
    BY <2>1, ClaimCounts DEF StrayInv, SlotTypes, SlotsCounted, claim_one_slot
  <2>4. JobsOfTheBlock'
    BY <2>1 DEF StrayInv, SlotTypes, JobsOfTheBlock, Goto, claim_one_slot
  <2> QED BY <2>2, <2>3, <2>4 DEF StrayInv
<1>2. CASE FastPath(w)
  <2>1. CASE active <= max_active
    <3>1. Quiet
      <4>0. job[w]
        BY <1>2 DEF FastPath, StrayInv, JobsOfTheBlock
      <4>1. active \in Int /\ max_active \in Int
        BY <4>0, SlotsBounded, WorkersNumbered DEF StrayInv, SlotTypes, SlotsCounted, JobsOfTheBlock, Places
      <4>2. wpc[w] # "parked" /\ Goto(w, "fetch") /\ UNCHANGED <<limiter, job, proposer>>
        BY <1>2, <2>1, <4>1 DEF FastPath
      <4> QED BY <4>2 DEF Labels
    <3> QED BY <3>1, <1>0
  <2>2. CASE ~(active <= max_active)
    <3>1. wpc[w] = "open" /\ Goto(w, "slow") /\ free_one_slot(w) /\ UNCHANGED <<max_active, shutdown, job, proposer>>
      BY <1>2, <2>2 DEF FastPath
    <3>2. mpc \in {"cancel", "join"}
      <4>1. job[w]
        BY <3>1 DEF StrayInv, JobsOfTheBlock
      <4>2. active <= Cardinality(Workers)
        BY SlotsBounded, WorkersNumbered DEF StrayInv, SlotTypes, SlotsCounted
      <4>3. max_active # Cardinality(Workers)
        BY <2>2, <4>2
      <4> QED BY <4>1, <4>3 DEF StrayInv, JobsOfTheBlock, SlotTypes, Places
    <3>3. SlotTypes'
      BY <3>1 DEF StrayInv, SlotTypes, Goto, Labels, free_one_slot
    <3>4. SlotsCounted'
      BY <3>1, FreeCounts DEF StrayInv, SlotTypes, SlotsCounted, free_one_slot
    <3>5. JobsOfTheBlock'
      BY <3>1, <3>2 DEF StrayInv, SlotTypes, JobsOfTheBlock, Goto, free_one_slot
    <3> QED BY <3>3, <3>4, <3>5 DEF StrayInv
  <2> QED BY <2>1, <2>2
<1>3. CASE SlowPath(w)
  <2>1. shutdown /\ wpc[w] = "slow"
    BY <1>3 DEF SlowPath, StrayInv, JobsOfTheBlock
  <2>2. wpc[w] # "parked" /\ Goto(w, "return") /\ UNCHANGED <<limiter, job, proposer>>
    BY <1>3, <2>1 DEF SlowPath
  <2> QED BY <2>2, <1>0 DEF Labels
<1>4. CASE Fetch(w)
  BY <1>0, <1>4 DEF Fetch, GiveUp, Labels
<1>5. CASE Move(w)
  BY <1>0, <1>5 DEF Move, Labels
<1>6. CASE ReserveSlot(w)
  BY <1>0, <1>6 DEF ReserveSlot, GiveUp, Labels, not_limits
<1>7. CASE ReturnSlot(w)
  BY <1>0, <1>7 DEF ReturnSlot, GiveUp, Labels, not_limits
<1>8. CASE ReserveGas(w)
  BY <1>0, <1>8 DEF ReserveGas, GiveUp, Labels, not_limits
<1>9. CASE ReturnGas(w)
  BY <1>0, <1>9 DEF ReturnGas, GiveUp, Labels, not_limits
<1>10. CASE Execute(w)
  BY <1>0, <1>10 DEF Execute, Labels, not_rpc
<1>11. CASE SendQuery(w)
  BY <1>0, <1>11 DEF SendQuery, Labels, not_rpc
<1>12. CASE Receive(w)
  BY <1>0, <1>12 DEF Receive, Labels, not_rpc
<1>13. CASE Commit(w)
  BY <1>0, <1>13 DEF Commit, Finished, Labels, not_limits
<1>14. CASE Undo(w)
  BY <1>0, <1>14 DEF Undo, Finished, Labels, not_limits
<1>15. CASE Park(w)
  <2>1. wpc[w] = "return" /\ Goto(w, "parked") /\ free_one_slot(w) /\ job' = [job EXCEPT ![w] = FALSE]
        /\ UNCHANGED <<max_active, shutdown, proposer>>
    BY <1>15 DEF Park
  <2>2. SlotTypes'
    BY <2>1 DEF StrayInv, SlotTypes, Goto, Labels, free_one_slot
  <2>3. SlotsCounted'
    BY <2>1, FreeCounts DEF StrayInv, SlotTypes, SlotsCounted, free_one_slot
  <2>4. JobsOfTheBlock'
    BY <2>1 DEF StrayInv, SlotTypes, JobsOfTheBlock, Goto, free_one_slot
  <2> QED BY <2>2, <2>3, <2>4 DEF StrayInv
<1> QED
  BY <1>1, <1>2, <1>3, <1>4, <1>5, <1>6, <1>7, <1>8, <1>9, <1>10, <1>11, <1>12,
     <1>13, <1>14, <1>15 DEF WorkerStep

\* The steps of propose_tx_block.
LEMMA StrayProposerStep ==
  ASSUME StrayInv, StartThreads \/ Finish
  PROVE  StrayInv'
<1> USE DEF limiter, not_main
<1>0. SlotTypes /\ SlotsCounted /\ JobsOfTheBlock
  BY DEF StrayInv
<1>1. SlotsCounted'
  BY <1>0 DEF SlotsCounted, StartThreads, Finish, StartWorker, WaitFor, StopThreads, ResetMaxActive, CancelRpc, Join, Close
<1>2. CASE StartThreads
  BY <1>0, <1>1, <1>2, WorkersNumbered
     DEF StartThreads, prep_for_notify, StrayInv, SlotTypes, JobsOfTheBlock, Places
<1>3. CASE StartWorker
  BY <1>0, <1>1, <1>3, WorkersNumbered
     DEF StartWorker, LastTurn, StrayInv, SlotTypes, JobsOfTheBlock, Places
<1>4. CASE WaitFor
  BY <1>0, <1>1, <1>4 DEF WaitFor, StrayInv, SlotTypes, JobsOfTheBlock, Places
<1>5. CASE StopThreads
  BY <1>0, <1>1, <1>5 DEF StopThreads, StrayInv, SlotTypes, JobsOfTheBlock, Places
<1>6. CASE ResetMaxActive
  BY <1>0, <1>1, <1>6, WorkersNumbered DEF ResetMaxActive, StrayInv, SlotTypes, JobsOfTheBlock, Places
<1>7. CASE CancelRpc
  BY <1>0, <1>1, <1>7, WorkersNumbered DEF CancelRpc, LastTurn, StrayInv, SlotTypes, JobsOfTheBlock, Places
<1>8. CASE Join
  BY <1>0, <1>1, <1>8, WorkersNumbered DEF Join, LastTurn, StrayInv, SlotTypes, JobsOfTheBlock, Places
<1>9. CASE Close
  BY <1>0, <1>1, <1>9, WorkersNumbered DEF Close, StrayInv, SlotTypes, JobsOfTheBlock, Places
<1> QED BY <1>2, <1>3, <1>4, <1>5, <1>6, <1>7, <1>8, <1>9 DEF Finish

\* Every step keeps StrayInv: add_txs and answers from outside touch none of it.
LEMMA StrayNext ==
  ASSUME StrayInv, [Next]_vars
  PROVE  StrayInv'
<1>1. CASE UNCHANGED <<wpc, limiter, job, proposer>>
  BY <1>1 DEF StrayInv, SlotTypes, SlotsCounted, JobsOfTheBlock, limiter, proposer
<1>2. CASE UNCHANGED vars
  BY <1>2, <1>1 DEF vars
<1>3. ASSUME NEW batch \in Batches, AddLoad(batch) PROVE StrayInv'
  BY <1>1, <1>3 DEF AddLoad
<1>4. CASE AddWrite
  BY <1>1, <1>4 DEF AddWrite
<1>5. CASE AddStore
  BY <1>1, <1>5 DEF AddStore
<1>6. ASSUME NEW w \in Workers, Answer(w) PROVE StrayInv'
  BY <1>1, <1>6 DEF Answer, not_rpc
<1> QED
  BY <1>2, <1>3, <1>4, <1>5, <1>6, StrayWorkerStep, StrayProposerStep DEF Next

\* StrayInv holds initially.
LEMMA StrayInit == Init => StrayInv
<1> SUFFICES ASSUME Init PROVE StrayInv
  OBVIOUS
<1>1. SlotTypes
  BY WorkersNumbered DEF Init, SlotTypes, Labels, Places
<1>2. SlotsHeld(has_slot) = {}
  BY DEF Init, SlotsHeld
<1>3. SlotsCounted
  BY <1>2, FS_EmptySet DEF Init, SlotsCounted
<1>4. JobsOfTheBlock
  BY DEF Init, JobsOfTheBlock
<1> QED BY <1>1, <1>3, <1>4 DEF StrayInv

\* StrayInv implies the property.
LEMMA StrayImplies == StrayInv => NoStrayWorker
<1> SUFFICES ASSUME StrayInv PROVE NoStrayWorker
  OBVIOUS
<1>0. SlotTypes /\ SlotsCounted /\ JobsOfTheBlock
  BY DEF StrayInv
<1>1. \A w \in Workers : wpc[w] \notin {"aborted", "thrown"}
  BY <1>0 DEF SlotTypes, Labels
<1>2. active = Cardinality({w \in Workers : has_slot[w]})
  BY <1>0 DEF SlotsCounted, SlotsHeld
<1>3. ASSUME mpc \in {"idle", "close"} PROVE active = 0 /\ \A w \in Workers : wpc[w] = "parked"
  <2>1. \A w \in Workers : wpc[w] = "parked" /\ ~has_slot[w]
    BY <1>0, <1>3 DEF JobsOfTheBlock
  <2>2. SlotsHeld(has_slot) = {}
    BY <2>1 DEF SlotsHeld
  <2> QED BY <2>1, <2>2, <1>0, FS_EmptySet DEF SlotsCounted
<1> QED BY <1>1, <1>2, <1>3 DEF NoStrayWorker

\* The rate limiter, for any number of workers: slowpath_wait_for_opening never
\* reaches its abort, no worker claims a second slot, and between blocks every
\* worker is parked and every slot is free.
THEOREM WorkersNeverStray == Spec => []NoStrayWorker
<1>1. Init => StrayInv
  BY StrayInit
<1>2. StrayInv /\ [Next]_vars => StrayInv'
  BY StrayNext
<1> QED BY <1>1, <1>2, StrayImplies, PTL DEF Spec

-----------------------------------------------------------------------------
(* The mempool                                                             *)

\* The mempool is filled between blocks, and never wraps: the transactions
\* that it is ever given fit into the ring.
RoomyRing == ~Overlap /\ Cardinality(Txs) < MAX_MEMPOOL_SIZE

\* The labels at which a worker has a transaction of its own.
Carrying == {"reserve", "unslot", "gas", "ungas", "run", "send", "query", "unrecoverable", "commit", "undo"}

PoolTypes ==
    /\ ring \in [0 .. MAX_MEMPOOL_SIZE - 1 -> Txs \cup {Moved}]
    /\ consumed \in Nat /\ filled \in Nat
    /\ accepted \subseteq Txs
    /\ claimed \in [Txs -> 0 .. 1]
    /\ DOMAIN tx = Workers
    /\ filled = Cardinality(accepted)

\* The slots that are left hold exactly the transactions to be handed out,
\* each once.
PoolHolds ==
    /\ \A i \in consumed .. filled - 1 : ring[i] \in accepted /\ claimed[ring[i]] = 0
    /\ \A i, j \in consumed .. filled - 1 : ring[i] = ring[j] => i = j
    /\ \A t \in accepted : claimed[t] = 0 => \E i \in consumed .. filled - 1 : ring[i] = t
    /\ \A t \in Txs \ accepted : claimed[t] = 0

\* The slots that were handed out and not yet moved from are different ones,
\* and hold transactions.
SlotsToMove ==
    /\ \A w \in Workers : wpc[w] = "move" =>
         /\ tx[w] \in 0 .. filled - 1 /\ tx[w] < consumed
         /\ ring[tx[w]] \in Txs
    /\ \A v, w \in Workers : wpc[v] = "move" /\ wpc[w] = "move" /\ tx[v] = tx[w] => v = w
    /\ \A w \in Workers : wpc[w] \in Carrying => tx[w] \in Txs

\* What add_txs has read is still true when it stores: no worker runs.
ProducerAlone ==
    \/ producer = Idle
    \/ /\ mpc = "idle"
       /\ producer \in [pc : {"write", "store"}, consumed : Nat, filled : Nat, batch : Batches]
       /\ producer.filled = filled
       /\ producer.consumed = (IF consumed <= filled THEN consumed ELSE filled)
       /\ ToSet(producer.batch) \cap accepted = {}
       /\ producer.pc = "store" => \A k \in 1 .. Len(producer.batch) :
                                      ring[filled + k - 1] = producer.batch[k]

PoolInv == PoolTypes /\ PoolHolds /\ SlotsToMove /\ ProducerAlone

\* An index below the size of the ring is its own slot.
LEMMA SmallMod == ASSUME NEW x \in Nat, NEW m \in Nat, x < m PROVE x % m = x
OBVIOUS

\* The ring has at least one slot.
LEMMA RingSize == MAX_MEMPOOL_SIZE \in Nat /\ MAX_MEMPOOL_SIZE > 0
BY AssemblyAssumption

\* A batch of transactions that were not accepted before fits into the ring.
LEMMA BatchFits ==
  ASSUME RoomyRing, NEW A \in SUBSET Txs, NEW b \in Batches, ToSet(b) \cap A = {}
  PROVE  /\ b \in Seq(Txs) /\ Len(b) \in Nat /\ IsInjective(b)
         /\ ToSet(b) = {b[k] : k \in 1 .. Len(b)} /\ ToSet(b) \subseteq Txs
         /\ Cardinality(A) \in Nat
         /\ Cardinality(A \cup ToSet(b)) = Cardinality(A) + Len(b)
         /\ Cardinality(A) + Len(b) < MAX_MEMPOOL_SIZE
<1>1. b \in Seq(Txs) /\ Len(b) \in Nat /\ IsInjective(b) /\ DOMAIN b = 1 .. Len(b)
  BY AssemblyAssumption
<1>2. ToSet(b) = {b[k] : k \in 1 .. Len(b)} /\ ToSet(b) \subseteq Txs
  BY <1>1 DEF ToSet
<1>3. b \in Bijection(1 .. Len(b), ToSet(b))
  <2>1. b \in [1 .. Len(b) -> ToSet(b)]
    BY <1>1, <1>2
  <2> QED BY <1>1, <1>2, <2>1, Zenon DEF Bijection, Injection, Surjection
<1>4. IsFiniteSet(ToSet(b)) /\ Cardinality(ToSet(b)) = Cardinality(1 .. Len(b))
  <2>1. IsFiniteSet(1 .. Len(b))
    BY <1>1, FS_Interval
  <2>2. ExistsBijection(1 .. Len(b), ToSet(b))
    BY <1>3, Zenon DEF ExistsBijection
  <2> QED BY <2>1, <2>2, FS_Bijection, Zenon
<1>5. Cardinality(1 .. Len(b)) = Len(b)
  BY <1>1, FS_Interval
<1>6. IsFiniteSet(A) /\ IsFiniteSet(A \cup ToSet(b))
      /\ Cardinality(A \cup ToSet(b)) <= Cardinality(Txs)
  <2>1. A \cup ToSet(b) \subseteq Txs
    BY <1>2
  <2> HIDE DEF ToSet
  <2> QED BY <2>1, FS_Subset, AssemblyAssumption
<1>7. Cardinality(A \cup ToSet(b)) = Cardinality(A) + Cardinality(ToSet(b)) - Cardinality(A \cap ToSet(b))
  BY <1>4, <1>6, FS_Union
<1>8. Cardinality(A \cap ToSet(b)) = 0
  <2>1. A \cap ToSet(b) = {}
    OBVIOUS
  <2> QED BY <2>1, FS_EmptySet, Zenon
<1>9. Cardinality(A) \in Nat /\ Cardinality(Txs) \in Nat
  BY <1>6, FS_CardinalityType, AssemblyAssumption
<1> QED BY <1>1, <1>2, <1>4, <1>5, <1>6, <1>7, <1>8, <1>9, RingSize DEF RoomyRing

\* filled is below the size of the ring.
LEMMA FilledBelow ==
  ASSUME RoomyRing, NEW A \in SUBSET Txs
  PROVE  Cardinality(A) \in Nat /\ Cardinality(A) < MAX_MEMPOOL_SIZE
<1>1. IsFiniteSet(A) /\ Cardinality(A) <= Cardinality(Txs)
  BY FS_Subset, AssemblyAssumption
<1>2. Cardinality(A) \in Nat /\ Cardinality(Txs) \in Nat
  BY <1>1, FS_CardinalityType, AssemblyAssumption
<1> QED BY <1>1, <1>2, RingSize DEF RoomyRing

\* add_txs writes the whole batch.
LEMMA WritesAll ==
  ASSUME RoomyRing, PoolTypes, ProducerAlone, producer # Idle
  PROVE  /\ WriteNow(producer) = Len(producer.batch)
         /\ producer.batch \in Batches
         /\ ToSet(producer.batch) \cap accepted = {}
         /\ producer.filled = filled
         /\ producer.consumed = (IF consumed <= filled THEN consumed ELSE filled)
         /\ mpc = "idle"
         /\ producer.pc = "store" => \A k \in 1 .. Len(producer.batch) :
                                        ring[filled + k - 1] = producer.batch[k]
<1>1. /\ producer.batch \in Batches /\ ToSet(producer.batch) \cap accepted = {}
      /\ producer.filled = filled
      /\ producer.consumed = (IF consumed <= filled THEN consumed ELSE filled)
      /\ mpc = "idle"
      /\ producer.pc = "store" => \A k \in 1 .. Len(producer.batch) :
                                        ring[filled + k - 1] = producer.batch[k]
  BY DEF ProducerAlone
<1>2. Len(producer.batch) \in Nat /\ filled + Len(producer.batch) < MAX_MEMPOOL_SIZE
  BY <1>1, BatchFits DEF PoolTypes
<1> DEFINE room == MAX_MEMPOOL_SIZE - (producer.filled - producer.consumed)
<1>3. room \in Int /\ Len(producer.batch) <= room
  BY <1>1, <1>2, RingSize DEF PoolTypes
<1>4. WriteNow(producer) = Min({room, Len(producer.batch)})
  BY DEF WriteNow, UsedSpace
<1> HIDE DEF room
<1>5. WriteNow(producer) = Len(producer.batch)
  BY <1>2, <1>3, <1>4, MinPair
<1> QED BY <1>1, <1>5

\* Steps that leave the mempool alone and send no worker to move.
LEMMA PoolQuiet ==
  ASSUME PoolInv, UNCHANGED mempool, DOMAIN tx' = Workers,
         producer = Idle \/ mpc' = mpc,
         \A w \in Workers : wpc'[w] = "move" => wpc[w] = "move" /\ tx'[w] = tx[w],
         \A w \in Workers : wpc'[w] \in Carrying => tx'[w] \in Txs
  PROVE  PoolInv'
<1>1. PoolTypes'
  BY DEF PoolInv, PoolTypes, mempool
<1>2. PoolHolds'
  BY DEF PoolInv, PoolHolds, mempool
<1>3. SlotsToMove'
  BY DEF PoolInv, SlotsToMove, mempool
<1>4. ProducerAlone'
  BY DEF PoolInv, ProducerAlone, mempool, Idle
<1> QED BY <1>1, <1>2, <1>3, <1>4 DEF PoolInv

\* A worker that is not parked works while add_txs does not run.
LEMMA ProducerIdle ==
  ASSUME StrayInv, PoolInv, NEW w \in Workers, wpc[w] # "parked"
  PROVE  producer = Idle
BY DEF StrayInv, JobsOfTheBlock, PoolInv, ProducerAlone

\* The steps of a worker: get_new_tx and the move, and the others.
LEMMA PoolWorkerStep ==
  ASSUME RoomyRing, StrayInv, PoolInv, NEW w \in Workers, WorkerStep(w)
  PROVE  PoolInv'
<1> USE DEF proposer
<1>a. wpc \in [Workers -> Labels] /\ DOMAIN tx = Workers
  BY DEF StrayInv, SlotTypes, PoolInv, PoolTypes
<1>b. \A v \in Workers : wpc[v] \in Carrying => tx[v] \in Txs
  BY DEF PoolInv, SlotsToMove
<1> DEFINE Quiet == \E l \in Labels \ {"move"} :
                      /\ UNCHANGED <<mempool, proposer>> /\ Goto(w, l)
                      /\ tx' = tx \/ tx' = [tx EXCEPT ![w] = Moved]
                      /\ l \in Carrying => tx' = tx /\ wpc[w] \in Carrying
<1>0. Quiet => PoolInv'
  <2> SUFFICES ASSUME NEW l \in Labels \ {"move"}, UNCHANGED <<mempool, proposer>>, Goto(w, l),
                      tx' = tx \/ tx' = [tx EXCEPT ![w] = Moved],
                      l \in Carrying => tx' = tx /\ wpc[w] \in Carrying
               PROVE  PoolInv'
    BY Zenon
  <2>1. DOMAIN tx' = Workers /\ \A v \in Workers \ {w} : tx'[v] = tx[v]
    BY <1>a
  <2>2. wpc' = [wpc EXCEPT ![w] = l]
    BY DEF Goto
  <2>3. \A v \in Workers : wpc'[v] = "move" => wpc[v] = "move" /\ tx'[v] = tx[v]
    BY <2>1, <2>2, <1>a
  <2>4. \A v \in Workers : wpc'[v] \in Carrying => tx'[v] \in Txs
    BY <2>1, <2>2, <1>a, <1>b
  <2> QED BY <2>1, <2>3, <2>4, PoolQuiet
<1>1. CASE Begin(w)
  BY <1>0, <1>1 DEF Begin, Labels, Carrying, StrayInv, JobsOfTheBlock
<1>2. CASE FastPath(w)
  BY <1>0, <1>2 DEF FastPath, Labels, Carrying
<1>3. CASE SlowPath(w)
  <2>1. shutdown
    BY <1>3 DEF SlowPath, StrayInv, JobsOfTheBlock
  <2> QED BY <1>0, <1>3, <2>1 DEF SlowPath, Labels, Carrying
<1>4. CASE Fetch(w)
  <2>0. producer = Idle /\ filled < MAX_MEMPOOL_SIZE /\ consumed \in Nat /\ filled \in Nat
    BY <1>4, ProducerIdle, FilledBelow DEF Fetch, PoolInv, PoolTypes
  <2>1. CASE consumed >= filled
    <3>1. /\ consumed' = consumed + 1 /\ Goto(w, "return")
          /\ UNCHANGED <<ring, filled, producer, accepted, claimed, tx, mpc>>
      BY <1>4, <2>0, <2>1 DEF Fetch, GiveUp
    <3>2. PoolTypes'
      BY <3>1, <2>0 DEF PoolInv, PoolTypes
    <3>3. PoolHolds'
      BY <3>1, <2>0, <2>1 DEF PoolInv, PoolHolds
    <3>4. SlotsToMove'
      BY <3>1, <2>0, <1>a DEF PoolInv, SlotsToMove, PoolTypes, Goto, Carrying
    <3>5. ProducerAlone'
      BY <3>1, <2>0 DEF ProducerAlone, Idle
    <3> QED BY <3>2, <3>3, <3>4, <3>5 DEF PoolInv
  <2>2. CASE consumed < filled
    <3>0. consumed % MAX_MEMPOOL_SIZE = consumed
      BY <2>0, <2>2, RingSize, SmallMod
    <3>1. /\ consumed' = consumed + 1 /\ Goto(w, "move")
          /\ tx' = [tx EXCEPT ![w] = consumed]
          /\ claimed' = [claimed EXCEPT ![ring[consumed]] = @ + 1]
          /\ UNCHANGED <<ring, filled, producer, accepted, mpc>>
      BY <1>4, <2>0, <2>2, <3>0 DEF Fetch, GiveUp
    <3>a. PICK t \in Txs : t = ring[consumed] /\ t \in accepted /\ claimed[t] = 0
      BY <2>0, <2>2 DEF PoolInv, PoolHolds, PoolTypes
    <3>b. claimed' = [claimed EXCEPT ![t] = 1]
      BY <3>1, <3>a DEF PoolInv, PoolTypes
    <3>2. PoolTypes'
      <4>1. claimed' \in [Txs -> 0 .. 1]
        BY <3>b DEF PoolInv, PoolTypes
      <4>2. DOMAIN tx' = Workers
        BY <3>1, <1>a
      <4> QED BY <4>1, <4>2, <3>1, <2>0 DEF PoolInv, PoolTypes
    <3>3. PoolHolds'
      <4>1. \A i \in consumed' .. filled' - 1 : i \in consumed .. filled - 1 /\ i # consumed
        BY <3>1, <2>0
      <4>2. \A i \in consumed .. filled - 1 : i # consumed => i \in consumed' .. filled' - 1
        BY <3>1, <2>0
      <4>3. consumed \in consumed .. filled - 1
        BY <2>0, <2>2
      <4>4. \A i \in consumed' .. filled' - 1 : ring[i] \in accepted /\ ring[i] # t /\ claimed[ring[i]] = 0
        BY <4>1, <4>3, <3>a DEF PoolInv, PoolHolds
      <4>5. \A x \in Txs : claimed'[x] = IF x = t THEN 1 ELSE claimed[x]
        BY <3>b DEF PoolInv, PoolTypes
      <4>6. \A i \in consumed' .. filled' - 1 : ring'[i] \in accepted' /\ claimed'[ring'[i]] = 0
        BY <4>4, <4>5, <3>1 DEF PoolInv, PoolTypes
      <4>7. \A i, j \in consumed' .. filled' - 1 : ring'[i] = ring'[j] => i = j
        BY <4>1, <3>1 DEF PoolInv, PoolHolds
      <4>8. \A x \in accepted' : claimed'[x] = 0 => \E i \in consumed' .. filled' - 1 : ring'[i] = x
        BY <4>2, <4>5, <3>1, <3>a DEF PoolInv, PoolHolds, PoolTypes
      <4>9. \A x \in Txs \ accepted' : claimed'[x] = 0
        BY <4>5, <3>1, <3>a DEF PoolInv, PoolHolds
      <4> QED BY <4>6, <4>7, <4>8, <4>9 DEF PoolHolds
    <3>4. SlotsToMove'
      <4>1. \A v \in Workers : tx'[v] = IF v = w THEN consumed ELSE tx[v]
        BY <3>1, <1>a
      <4>2. \A v \in Workers : wpc'[v] = IF v = w THEN "move" ELSE wpc[v]
        BY <3>1, <1>a DEF Goto
      <4>3. \A v \in Workers : wpc'[v] = "move" =>
              tx'[v] \in 0 .. filled' - 1 /\ tx'[v] < consumed' /\ ring'[tx'[v]] \in Txs
        BY <4>1, <4>2, <3>1, <3>a, <2>0, <2>2 DEF PoolInv, SlotsToMove
      <4>4. \A u, v \in Workers : wpc'[u] = "move" /\ wpc'[v] = "move" /\ tx'[u] = tx'[v] => u = v
        BY <4>1, <4>2, <2>0 DEF PoolInv, SlotsToMove
      <4>5. \A v \in Workers : wpc'[v] \in Carrying => tx'[v] \in Txs
        BY <4>1, <4>2 DEF PoolInv, SlotsToMove, Carrying
      <4> QED BY <4>3, <4>4, <4>5 DEF SlotsToMove
    <3>5. ProducerAlone'
      BY <3>1, <2>0 DEF ProducerAlone, Idle
    <3> QED BY <3>2, <3>3, <3>4, <3>5 DEF PoolInv
  <2> QED BY <2>0, <2>1, <2>2
<1>5. CASE Move(w)
  <2>0. producer = Idle
    BY <1>5, ProducerIdle DEF Move
  <2>1. /\ wpc[w] = "move" /\ Goto(w, "reserve")
        /\ tx' = [tx EXCEPT ![w] = ring[tx[w]]] /\ ring' = [ring EXCEPT ![tx[w]] = Moved]
        /\ UNCHANGED <<consumed, filled, producer, accepted, claimed, mpc>>
    BY <1>5 DEF Move
  <2>2. PICK s \in Nat : s = tx[w] /\ s < consumed /\ s < filled /\ ring[s] \in Txs
    BY <2>1 DEF PoolInv, PoolTypes, SlotsToMove
  <2>3. \A i \in DOMAIN ring : ring'[i] = IF i = s THEN Moved ELSE ring[i]
    BY <2>1, <2>2
  <2>4. PoolTypes'
    BY <2>1, <2>2 DEF PoolInv, PoolTypes
  <2>5. \A i \in consumed .. filled - 1 : ring'[i] = ring[i]
    <3>1. filled < MAX_MEMPOOL_SIZE /\ filled \in Nat /\ consumed \in Nat
      BY FilledBelow DEF PoolInv, PoolTypes
    <3> QED BY <3>1, <2>2, <2>3, RingSize DEF PoolInv, PoolTypes
  <2>6. PoolHolds'
    BY <2>1, <2>5 DEF PoolInv, PoolHolds
  <2>7. SlotsToMove'
    <3>1. \A v \in Workers : tx'[v] = IF v = w THEN ring[s] ELSE tx[v]
      BY <2>1, <2>2, <1>a
    <3>2. \A v \in Workers : wpc'[v] = IF v = w THEN "reserve" ELSE wpc[v]
      BY <2>1, <1>a DEF Goto
    <3>3. \A v \in Workers : wpc'[v] = "move" => v # w /\ wpc[v] = "move" /\ tx'[v] = tx[v] /\ tx[v] # s
      BY <3>1, <3>2, <2>1, <2>2 DEF PoolInv, SlotsToMove
    <3>4. \A v \in Workers : wpc'[v] = "move" =>
              tx'[v] \in 0 .. filled' - 1 /\ tx'[v] < consumed' /\ ring'[tx'[v]] \in Txs
      <4>1. filled < MAX_MEMPOOL_SIZE /\ filled \in Nat
        BY FilledBelow DEF PoolInv, PoolTypes
      <4>2. \A v \in Workers : wpc[v] = "move" => tx[v] \in DOMAIN ring
        BY <4>1, RingSize DEF PoolInv, PoolTypes, SlotsToMove
      <4> QED BY <3>3, <4>2, <2>1, <2>3 DEF PoolInv, SlotsToMove
    <3>5. \A u, v \in Workers : wpc'[u] = "move" /\ wpc'[v] = "move" /\ tx'[u] = tx'[v] => u = v
      BY <3>3 DEF PoolInv, SlotsToMove
    <3>6. \A v \in Workers : wpc'[v] \in Carrying => tx'[v] \in Txs
      BY <3>1, <3>2, <2>2, <1>b
    <3> QED BY <3>4, <3>5, <3>6 DEF SlotsToMove
  <2>8. ProducerAlone'
    BY <2>0, <2>1 DEF ProducerAlone, Idle
  <2> QED BY <2>4, <2>6, <2>7, <2>8 DEF PoolInv
<1>6. CASE ReserveSlot(w)
  BY <1>0, <1>6 DEF ReserveSlot, GiveUp, Labels, Carrying, not_limits
<1>7. CASE ReturnSlot(w)
  BY <1>0, <1>7 DEF ReturnSlot, GiveUp, Labels, Carrying, not_limits
<1>8. CASE ReserveGas(w)
  BY <1>0, <1>8 DEF ReserveGas, Labels, Carrying, not_limits
<1>9. CASE ReturnGas(w)
  BY <1>0, <1>9 DEF ReturnGas, GiveUp, Labels, Carrying, not_limits
<1>10. CASE Execute(w)
  BY <1>0, <1>10 DEF Execute, Labels, Carrying, not_rpc
<1>11. CASE SendQuery(w)
  BY <1>0, <1>11 DEF SendQuery, Labels, Carrying, not_rpc
<1>12. CASE Receive(w)
  BY <1>0, <1>12 DEF Receive, Labels, Carrying, not_rpc
<1>13. CASE Commit(w)
  BY <1>0, <1>13 DEF Commit, Finished, Labels, Carrying, not_limits
<1>14. CASE Undo(w)
  BY <1>0, <1>14 DEF Undo, Finished, Labels, Carrying, not_limits
<1>15. CASE Park(w)
  BY <1>0, <1>15 DEF Park, Labels, Carrying
<1> QED
  BY <1>1, <1>2, <1>3, <1>4, <1>5, <1>6, <1>7, <1>8, <1>9, <1>10, <1>11, <1>12,
     <1>13, <1>14, <1>15 DEF WorkerStep

\* propose_tx_block runs only while add_txs does not.
LEMMA PoolProposerStep ==
  ASSUME RoomyRing, StrayInv, PoolInv, StartThreads \/ Finish
  PROVE  PoolInv'
<1>1. UNCHANGED <<mempool, wpc, tx>>
  BY DEF StartThreads, Finish, StartWorker, WaitFor, StopThreads, ResetMaxActive, CancelRpc,
         Join, Close, not_main
<1>2. producer = Idle
  <2>1. CASE StartThreads
    BY <2>1 DEF StartThreads, RoomyRing
  <2>2. CASE Finish
    BY <2>2 DEF Finish, StartWorker, WaitFor, StopThreads, ResetMaxActive, CancelRpc,
         Join, Close, PoolInv, ProducerAlone
  <2> QED BY <2>1, <2>2
<1>3. DOMAIN tx' = Workers
      /\ \A w \in Workers : wpc'[w] \in Carrying => tx'[w] \in Txs
  BY <1>1 DEF PoolInv, PoolTypes, SlotsToMove
<1>4. \A w \in Workers : wpc'[w] = "move" => wpc[w] = "move" /\ tx'[w] = tx[w]
  BY <1>1
<1> QED BY <1>1, <1>2, <1>3, <1>4, PoolQuiet

\* While add_txs runs no worker has a slot or a transaction.
LEMMA NobodyMoves ==
  ASSUME StrayInv, mpc = "idle"
  PROVE  \A w \in Workers : wpc[w] = "parked"
BY DEF StrayInv, JobsOfTheBlock

\* add_txs loads the indices.
LEMMA PoolAddLoad ==
  ASSUME RoomyRing, StrayInv, PoolInv, NEW batch \in Batches, AddLoad(batch)
  PROVE  PoolInv'
<1>1. /\ UNCHANGED <<ring, consumed, filled, accepted, claimed, wpc, tx, mpc>>
      /\ mpc = "idle" /\ ToSet(batch) \cap accepted = {}
      /\ producer' = [pc |-> "write", batch |-> batch, filled |-> filled,
                      consumed |-> Min({consumed, filled})]
  BY DEF AddLoad, proposer, RoomyRing
<1>2. Min({consumed, filled}) = IF consumed <= filled THEN consumed ELSE filled
  BY MinPair DEF PoolInv, PoolTypes
<1>3. ProducerAlone'
  BY <1>1, <1>2 DEF ProducerAlone, PoolInv, PoolTypes
<1>4. PoolTypes' /\ PoolHolds' /\ SlotsToMove'
  BY <1>1 DEF PoolInv, PoolTypes, PoolHolds, SlotsToMove
<1> QED BY <1>3, <1>4 DEF PoolInv

\* add_txs copies the batch behind what the pool holds.
LEMMA PoolAddWrite ==
  ASSUME RoomyRing, StrayInv, PoolInv, AddWrite
  PROVE  PoolInv'
<1> DEFINE b == producer.batch
<1>0. producer # Idle /\ producer.pc = "write" /\ PoolTypes /\ ProducerAlone
  BY DEF AddWrite, Idle, PoolInv
<1>1. /\ WriteNow(producer) = Len(b) /\ b \in Batches /\ ToSet(b) \cap accepted = {}
      /\ producer.filled = filled /\ mpc = "idle"
      /\ producer.consumed = (IF consumed <= filled THEN consumed ELSE filled)
  BY <1>0, WritesAll
<1>2. /\ b \in Seq(Txs) /\ Len(b) \in Nat /\ filled + Len(b) < MAX_MEMPOOL_SIZE
      /\ filled \in Nat /\ consumed \in Nat /\ MAX_MEMPOOL_SIZE \in Nat
  BY <1>0, <1>1, BatchFits, RingSize DEF PoolTypes
<1> DEFINE at(i) == {k \in 1 .. Len(b) : (filled + k - 1) % MAX_MEMPOOL_SIZE = i}
<1>3. \A k \in 1 .. Len(b) : (filled + k - 1) % MAX_MEMPOOL_SIZE = filled + k - 1
  <2> SUFFICES ASSUME NEW k \in 1 .. Len(b) PROVE (filled + k - 1) % MAX_MEMPOOL_SIZE = filled + k - 1
    OBVIOUS
  <2>1. filled + k - 1 \in Nat /\ filled + k - 1 < MAX_MEMPOOL_SIZE
    BY <1>2
  <2> QED BY <2>1, <1>2, SmallMod
<1>4. ring' = [i \in DOMAIN ring |-> IF at(i) = {} THEN ring[i] ELSE b[Max(at(i))]]
  BY <1>1, Zenon DEF AddWrite
<1>5. \A i \in 0 .. MAX_MEMPOOL_SIZE - 1 :
        at(i) = IF i \in filled .. filled + Len(b) - 1 THEN {i - filled + 1} ELSE {}
  <2> SUFFICES ASSUME NEW i \in 0 .. MAX_MEMPOOL_SIZE - 1
               PROVE  at(i) = IF i \in filled .. filled + Len(b) - 1 THEN {i - filled + 1} ELSE {}
    OBVIOUS
  <2>1. at(i) = {k \in 1 .. Len(b) : filled + k - 1 = i}
    BY <1>3
  <2>2. {k \in 1 .. Len(b) : filled + k - 1 = i} =
           IF i \in filled .. filled + Len(b) - 1 THEN {i - filled + 1} ELSE {}
    BY <1>2
  <2> QED BY <2>1, <2>2
<1>6. \A n \in Int : Max({n}) = n
  <2> SUFFICES ASSUME NEW n \in Int PROVE Max({n}) = n
    OBVIOUS
  <2>1. {n, n} = {n}
    OBVIOUS
  <2>2. Max({n, n}) = n
    BY MaxPair
  <2> QED BY <2>1, <2>2, Zenon
<1> HIDE DEF at
<1>7. \A i \in 0 .. MAX_MEMPOOL_SIZE - 1 :
        ring'[i] = IF i \in filled .. filled + Len(b) - 1 THEN b[i - filled + 1] ELSE ring[i]
  <2> SUFFICES ASSUME NEW i \in 0 .. MAX_MEMPOOL_SIZE - 1
               PROVE  ring'[i] = IF i \in filled .. filled + Len(b) - 1 THEN b[i - filled + 1] ELSE ring[i]
    OBVIOUS
  <2>1. i \in DOMAIN ring
    BY <1>0 DEF PoolTypes
  <2>2. ring'[i] = IF at(i) = {} THEN ring[i] ELSE b[Max(at(i))]
    BY <1>4, <2>1
  <2>3. CASE i \in filled .. filled + Len(b) - 1
    <3>a. at(i) = {i - filled + 1}
      BY <2>3, <1>5
    <3>b. i - filled + 1 \in Int
      BY <1>2
    <3>1. at(i) = {i - filled + 1} /\ at(i) # {} /\ i - filled + 1 \in Int
      BY <3>a, <3>b
    <3>2. Max(at(i)) = i - filled + 1
      BY <3>1, <1>6
    <3> QED BY <2>2, <2>3, <3>1, <3>2
  <2>4. CASE i \notin filled .. filled + Len(b) - 1
    <3>1. at(i) = {}
      BY <2>4, <1>5
    <3> QED BY <2>2, <2>4, <3>1
  <2> QED BY <2>3, <2>4
<1>8. /\ producer' = [producer EXCEPT !.pc = "store"]
      /\ UNCHANGED <<consumed, filled, accepted, claimed, wpc, tx, mpc>>
  BY DEF AddWrite, proposer
<1>9. PoolTypes'
  <2>1. DOMAIN ring' = 0 .. MAX_MEMPOOL_SIZE - 1
    BY <1>0, <1>4 DEF PoolTypes
  <2>2. \A i \in 0 .. MAX_MEMPOOL_SIZE - 1 : ring'[i] \in Txs \cup {Moved}
    <3> SUFFICES ASSUME NEW i \in 0 .. MAX_MEMPOOL_SIZE - 1 PROVE ring'[i] \in Txs \cup {Moved}
      OBVIOUS
    <3>1. CASE i \in filled .. filled + Len(b) - 1
      <4>1. i - filled + 1 \in 1 .. Len(b)
        BY <3>1, <1>2
      <4>2. b[i - filled + 1] \in Txs
        BY <4>1, <1>2
      <4> QED BY <3>1, <4>2, <1>7
    <3>2. CASE i \notin filled .. filled + Len(b) - 1
      BY <3>2, <1>7, <1>0 DEF PoolTypes
    <3> QED BY <3>1, <3>2
  <2>3. ring' = [i \in DOMAIN ring' |-> ring'[i]]
    BY <1>4
  <2>4. ring' \in [0 .. MAX_MEMPOOL_SIZE - 1 -> Txs \cup {Moved}]
    BY <2>1, <2>2, <2>3
  <2> QED BY <2>4, <1>0, <1>8 DEF PoolTypes
<1>10. \A i \in consumed .. filled - 1 : ring'[i] = ring[i]
  BY <1>2, <1>7
<1>11. PoolHolds'
  BY <1>8, <1>10 DEF PoolInv, PoolHolds
<1>12. SlotsToMove'
  BY <1>1, <1>8, NobodyMoves DEF SlotsToMove, Carrying
<1>13. ProducerAlone'
  <2>1. /\ producer' \in [pc : {"write", "store"}, consumed : Nat, filled : Nat, batch : Batches]
        /\ producer'.filled = filled /\ producer'.consumed = producer.consumed
        /\ producer'.batch = b
    BY <1>0, <1>8 DEF ProducerAlone, Idle
  <2>2. \A k \in 1 .. Len(b) : ring'[filled + k - 1] = b[k]
    <3> SUFFICES ASSUME NEW k \in 1 .. Len(b) PROVE ring'[filled + k - 1] = b[k]
      OBVIOUS
    <3>1. /\ filled + k - 1 \in 0 .. MAX_MEMPOOL_SIZE - 1
          /\ filled + k - 1 \in filled .. filled + Len(b) - 1
          /\ (filled + k - 1) - filled + 1 = k
      BY <1>2
    <3> QED BY <3>1, <1>7
  <2> QED BY <2>1, <2>2, <1>1, <1>8 DEF ProducerAlone
<1> QED BY <1>9, <1>11, <1>12, <1>13 DEF PoolInv

\* add_txs stores the indices: what it copied is in the pool.
LEMMA PoolAddStore ==
  ASSUME RoomyRing, StrayInv, PoolInv, AddStore
  PROVE  PoolInv'
<1> DEFINE b == producer.batch
           c == IF consumed <= filled THEN consumed ELSE filled
<1>0. producer # Idle /\ producer.pc = "store" /\ PoolTypes /\ ProducerAlone /\ PoolHolds
  BY DEF AddStore, Idle, PoolInv
<1>1. /\ WriteNow(producer) = Len(b) /\ b \in Batches /\ ToSet(b) \cap accepted = {}
      /\ producer.filled = filled /\ mpc = "idle" /\ producer.consumed = c
      /\ \A k \in 1 .. Len(b) : ring[filled + k - 1] = b[k]
  BY <1>0, WritesAll
<1>2. /\ b \in Seq(Txs) /\ Len(b) \in Nat /\ filled + Len(b) < MAX_MEMPOOL_SIZE
      /\ ToSet(b) = {b[k] : k \in 1 .. Len(b)} /\ ToSet(b) \subseteq Txs
      /\ Cardinality(accepted \cup ToSet(b)) = filled + Len(b) /\ IsInjective(b)
      /\ filled \in Nat /\ consumed \in Nat /\ MAX_MEMPOOL_SIZE \in Nat
  <2>1. /\ filled \in Nat /\ consumed \in Nat /\ accepted \in SUBSET Txs
        /\ filled = Cardinality(accepted)
    BY <1>0 DEF PoolTypes
  <2> HIDE DEF b
  <2>2. /\ b \in Seq(Txs) /\ Len(b) \in Nat /\ IsInjective(b)
        /\ ToSet(b) = {b[k] : k \in 1 .. Len(b)} /\ ToSet(b) \subseteq Txs
        /\ Cardinality(accepted \cup ToSet(b)) = Cardinality(accepted) + Len(b)
        /\ Cardinality(accepted) + Len(b) < MAX_MEMPOOL_SIZE
    BY <2>1, <1>1, BatchFits
  <2> QED BY <2>1, <2>2, RingSize
<1>3. c \in Nat /\ c <= filled /\ c <= consumed
  BY <1>2
<1>4. /\ filled' = filled + Len(b) /\ consumed' = c
      /\ accepted' = accepted \cup ToSet(b)
      /\ producer' = Idle
      /\ UNCHANGED <<ring, claimed, wpc, tx, mpc>>
  <2>1. (filled + Len(b)) % MAX_MEMPOOL_SIZE = filled + Len(b)
    <3> HIDE DEF b
    <3>1. filled + Len(b) \in Nat
      BY <1>2
    <3> QED BY <3>1, <1>2, SmallMod
  <2>2. c % MAX_MEMPOOL_SIZE = c
    <3>1. c < MAX_MEMPOOL_SIZE
      BY <1>2, <1>3
    <3> HIDE DEF c
    <3> QED BY <3>1, <1>2, <1>3, SmallMod
  <2> HIDE DEF c
  <2>3. /\ filled' = (filled + Len(b)) % MAX_MEMPOOL_SIZE /\ consumed' = c % MAX_MEMPOOL_SIZE
        /\ accepted' = accepted \cup {b[k] : k \in 1 .. Len(b)}
        /\ producer' = Idle
        /\ UNCHANGED <<ring, claimed, wpc, tx, mpc>>
    BY <1>1, Zenon DEF AddStore, proposer
  <2> QED BY <2>1, <2>2, <2>3, <1>2
<1>5. PoolTypes'
  BY <1>0, <1>2, <1>3, <1>4 DEF PoolTypes
<1>6. \A i \in c .. filled - 1 : i \in consumed .. filled - 1
  BY <1>2
<1>7. \A i \in c .. filled + Len(b) - 1 :
        \/ i \in consumed .. filled - 1 /\ ring[i] \in accepted
        \/ \E k \in 1 .. Len(b) : i = filled + k - 1 /\ ring[i] = b[k] /\ b[k] \in Txs \ accepted
  <2> SUFFICES ASSUME NEW i \in c .. filled + Len(b) - 1, i \notin consumed .. filled - 1
               PROVE  \E k \in 1 .. Len(b) : i = filled + k - 1 /\ ring[i] = b[k] /\ b[k] \in Txs \ accepted
    BY <1>0 DEF PoolHolds
  <2>1. i - filled + 1 \in 1 .. Len(b) /\ i = filled + (i - filled + 1) - 1
    BY <1>2, <1>3, <1>6
  <2>2. PICK k \in 1 .. Len(b) : i = filled + k - 1
    BY <2>1
  <2>3. ring[i] = b[k] /\ b[k] \in ToSet(b)
    BY <2>2, <1>1, <1>2
  <2> QED BY <2>2, <2>3, <1>1, <1>2
<1>8. PoolHolds'
  <2>1. \A i \in c .. filled + Len(b) - 1 : ring[i] \in accepted \cup ToSet(b) /\ claimed[ring[i]] = 0
    BY <1>0, <1>2, <1>7 DEF PoolHolds
  <2>2. \A i, j \in c .. filled + Len(b) - 1 : ring[i] = ring[j] => i = j
    <3> SUFFICES ASSUME NEW i \in c .. filled + Len(b) - 1, NEW j \in c .. filled + Len(b) - 1,
                        ring[i] = ring[j]
                 PROVE  i = j
      OBVIOUS
    <3>1. CASE ring[i] \in accepted
      <4>1. i \in consumed .. filled - 1 /\ j \in consumed .. filled - 1
        BY <3>1, <1>7
      <4> QED BY <4>1, <1>0 DEF PoolHolds
    <3>2. CASE ring[i] \notin accepted
      <4>1. PICK k \in 1 .. Len(b) : i = filled + k - 1 /\ ring[i] = b[k]
        BY <3>2, <1>7
      <4>2. PICK m \in 1 .. Len(b) : j = filled + m - 1 /\ ring[j] = b[m]
        BY <3>2, <1>7
      <4>3. k = m
        BY <4>1, <4>2, <1>2 DEF IsInjective
      <4> QED BY <4>1, <4>2, <4>3
    <3> QED BY <3>1, <3>2
  <2>3. \A t \in accepted \cup ToSet(b) : claimed[t] = 0 =>
           \E i \in c .. filled + Len(b) - 1 : ring[i] = t
    <3>1. ASSUME NEW t \in accepted, claimed[t] = 0
          PROVE  \E i \in c .. filled + Len(b) - 1 : ring[i] = t
      <4>1. PICK i \in consumed .. filled - 1 : ring[i] = t
        BY <3>1, <1>0 DEF PoolHolds
      <4>2. i \in c .. filled + Len(b) - 1
        BY <1>2
      <4> QED BY <4>1, <4>2
    <3>2. ASSUME NEW t \in ToSet(b) PROVE  \E i \in c .. filled + Len(b) - 1 : ring[i] = t
      <4>1. PICK k \in 1 .. Len(b) : t = b[k]
        BY <1>2
      <4>2. filled + k - 1 \in c .. filled + Len(b) - 1
        BY <1>2
      <4> QED BY <4>1, <4>2, <1>1
    <3> QED BY <3>1, <3>2
  <2>4. \A t \in Txs \ (accepted \cup ToSet(b)) : claimed[t] = 0
    BY <1>0 DEF PoolHolds
  <2> HIDE DEF c, b
  <2>a. consumed' .. filled' - 1 = c .. filled + Len(b) - 1
    <3>1. filled' - 1 = filled + Len(b) - 1
      BY <1>4, <1>2
    <3> QED BY <3>1, <1>4
  <2>5a. \A i \in consumed' .. filled' - 1 : ring'[i] \in accepted' /\ claimed'[ring'[i]] = 0
    BY <2>a, <2>1, <1>4, Zenon
  <2>5b. \A i, j \in consumed' .. filled' - 1 : ring'[i] = ring'[j] => i = j
    <3> DEFINE J == c .. filled + Len(b) - 1
    <3>1. \A i, j \in J : ring'[i] = ring'[j] => i = j
      BY <2>2, <1>4
    <3> HIDE DEF J
    <3> QED BY <2>a, <3>1 DEF J
  <2>5. /\ \A i \in consumed' .. filled' - 1 : ring'[i] \in accepted' /\ claimed'[ring'[i]] = 0
        /\ \A i, j \in consumed' .. filled' - 1 : ring'[i] = ring'[j] => i = j
    BY <2>5a, <2>5b
  <2>6. \A t \in accepted' : claimed'[t] = 0 => \E i \in consumed' .. filled' - 1 : ring'[i] = t
    BY <2>a, <2>3, <1>4, Zenon
  <2>7. \A t \in Txs \ accepted' : claimed'[t] = 0
    BY <2>4, <1>4
  <2> QED BY <2>5, <2>6, <2>7 DEF PoolHolds
<1>9. SlotsToMove'
  BY <1>1, <1>4, NobodyMoves DEF SlotsToMove, Carrying
<1>10. ProducerAlone'
  BY <1>4 DEF ProducerAlone, Idle
<1> QED BY <1>5, <1>8, <1>9, <1>10 DEF PoolInv

\* Every step keeps PoolInv.
LEMMA PoolNext ==
  ASSUME RoomyRing, StrayInv, PoolInv, [Next]_vars
  PROVE  PoolInv'
<1>1. CASE UNCHANGED <<mempool, wpc, tx, mpc>>
  <2>1. \A w \in Workers : wpc'[w] = "move" => wpc[w] = "move" /\ tx'[w] = tx[w]
    BY <1>1
  <2>2. DOMAIN tx' = Workers /\ \A w \in Workers : wpc'[w] \in Carrying => tx'[w] \in Txs
    BY <1>1 DEF PoolInv, PoolTypes, SlotsToMove
  <2> QED BY <1>1, <2>1, <2>2, PoolQuiet
<1>2. CASE UNCHANGED vars
  BY <1>2, <1>1 DEF vars, proposer
<1>3. ASSUME NEW w \in Workers, Answer(w) PROVE PoolInv'
  BY <1>1, <1>3 DEF Answer, not_rpc, proposer
<1> QED
  BY <1>2, <1>3, PoolAddLoad, PoolAddWrite, PoolAddStore, PoolWorkerStep, PoolProposerStep
     DEF Next

\* PoolInv holds initially.
LEMMA PoolInit == Init => PoolInv
<1> SUFFICES ASSUME Init PROVE PoolInv
  OBVIOUS
<1>1. PoolTypes
  BY FS_EmptySet DEF Init, PoolTypes
<1>2. PoolHolds
  BY DEF Init, PoolHolds
<1>3. SlotsToMove
  BY DEF Init, SlotsToMove, Carrying
<1>4. ProducerAlone
  BY DEF Init, ProducerAlone
<1> QED BY <1>1, <1>2, <1>3, <1>4 DEF PoolInv

\* PoolInv implies the property.
LEMMA PoolImplies == RoomyRing /\ PoolInv => NoneLostOrTwice
<1> SUFFICES ASSUME RoomyRing, PoolInv PROVE NoneLostOrTwice
  OBVIOUS
<1>1. \A t \in Txs : claimed[t] <= 1
  BY DEF PoolInv, PoolTypes
<1>2. \A i \in consumed .. filled - 1 : i % MAX_MEMPOOL_SIZE = i
  <2> SUFFICES ASSUME NEW i \in consumed .. filled - 1 PROVE i % MAX_MEMPOOL_SIZE = i
    OBVIOUS
  <2>1. filled \in Nat /\ filled < MAX_MEMPOOL_SIZE /\ consumed \in Nat
    BY FilledBelow DEF PoolInv, PoolTypes
  <2>2. i \in Nat /\ i < MAX_MEMPOOL_SIZE
    BY <2>1, RingSize
  <2> QED BY <2>2, RingSize, SmallMod
<1>3. InPool = {ring[i] : i \in consumed .. filled - 1}
  BY <1>2 DEF InPool
<1>4. {ring[i] : i \in consumed .. filled - 1} = {t \in accepted : claimed[t] = 0}
  BY DEF PoolInv, PoolHolds
<1> QED BY <1>1, <1>3, <1>4 DEF NoneLostOrTwice

\* The mempool, for any number of workers and any batches: a transaction that
\* add_txs took is handed out once at most, and is in the ring until then, also
\* after workers have counted consumed past the end of an empty pool.
THEOREM PoolLosesNothing == RoomyRing /\ Spec => []NoneLostOrTwice
<1> DEFINE Inv == StrayInv /\ PoolInv
<1> SUFFICES ASSUME RoomyRing PROVE Spec => []NoneLostOrTwice
  OBVIOUS
<1>1. Init => Inv
  BY StrayInit, PoolInit
<1>2. Inv /\ [Next]_vars => Inv'
  BY StrayNext, PoolNext
<1>3. Inv => NoneLostOrTwice
  BY PoolImplies
<1> QED BY <1>1, <1>2, <1>3, PTL DEF Spec

-----------------------------------------------------------------------------
(* The limits of a block                                                   *)

\* The labels at which a worker has a transaction slot, and gas.
Running == {"run", "send", "query", "unrecoverable", "commit", "undo"}
SlotTaken == {"gas", "ungas"} \cup Running

\* How many workers are at labels L, and the gas of their transactions.
Ones(P, L) == [w \in Workers |-> IF P[w] \in L THEN 1 ELSE 0]
Loads(P, T, L) == [w \in Workers |-> IF P[w] \in L THEN GasOf[T[w]] ELSE 0]
Count(P, L) == SumFunctionOnSet(Ones(P, L), Workers)
Load(P, T, L) == SumFunctionOnSet(Loads(P, T, L), Workers)
GasOfSet(C) == SumFunctionOnSet(GasOf, C)

LimitTypes ==
    /\ max_txs \in Int /\ gas_limit \in Int
    /\ committed \subseteq Txs
    /\ mpc = "idle" => committed = {}

\* The slots: those left, and those of the workers and of the block.
SlotBudget ==
    /\ 0 <= max_txs + Count(wpc, {"unslot"})
    /\ max_txs + Count(wpc, {"unslot"}) + Count(wpc, SlotTaken) + Cardinality(committed) <= MaxTxs

\* The same of the gas.
GasBudget ==
    gas_limit + Load(wpc, tx, {"ungas"}) + Load(wpc, tx, Running) + GasOfSet(committed) <= GasLimit

\* The gas of what runs or has committed is below the limit, but for one.
Used(P, T, C) == Load(P, T, Running) + GasOfSet(C)
OneExcess ==
    \/ committed = {} /\ \A w \in Workers : wpc[w] \notin Running
    \/ Used(wpc, tx, committed) < GasLimit
    \/ \E w \in Workers : wpc[w] \in Running /\ Used(wpc, tx, committed) - GasOf[tx[w]] < GasLimit
    \/ \E t \in committed : Used(wpc, tx, committed) - GasOf[t] < GasLimit

LimitInv == LimitTypes /\ SlotBudget /\ GasBudget /\ OneExcess

\* The functions that are summed, and their sums.
LEMMA CountType ==
  ASSUME NEW P, NEW L
  PROVE  /\ \A v \in Workers : Ones(P, L)[v] = (IF P[v] \in L THEN 1 ELSE 0)
         /\ Count(P, L) \in Nat
<1>1. \A v \in Workers : Ones(P, L)[v] = (IF P[v] \in L THEN 1 ELSE 0)
  BY DEF Ones
<1>2. \A v \in Workers : Ones(P, L)[v] \in 0 .. 1
  BY <1>1
<1> HIDE DEF Ones
<1>3. SumFunctionOnSet(Ones(P, L), Workers) \in 0 .. 1 * Cardinality(Workers)
  BY <1>2, SumBound, AssemblyAssumption
<1> QED BY <1>1, <1>3, WorkersNumbered DEF Count

\* What changes when only worker w goes from its place in P to its place in Q.
OnlyMoves(P, Q, T, U, w) == \A v \in Workers \ {w} : Q[v] = P[v] /\ U[v] = T[v]
CountsBy(P, Q, L, w) ==
    /\ Count(P, L) \in Nat /\ Count(Q, L) \in Nat
    /\ Count(Q, L) = Count(P, L) - (IF P[w] \in L THEN 1 ELSE 0) + (IF Q[w] \in L THEN 1 ELSE 0)

\* CountsBy, of such a step.
LEMMA CountStep ==
  ASSUME NEW P, NEW Q, NEW T, NEW U, NEW L, NEW w \in Workers, OnlyMoves(P, Q, T, U, w)
  PROVE  CountsBy(P, Q, L, w)
<1> DEFINE f == Ones(P, L)
           g == Ones(Q, L)
<1>1. /\ \A v \in Workers : f[v] = (IF P[v] \in L THEN 1 ELSE 0)
      /\ \A v \in Workers : g[v] = (IF Q[v] \in L THEN 1 ELSE 0)
  BY CountType
<1>2. /\ \A v \in Workers : f[v] \in Int /\ g[v] \in Int
      /\ \A v \in Workers \ {w} : g[v] = f[v]
  BY <1>1 DEF OnlyMoves
<1> HIDE DEF f, g
<1>3. SumFunctionOnSet(g, Workers) = SumFunctionOnSet(f, Workers) - f[w] + g[w]
  BY <1>2, SumUpdate, AssemblyAssumption
<1>4. Count(Q, L) = Count(P, L) - f[w] + g[w]
  BY <1>3 DEF f, g, Count
<1> QED BY <1>1, <1>4, CountType DEF CountsBy

\* The gas of the workers' transactions.
Laden(P, T, L) == \A v \in Workers : P[v] \in L => T[v] \in Txs

\* Gas is a natural number.
LEMMA GasNat == \A t \in Txs : GasOf[t] \in Nat
BY AssemblyAssumption

\* The loads of workers that carry transactions.
LEMMA LoadsType ==
  ASSUME NEW P, NEW T, NEW L, Laden(P, T, L)
  PROVE  /\ \A v \in Workers : Loads(P, T, L)[v] = (IF P[v] \in L THEN GasOf[T[v]] ELSE 0)
         /\ \A v \in Workers : Loads(P, T, L)[v] \in Nat
<1>1. \A v \in Workers : Loads(P, T, L)[v] = (IF P[v] \in L THEN GasOf[T[v]] ELSE 0)
  BY DEF Loads
<1> HIDE DEF Loads
<1> QED BY <1>1, GasNat DEF Laden

\* A load is at least that of each worker.
LEMMA LoadType ==
  ASSUME NEW P, NEW T, NEW L, Laden(P, T, L)
  PROVE  /\ Load(P, T, L) \in Nat
         /\ \A w \in Workers : P[w] \in L => GasOf[T[w]] <= Load(P, T, L)
<1> DEFINE f == Loads(P, T, L)
           z == [v \in Workers |-> 0]
<1>1. /\ \A v \in Workers : f[v] = (IF P[v] \in L THEN GasOf[T[v]] ELSE 0)
      /\ \A v \in Workers : f[v] \in Nat
  BY LoadsType
<1>2. \A v \in Workers : z[v] = 0
  OBVIOUS
<1> HIDE DEF f, z
<1>3. SumFunctionOnSet(z, Workers) = 0
  BY <1>2, SumZero, AssemblyAssumption
<1>4. SumFunctionOnSet(z, Workers) <= SumFunctionOnSet(f, Workers)
  BY <1>1, <1>2, SumLe, AssemblyAssumption
<1>5. SumFunctionOnSet(f, Workers) \in Int
  BY <1>1, SumInt, AssemblyAssumption
<1>6. ASSUME NEW w \in Workers PROVE f[w] <= SumFunctionOnSet(f, Workers)
  <2>1. f[w] - z[w] <= SumFunctionOnSet(f, Workers) - SumFunctionOnSet(z, Workers)
    BY <1>1, <1>2, SumGap, AssemblyAssumption
  <2> QED BY <2>1, <1>1, <1>2, <1>3, <1>5
<1>7. Load(P, T, L) = SumFunctionOnSet(f, Workers)
  BY DEF Load, f
<1>8. ASSUME NEW w \in Workers, P[w] \in L PROVE GasOf[T[w]] <= Load(P, T, L)
  BY <1>1, <1>6, <1>7, <1>8
<1> QED BY <1>3, <1>4, <1>5, <1>7, <1>8

LoadsBy(P, Q, T, U, L, w) ==
    /\ Load(P, T, L) \in Nat /\ Load(Q, U, L) \in Nat
    /\ P[w] \in L => GasOf[T[w]] \in Nat
    /\ Load(Q, U, L) = Load(P, T, L) - (IF P[w] \in L THEN GasOf[T[w]] ELSE 0)
                                    + (IF Q[w] \in L THEN GasOf[U[w]] ELSE 0)

\* LoadsBy, of such a step.
LEMMA LoadStep ==
  ASSUME NEW P, NEW Q, NEW T, NEW U, NEW L, NEW w \in Workers,
         OnlyMoves(P, Q, T, U, w), Laden(P, T, L), Laden(Q, U, L)
  PROVE  LoadsBy(P, Q, T, U, L, w)
<1> DEFINE f == Loads(P, T, L)
           g == Loads(Q, U, L)
<1>1. /\ \A v \in Workers : f[v] = (IF P[v] \in L THEN GasOf[T[v]] ELSE 0)
      /\ \A v \in Workers : g[v] = (IF Q[v] \in L THEN GasOf[U[v]] ELSE 0)
      /\ \A v \in Workers : f[v] \in Nat /\ g[v] \in Nat
  BY LoadsType
<1>2. \A v \in Workers \ {w} : g[v] = f[v]
  BY <1>1 DEF OnlyMoves
<1> HIDE DEF f, g
<1>3. SumFunctionOnSet(g, Workers) = SumFunctionOnSet(f, Workers) - f[w] + g[w]
  BY <1>1, <1>2, SumUpdate, AssemblyAssumption
<1>4. Load(Q, U, L) = Load(P, T, L) - f[w] + g[w]
  BY <1>3 DEF f, g, Load
<1>5. Load(P, T, L) \in Nat /\ Load(Q, U, L) \in Nat
  BY LoadType
<1>6. P[w] \in L => GasOf[T[w]] \in Nat
  BY <1>1
<1> QED BY <1>1, <1>4, <1>5, <1>6, Zenon DEF LoadsBy

\* The gas of a set of transactions.
LEMMA GasOfSetType ==
  ASSUME NEW C \in SUBSET Txs
  PROVE  IsFiniteSet(C) /\ Cardinality(C) \in Nat /\ GasOfSet(C) \in Nat
<1>1. IsFiniteSet(C) /\ \A t \in C : GasOf[t] \in Nat
  BY FS_Subset, AssemblyAssumption
<1> DEFINE z == [t \in C |-> 0]
<1>2. \A t \in C : z[t] = 0
  OBVIOUS
<1> HIDE DEF z
<1>3. SumFunctionOnSet(z, C) = 0 /\ SumFunctionOnSet(z, C) <= SumFunctionOnSet(GasOf, C)
  BY <1>1, <1>2, SumZero, SumLe
<1>4. SumFunctionOnSet(GasOf, C) \in Int
  BY <1>1, SumInt
<1> QED BY <1>1, <1>3, <1>4, FS_CardinalityType DEF GasOfSet

\* One transaction more, that may be among them.
LEMMA GasOfSetAdd ==
  ASSUME NEW C \in SUBSET Txs, NEW t \in Txs
  PROVE  /\ GasOfSet(C) <= GasOfSet(C \cup {t}) /\ GasOfSet(C \cup {t}) <= GasOfSet(C) + GasOf[t]
         /\ Cardinality(C \cup {t}) <= Cardinality(C) + 1
         /\ Cardinality(C \cup {t}) \in Nat /\ GasOfSet(C \cup {t}) \in Nat
<1>1. IsFiniteSet(C) /\ GasOfSet(C) \in Nat /\ Cardinality(C) \in Nat /\ GasOf[t] \in Nat
      /\ \A x \in C \cup {t} : GasOf[x] \in Int
  BY GasOfSetType, GasNat
<1>2. CASE t \in C
  <2>1. C \cup {t} = C
    BY <1>2
  <2>2. GasOfSet(C \cup {t}) = GasOfSet(C) /\ Cardinality(C \cup {t}) = Cardinality(C)
    BY <2>1, Zenon
  <2> QED BY <2>2, <1>1
<1>3. CASE t \notin C
  <2>1. Cardinality(C \cup {t}) = Cardinality(C) + 1
    BY <1>1, <1>3, FS_AddElement
  <2>2. SumFunctionOnSet(GasOf, C \cup {t}) = GasOf[t] + SumFunctionOnSet(GasOf, C)
    BY <1>1, <1>3, SumAdd
  <2> QED BY <2>1, <2>2, <1>1 DEF GasOfSet
<1> QED BY <1>2, <1>3

\* One transaction less.
LEMMA GasOfSetRemove ==
  ASSUME NEW C \in SUBSET Txs, NEW t \in C
  PROVE  GasOfSet(C \ {t}) = GasOfSet(C) - GasOf[t]
<1>1. IsFiniteSet(C) /\ GasOfSet(C) \in Nat /\ GasOf[t] \in Nat /\ \A x \in C : GasOf[x] \in Int
  BY GasOfSetType, GasNat
<1>2. SumFunctionOnSet(GasOf, C) = GasOf[t] + SumFunctionOnSet(GasOf, C \ {t})
  BY <1>1, SumRemove
<1>3. GasOfSet(C \ {t}) \in Nat
  <2>1. C \ {t} \in SUBSET Txs
    OBVIOUS
  <2> QED BY <2>1, GasOfSetType
<1> QED BY <1>1, <1>2, <1>3 DEF GasOfSet

\* No worker is busy, and nothing has committed.
LEMMA NothingUsed ==
  ASSUME NEW P, NEW T, \A w \in Workers : P[w] = "parked"
  PROVE  /\ Count(P, {"unslot"}) = 0 /\ Count(P, SlotTaken) = 0
         /\ Load(P, T, {"ungas"}) = 0 /\ Load(P, T, Running) = 0
         /\ GasOfSet({}) = 0 /\ Cardinality({}) = 0
<1>1. \A L : "parked" \notin L => /\ \A w \in Workers : Ones(P, L)[w] = 0
                                  /\ \A w \in Workers : Loads(P, T, L)[w] = 0
  BY DEF Ones, Loads
<1> HIDE DEF Ones, Loads
<1>2. \A L : "parked" \notin L => Count(P, L) = 0 /\ Load(P, T, L) = 0
  BY <1>1, SumZero, AssemblyAssumption DEF Count, Load
<1>3. "parked" \notin {"unslot"} /\ "parked" \notin SlotTaken /\ "parked" \notin {"ungas"}
      /\ "parked" \notin Running
  BY DEF SlotTaken, Running
<1>4. Count(P, {"unslot"}) = 0
  BY <1>2, <1>3
<1>5. Count(P, SlotTaken) = 0
  BY <1>2, <1>3
<1>6. Load(P, T, {"ungas"}) = 0
  BY <1>2, <1>3
<1>7. Load(P, T, Running) = 0
  BY <1>2, <1>3
<1>8. GasOfSet({}) = 0
  BY SumEmpty DEF GasOfSet
<1> QED BY <1>4, <1>5, <1>6, <1>7, <1>8, FS_EmptySet

\* A worker with gas carries a transaction.
LEMMA AllLaden ==
  ASSUME NEW P, NEW T, Laden(P, T, Carrying)
  PROVE  Laden(P, T, {"ungas"}) /\ Laden(P, T, Running)
BY DEF Laden, Carrying, Running

\* PoolInv says so of every state.
LEMMA LadenNow == PoolInv => Laden(wpc, tx, Carrying)
BY DEF PoolInv, SlotsToMove, Laden

\* What a step of a worker w changes of the counts and of the loads.
Uses(P, Q, T, U, w) ==
    /\ OnlyMoves(P, Q, T, U, w)
    /\ Laden(P, T, Running) /\ Laden(Q, U, Running)
    /\ CountsBy(P, Q, {"unslot"}, w) /\ CountsBy(P, Q, SlotTaken, w)
    /\ LoadsBy(P, Q, T, U, {"ungas"}, w) /\ LoadsBy(P, Q, T, U, Running, w)

\* Uses, of a step of a worker.
LEMMA WorkerUses ==
  ASSUME StrayInv, PoolInv, PoolInv', NEW w \in Workers,
         NEW l, Goto(w, l), DOMAIN tx' = Workers,
         \A v \in Workers \ {w} : tx'[v] = tx[v]
  PROVE  wpc'[w] = l /\ Uses(wpc, wpc', tx, tx', w)
<1>1. wpc'[w] = l /\ \A v \in Workers \ {w} : wpc'[v] = wpc[v]
  BY DEF Goto, StrayInv, SlotTypes
<1>2. Laden(wpc, tx, Carrying)
  BY LadenNow
<1>3. Laden(wpc, tx, Carrying)'
  BY LadenNow, PTL
<1>4. Laden(wpc', tx', Carrying)
  BY <1>3 DEF Laden
<1>5. OnlyMoves(wpc, wpc', tx, tx', w)
  BY <1>1 DEF OnlyMoves
<1>6. /\ Laden(wpc, tx, Running) /\ Laden(wpc', tx', Running)
      /\ Laden(wpc, tx, {"ungas"}) /\ Laden(wpc', tx', {"ungas"})
  BY <1>2, <1>4, AllLaden
<1>7. CountsBy(wpc, wpc', {"unslot"}, w) /\ CountsBy(wpc, wpc', SlotTaken, w)
  BY <1>5, CountStep
<1>8. LoadsBy(wpc, wpc', tx, tx', {"ungas"}, w) /\ LoadsBy(wpc, wpc', tx, tx', Running, w)
  BY <1>5, <1>6, LoadStep
<1> QED BY <1>1, <1>5, <1>6, <1>7, <1>8 DEF Uses

\* Which labels are in Running and in SlotTaken.
LEMMA RunningLabels ==
  /\ \A l \in Running : l \in {"run", "send", "query", "unrecoverable", "commit", "undo"}
  /\ "run" \in Running /\ "send" \in Running /\ "query" \in Running
  /\ "commit" \in Running /\ "undo" \in Running
  /\ \A l \in {"open", "return", "reserve", "unslot", "gas", "ungas", "parked"} : l \notin Running
  /\ \A l \in {"open", "return", "reserve", "unslot", "parked"} : l \notin SlotTaken
  /\ "gas" \in SlotTaken /\ "ungas" \in SlotTaken
  /\ \A l \in Running : l \in SlotTaken
BY DEF Running, SlotTaken

\* What runs or has committed is at least the gas of each of its parts.
LEMMA UsedType ==
  ASSUME NEW P, NEW T, NEW C \in SUBSET Txs, Laden(P, T, Running)
  PROVE  /\ Used(P, T, C) \in Nat
         /\ Used(P, T, C) = Load(P, T, Running) + GasOfSet(C)
BY LoadType, GasOfSetType DEF Used

\* One that runs no longer, and did not commit.
LEMMA ExcessWithout ==
  ASSUME NEW P, NEW Q, NEW T, NEW U, NEW C \in SUBSET Txs, NEW w \in Workers,
         OnlyMoves(P, Q, T, U, w), LoadsBy(P, Q, T, U, Running, w),
         Laden(P, T, Running), Laden(Q, U, Running), P[w] \in Running, Q[w] \notin Running,
         \/ Used(P, T, C) < GasLimit
         \/ \E v \in Workers : P[v] \in Running /\ Used(P, T, C) - GasOf[T[v]] < GasLimit
         \/ \E t \in C : Used(P, T, C) - GasOf[t] < GasLimit
  PROVE  \/ Used(Q, U, C) < GasLimit
         \/ \E v \in Workers : Q[v] \in Running /\ Used(Q, U, C) - GasOf[U[v]] < GasLimit
         \/ \E t \in C : Used(Q, U, C) - GasOf[t] < GasLimit
<1>1. /\ Load(Q, U, Running) = Load(P, T, Running) - GasOf[T[w]]
      /\ Load(P, T, Running) \in Nat /\ Load(Q, U, Running) \in Nat /\ GasOf[T[w]] \in Nat
  BY DEF LoadsBy
<1>2. /\ Used(P, T, C) \in Nat /\ Used(Q, U, C) \in Nat
      /\ Used(Q, U, C) = Used(P, T, C) - GasOf[T[w]]
  BY <1>1, UsedType, GasOfSetType
<1>a. GasLimit \in Nat
  BY AssemblyAssumption
<1>3. CASE Used(P, T, C) < GasLimit
  BY <1>1, <1>2, <1>3, <1>a
<1>4. ASSUME NEW v \in Workers, P[v] \in Running, Used(P, T, C) - GasOf[T[v]] < GasLimit
      PROVE  \/ Used(Q, U, C) < GasLimit
             \/ \E x \in Workers : Q[x] \in Running /\ Used(Q, U, C) - GasOf[U[x]] < GasLimit
  <2>1. CASE v = w
    BY <1>2, <1>4, <2>1
  <2>2. CASE v # w
    <3>1. Q[v] \in Running /\ U[v] = T[v] /\ GasOf[T[v]] \in Nat
      BY <1>4, <2>2, GasNat DEF Laden, OnlyMoves
    <3>2. Used(Q, U, C) - GasOf[U[v]] < GasLimit
      BY <3>1, <1>1, <1>2, <1>4, <1>a
    <3> QED BY <3>1, <3>2
  <2> QED BY <2>1, <2>2
<1>5. ASSUME NEW t \in C, Used(P, T, C) - GasOf[t] < GasLimit
      PROVE  \E x \in C : Used(Q, U, C) - GasOf[x] < GasLimit
  <2>1. GasOf[t] \in Nat
    BY GasNat
  <2>2. Used(Q, U, C) - GasOf[t] < GasLimit
    BY <2>1, <1>1, <1>2, <1>5, <1>a
  <2> QED BY <2>2
<1> QED BY <1>3, <1>4, <1>5

\* One that commits.
LEMMA ExcessCommit ==
  ASSUME NEW P, NEW Q, NEW T, NEW U, NEW C \in SUBSET Txs, NEW w \in Workers,
         OnlyMoves(P, Q, T, U, w), LoadsBy(P, Q, T, U, Running, w),
         Laden(P, T, Running), Laden(Q, U, Running), P[w] \in Running, Q[w] \notin Running,
         \/ Used(P, T, C) < GasLimit
         \/ \E v \in Workers : P[v] \in Running /\ Used(P, T, C) - GasOf[T[v]] < GasLimit
         \/ \E t \in C : Used(P, T, C) - GasOf[t] < GasLimit
  PROVE  LET D == C \cup {T[w]} IN
         \/ Used(Q, U, D) < GasLimit
         \/ \E v \in Workers : Q[v] \in Running /\ Used(Q, U, D) - GasOf[U[v]] < GasLimit
         \/ \E t \in D : Used(Q, U, D) - GasOf[t] < GasLimit
<1> DEFINE D == C \cup {T[w]}
<1>0. T[w] \in Txs /\ D \in SUBSET Txs /\ T[w] \in D /\ C \subseteq D
  BY DEF Laden
<1>1. /\ Load(Q, U, Running) = Load(P, T, Running) - GasOf[T[w]]
      /\ Load(P, T, Running) \in Nat /\ Load(Q, U, Running) \in Nat /\ GasOf[T[w]] \in Nat
  BY DEF LoadsBy
<1>b. GasOfSet(D) <= GasOfSet(C) + GasOf[T[w]] /\ GasOfSet(D) \in Nat /\ GasOfSet(C) \in Nat
  BY <1>0, GasOfSetAdd, GasOfSetType
<1> HIDE DEF D
<1>2. /\ Used(P, T, C) \in Nat /\ Used(Q, U, D) \in Nat
      /\ Used(Q, U, D) <= Used(P, T, C)
  <2>1. Used(P, T, C) = Load(P, T, Running) + GasOfSet(C) /\ Used(P, T, C) \in Nat
    BY UsedType
  <2>2. Used(Q, U, D) = Load(Q, U, Running) + GasOfSet(D) /\ Used(Q, U, D) \in Nat
    BY <1>0, UsedType
  <2> QED BY <2>1, <2>2, <1>1, <1>b
<1>a. GasLimit \in Nat
  BY AssemblyAssumption
<1>3. CASE Used(P, T, C) < GasLimit
  <2>1. Used(Q, U, D) < GasLimit
    BY <1>2, <1>3, <1>a
  <2> QED BY <2>1 DEF D
<1>4. ASSUME NEW v \in Workers, P[v] \in Running, Used(P, T, C) - GasOf[T[v]] < GasLimit
      PROVE  \/ \E t \in D : Used(Q, U, D) - GasOf[t] < GasLimit
             \/ \E x \in Workers : Q[x] \in Running /\ Used(Q, U, D) - GasOf[U[x]] < GasLimit
  <2>0. GasOf[T[v]] \in Nat
    BY <1>4, GasNat DEF Laden
  <2>a. Used(Q, U, D) - GasOf[T[v]] < GasLimit
    BY <2>0, <1>2, <1>4, <1>a
  <2>1. CASE v = w
    BY <2>a, <2>1, <1>0
  <2>2. CASE v # w
    <3>1. Q[v] \in Running /\ U[v] = T[v]
      BY <1>4, <2>2 DEF OnlyMoves
    <3> QED BY <3>1, <2>a
  <2> QED BY <2>1, <2>2
<1>5. ASSUME NEW t \in C, Used(P, T, C) - GasOf[t] < GasLimit
      PROVE  \E x \in D : Used(Q, U, D) - GasOf[x] < GasLimit
  <2>1. GasOf[t] \in Nat /\ t \in D
    BY GasNat, <1>0
  <2>2. Used(Q, U, D) - GasOf[t] < GasLimit
    BY <2>1, <1>2, <1>5, <1>a
  <2> QED BY <2>1, <2>2
<1>6. \/ Used(Q, U, D) < GasLimit
      \/ \E v \in Workers : Q[v] \in Running /\ Used(Q, U, D) - GasOf[U[v]] < GasLimit
      \/ \E t \in D : Used(Q, U, D) - GasOf[t] < GasLimit
  BY <1>3, <1>4, <1>5 DEF D
<1> QED BY <1>6 DEF D

\* Steps after which the same workers hold the same.
LEMMA LimitQuiet ==
  ASSUME LimitInv, UNCHANGED <<max_txs, gas_limit, committed>>, mpc' = "idle" => mpc = "idle",
         \A v \in Workers : /\ wpc'[v] = "unslot" <=> wpc[v] = "unslot"
                            /\ wpc'[v] = "ungas" <=> wpc[v] = "ungas"
                            /\ wpc'[v] = "gas" <=> wpc[v] = "gas"
                            /\ wpc'[v] \in Running <=> wpc[v] \in Running
                            /\ wpc[v] \in {"ungas"} \cup Running => tx'[v] = tx[v]
  PROVE  LimitInv'
<1>1. /\ Ones(wpc', {"unslot"}) = Ones(wpc, {"unslot"}) /\ Ones(wpc', SlotTaken) = Ones(wpc, SlotTaken)
      /\ Loads(wpc', tx', {"ungas"}) = Loads(wpc, tx, {"ungas"})
      /\ Loads(wpc', tx', Running) = Loads(wpc, tx, Running)
  <2>1. \A v \in Workers : wpc'[v] \in {"unslot"} <=> wpc[v] \in {"unslot"}
    OBVIOUS
  <2>2. \A v \in Workers : wpc'[v] \in SlotTaken <=> wpc[v] \in SlotTaken
    BY DEF SlotTaken
  <2>3. \A v \in Workers : /\ wpc'[v] \in {"ungas"} <=> wpc[v] \in {"ungas"}
                           /\ wpc[v] \in {"ungas"} => tx'[v] = tx[v]
    OBVIOUS
  <2>4. Ones(wpc', {"unslot"}) = Ones(wpc, {"unslot"})
    BY <2>1 DEF Ones
  <2>5. Ones(wpc', SlotTaken) = Ones(wpc, SlotTaken)
    BY <2>2 DEF Ones
  <2>6. Loads(wpc', tx', {"ungas"}) = Loads(wpc, tx, {"ungas"})
    BY <2>3 DEF Loads
  <2>7. Loads(wpc', tx', Running) = Loads(wpc, tx, Running)
    BY DEF Loads
  <2> QED BY <2>4, <2>5, <2>6, <2>7
<1>2. /\ Count(wpc', {"unslot"}) = Count(wpc, {"unslot"}) /\ Count(wpc', SlotTaken) = Count(wpc, SlotTaken)
      /\ Load(wpc', tx', {"ungas"}) = Load(wpc, tx, {"ungas"})
      /\ Load(wpc', tx', Running) = Load(wpc, tx, Running)
      /\ Used(wpc', tx', committed) = Used(wpc, tx, committed)
  BY <1>1, Zenon DEF Count, Load, Used
<1>3. LimitTypes' /\ SlotBudget' /\ GasBudget'
  BY <1>2 DEF LimitInv, LimitTypes, SlotBudget, GasBudget
<1>4. OneExcess'
  BY <1>2 DEF LimitInv, OneExcess
<1> QED BY <1>3, <1>4 DEF LimitInv

\* The steps of a worker: those of AssemblyLimits, Commit and Undo, and the quiet ones.
LEMMA LimitWorkerStep ==
  ASSUME RoomyRing, StrayInv, PoolInv, PoolInv', LimitInv, NEW w \in Workers, WorkerStep(w)
  PROVE  LimitInv'
<1> USE DEF proposer, limits
<1>a. wpc \in [Workers -> Labels] /\ DOMAIN tx = Workers
  BY DEF StrayInv, SlotTypes, PoolInv, PoolTypes
<1>b. LimitTypes /\ SlotBudget /\ GasBudget /\ OneExcess
  BY DEF LimitInv
<1>c. MaxTxs \in Nat /\ GasLimit \in Nat
  BY AssemblyAssumption
<1>d. wpc[w] \in Carrying => tx[w] \in Txs /\ Gas(w) \in Nat
  BY GasNat DEF PoolInv, SlotsToMove, Gas
<1> DEFINE Free == {"parked", "open", "slow", "fetch", "move", "reserve", "return"}
           Quiet == \E l \in Labels :
                      /\ UNCHANGED <<max_txs, gas_limit, committed, proposer>> /\ Goto(w, l)
                      /\ \/ wpc[w] \in Free /\ l \in Free
                         \/ wpc[w] \in Running /\ l \in Running
                      /\ \/ tx' = tx
                         \/ wpc[w] \in Free /\ \A v \in Workers \ {w} : tx'[v] = tx[v]
<1>0. Quiet => LimitInv'
  <2> SUFFICES ASSUME NEW l \in Labels, UNCHANGED <<max_txs, gas_limit, committed, proposer>>, Goto(w, l),
                      (wpc[w] \in Free /\ l \in Free) \/ (wpc[w] \in Running /\ l \in Running),
                      tx' = tx \/ (wpc[w] \in Free /\ \A v \in Workers \ {w} : tx'[v] = tx[v])
               PROVE  LimitInv'
    BY Zenon
  <2>1. \A v \in Workers : wpc'[v] = IF v = w THEN l ELSE wpc[v]
    BY <1>a DEF Goto
  <2>2. ASSUME NEW v \in Workers
        PROVE  /\ wpc'[v] = "unslot" <=> wpc[v] = "unslot"
               /\ wpc'[v] = "ungas" <=> wpc[v] = "ungas"
               /\ wpc'[v] = "gas" <=> wpc[v] = "gas"
               /\ wpc'[v] \in Running <=> wpc[v] \in Running
               /\ wpc[v] \in {"ungas"} \cup Running => tx'[v] = tx[v]
    <3>1. CASE v # w
      BY <3>1, <2>1
    <3>2. CASE v = w
      BY <3>2, <2>1 DEF Running
    <3> QED BY <3>1, <3>2
  <2> QED BY <2>2, LimitQuiet
<1>1. CASE Begin(w)
  BY <1>0, <1>1 DEF Begin, Labels, StrayInv, JobsOfTheBlock
<1>2. CASE FastPath(w)
  BY <1>0, <1>2 DEF FastPath, Labels
<1>3. CASE SlowPath(w)
  <2>1. shutdown
    BY <1>3 DEF SlowPath, StrayInv, JobsOfTheBlock
  <2> QED BY <1>0, <1>3, <2>1 DEF SlowPath, Labels
<1>4. CASE Fetch(w)
  <2>1. \A v \in Workers \ {w} : tx'[v] = tx[v]
    BY <1>4, <1>a DEF Fetch
  <2> QED BY <1>0, <1>4, <2>1 DEF Fetch, GiveUp, Labels
<1>5. CASE Move(w)
  <2>1. \A v \in Workers \ {w} : tx'[v] = tx[v]
    BY <1>5, <1>a DEF Move
  <2> QED BY <1>0, <1>5, <2>1 DEF Move, Labels
<1>10. CASE Execute(w)
  BY <1>0, <1>10 DEF Execute, Labels, Running, not_rpc
<1>11. CASE SendQuery(w)
  BY <1>0, <1>11 DEF SendQuery, Labels, Running, not_rpc
<1>12. CASE Receive(w)
  BY <1>0, <1>12 DEF Receive, Labels, Running, not_rpc
<1>15. CASE Park(w)
  <2>1. \A v \in Workers \ {w} : tx'[v] = tx[v]
    BY <1>15, <1>a DEF Park
  <2> QED BY <1>0, <1>15, <2>1 DEF Park, Labels
<1>6. CASE ReserveSlot(w)
  <2>1. CASE Gas(w) > GasLimitPerTx
    BY <1>0, <1>6, <2>1, <1>d, AssemblyAssumption DEF ReserveSlot, GiveUp, Labels, not_limits, Carrying
  <2>2. CASE Gas(w) <= GasLimitPerTx
    <3>1. PICK l \in {"unslot", "gas"} :
             /\ Goto(w, l) /\ (max_txs <= 0 <=> l = "unslot")
             /\ wpc[w] = "reserve" /\ max_txs' = max_txs - 1 /\ UNCHANGED <<gas_limit, tx, committed, mpc>>
      BY <1>6, <2>2, <1>d, AssemblyAssumption DEF ReserveSlot, not_limits, Carrying
    <3>2. /\ wpc'[w] = l /\ \A v \in Workers \ {w} : wpc'[v] = wpc[v] /\ tx'[v] = tx[v]
          /\ Uses(wpc, wpc', tx, tx', w)
      BY <3>1, <1>a, WorkerUses DEF Uses, OnlyMoves
    <3>3. /\ Load(wpc', tx', {"ungas"}) = Load(wpc, tx, {"ungas"})
          /\ Load(wpc', tx', Running) = Load(wpc, tx, Running)
          /\ Used(wpc', tx', committed') = Used(wpc, tx, committed)
      BY <3>1, <3>2, RunningLabels DEF Uses, LoadsBy, Used
    <3>4. CASE l = "unslot"
      <4>1. /\ Count(wpc', {"unslot"}) = Count(wpc, {"unslot"}) + 1
            /\ Count(wpc', SlotTaken) = Count(wpc, SlotTaken)
            /\ Count(wpc, {"unslot"}) \in Nat /\ Count(wpc, SlotTaken) \in Nat
        BY <3>1, <3>2, <3>4, RunningLabels DEF Uses, CountsBy
      <4>2. SlotBudget'
        BY <4>1, <3>1, <1>b, <1>c, GasOfSetType DEF SlotBudget, LimitTypes
      <4> QED
        BY <4>2, <3>1, <3>2, <3>3, <3>4, <1>b DEF LimitInv, LimitTypes, GasBudget, OneExcess, Running
    <3>5. CASE l = "gas"
      <4>1. /\ Count(wpc', {"unslot"}) = Count(wpc, {"unslot"})
            /\ Count(wpc', SlotTaken) = Count(wpc, SlotTaken) + 1
            /\ Count(wpc, {"unslot"}) \in Nat /\ Count(wpc, SlotTaken) \in Nat
        BY <3>1, <3>2, <3>5, RunningLabels DEF Uses, CountsBy
      <4>2. SlotBudget'
        BY <4>1, <3>1, <3>5, <1>b, <1>c, GasOfSetType DEF SlotBudget, LimitTypes
      <4> QED
        BY <4>2, <3>1, <3>2, <3>3, <3>5, <1>b DEF LimitInv, LimitTypes, GasBudget, OneExcess, Running
    <3> QED BY <3>4, <3>5
  <2> QED BY <1>6, <2>1, <2>2 DEF ReserveSlot
<1>7. CASE ReturnSlot(w)
  <2>1. /\ Goto(w, "return") /\ wpc[w] = "unslot" /\ max_txs' = max_txs + 1
        /\ UNCHANGED <<gas_limit, tx, committed, mpc>>
    BY <1>7 DEF ReturnSlot, GiveUp, not_limits
  <2>2. /\ wpc'[w] = "return" /\ \A v \in Workers \ {w} : wpc'[v] = wpc[v] /\ tx'[v] = tx[v]
        /\ Uses(wpc, wpc', tx, tx', w)
    BY <2>1, <1>a, WorkerUses DEF Uses, OnlyMoves
  <2>3. /\ Load(wpc', tx', {"ungas"}) = Load(wpc, tx, {"ungas"})
        /\ Load(wpc', tx', Running) = Load(wpc, tx, Running)
        /\ Used(wpc', tx', committed') = Used(wpc, tx, committed)
    BY <2>1, <2>2, RunningLabels DEF Uses, LoadsBy, Used
  <2>4. /\ Count(wpc', {"unslot"}) = Count(wpc, {"unslot"}) - 1
        /\ Count(wpc', SlotTaken) = Count(wpc, SlotTaken)
        /\ Count(wpc, {"unslot"}) \in Nat /\ Count(wpc, SlotTaken) \in Nat
    BY <2>1, <2>2, RunningLabels DEF Uses, CountsBy
  <2>5. SlotBudget'
    BY <2>4, <2>1, <1>b, <1>c, GasOfSetType DEF SlotBudget, LimitTypes
  <2> QED
    BY <2>5, <2>1, <2>2, <2>3, <1>b DEF LimitInv, LimitTypes, GasBudget, OneExcess, Running
<1>8. CASE ReserveGas(w)
  <2>0. Gas(w) \in Nat
    BY <1>8, <1>d DEF ReserveGas, Carrying
  <2>1. PICK l \in {"ungas", "run"} :
           /\ Goto(w, l) /\ (gas_limit <= 0 <=> l = "ungas")
           /\ wpc[w] = "gas" /\ gas_limit' = gas_limit - Gas(w) /\ UNCHANGED <<max_txs, tx, committed, mpc>>
    BY <1>8 DEF ReserveGas, not_limits
  <2>2. /\ wpc'[w] = l /\ \A v \in Workers \ {w} : wpc'[v] = wpc[v] /\ tx'[v] = tx[v]
        /\ Uses(wpc, wpc', tx, tx', w)
    BY <2>1, <1>a, WorkerUses DEF Uses, OnlyMoves
  <2>3. /\ Count(wpc', {"unslot"}) = Count(wpc, {"unslot"})
        /\ Count(wpc', SlotTaken) = Count(wpc, SlotTaken)
    BY <2>1, <2>2, RunningLabels DEF Uses, CountsBy
  <2>4. SlotBudget' /\ LimitTypes'
    BY <2>0, <2>1, <2>3, <1>b DEF SlotBudget, LimitTypes
  <2>a. GasOfSet(committed) \in Nat
    BY <1>b, GasOfSetType DEF LimitTypes
  <2>5. CASE l = "ungas"
    <3>1. /\ Load(wpc', tx', {"ungas"}) = Load(wpc, tx, {"ungas"}) + Gas(w)
          /\ Load(wpc', tx', Running) = Load(wpc, tx, Running)
          /\ Load(wpc, tx, {"ungas"}) \in Nat /\ Load(wpc, tx, Running) \in Nat
      BY <2>1, <2>2, <2>5, RunningLabels DEF Uses, LoadsBy, Gas
    <3>2. GasBudget'
      BY <3>1, <2>0, <2>1, <2>a, <1>b, <1>c DEF GasBudget, LimitTypes
    <3>3. OneExcess'
      BY <3>1, <2>1, <2>2, <2>5, <1>b DEF OneExcess, Used, Running
    <3> QED BY <3>2, <3>3, <2>4 DEF LimitInv
  <2>6. CASE l = "run"
    <3>1. /\ Load(wpc', tx', {"ungas"}) = Load(wpc, tx, {"ungas"})
          /\ Load(wpc', tx', Running) = Load(wpc, tx, Running) + Gas(w)
          /\ Load(wpc, tx, {"ungas"}) \in Nat /\ Load(wpc, tx, Running) \in Nat
      BY <2>1, <2>2, <2>6, RunningLabels DEF Uses, LoadsBy, Gas
    <3>2. GasBudget'
      BY <3>1, <2>0, <2>1, <2>a, <1>b, <1>c DEF GasBudget, LimitTypes
    <3>3. OneExcess'
      <4>1. gas_limit > 0
        BY <2>1, <2>6, <1>b DEF LimitTypes
      <4>2. Load(wpc, tx, Running) + GasOfSet(committed) < GasLimit
        BY <4>1, <3>1, <2>a, <1>b, <1>c DEF GasBudget, LimitTypes
      <4>3. Used(wpc', tx', committed') - GasOf[tx'[w]] < GasLimit
        BY <4>2, <3>1, <2>0, <2>1, <2>a, <1>c DEF Used, Gas
      <4>4. wpc'[w] \in Running
        BY <2>2, <2>6 DEF Running
      <4> QED BY <4>3, <4>4 DEF OneExcess
    <3> QED BY <3>2, <3>3, <2>4 DEF LimitInv
  <2> QED BY <2>5, <2>6
<1>9. CASE ReturnGas(w)
  <2>0. Gas(w) \in Nat
    BY <1>9, <1>d DEF ReturnGas, Carrying
  <2>1. /\ Goto(w, "return") /\ wpc[w] = "ungas" /\ gas_limit' = gas_limit + Gas(w)
        /\ UNCHANGED <<max_txs, tx, committed, mpc>>
    BY <1>9 DEF ReturnGas, GiveUp, not_limits
  <2>2. /\ wpc'[w] = "return" /\ \A v \in Workers \ {w} : wpc'[v] = wpc[v] /\ tx'[v] = tx[v]
        /\ Uses(wpc, wpc', tx, tx', w)
    BY <2>1, <1>a, WorkerUses DEF Uses, OnlyMoves
  <2>3. /\ Count(wpc', {"unslot"}) = Count(wpc, {"unslot"})
        /\ Count(wpc', SlotTaken) = Count(wpc, SlotTaken) - 1
        /\ Count(wpc, {"unslot"}) \in Nat /\ Count(wpc, SlotTaken) \in Nat
    BY <2>1, <2>2, RunningLabels DEF Uses, CountsBy
  <2>4. SlotBudget' /\ LimitTypes'
    BY <2>0, <2>1, <2>3, <1>b, <1>c, GasOfSetType DEF SlotBudget, LimitTypes
  <2>a. GasOfSet(committed) \in Nat
    BY <1>b, GasOfSetType DEF LimitTypes
  <2>5. /\ Load(wpc', tx', {"ungas"}) = Load(wpc, tx, {"ungas"}) - Gas(w)
        /\ Load(wpc', tx', Running) = Load(wpc, tx, Running)
        /\ Load(wpc, tx, {"ungas"}) \in Nat /\ Load(wpc, tx, Running) \in Nat
    BY <2>1, <2>2, RunningLabels DEF Uses, LoadsBy, Gas
  <2>6. GasBudget'
    BY <2>5, <2>0, <2>1, <2>a, <1>b, <1>c DEF GasBudget, LimitTypes
  <2>7. OneExcess'
    BY <2>5, <2>1, <2>2, <1>b DEF OneExcess, Used, Running
  <2> QED BY <2>4, <2>6, <2>7 DEF LimitInv
<1>13. CASE Commit(w)
  <2>0. Gas(w) \in Nat /\ tx[w] \in Txs /\ wpc[w] = "commit"
    BY <1>13, <1>d DEF Commit, Carrying
  <2>1. /\ Goto(w, "open") /\ tx' = [tx EXCEPT ![w] = Moved]
        /\ committed' = committed \cup {tx[w]} /\ UNCHANGED <<max_txs, gas_limit, mpc>>
    BY <1>13 DEF Commit, Finished, not_limits
  <2>b. DOMAIN tx' = Workers /\ \A v \in Workers \ {w} : tx'[v] = tx[v]
    BY <2>1, <1>a
  <2>2a. wpc'[w] = "open" /\ Uses(wpc, wpc', tx, tx', w)
    BY <2>1, <2>b, WorkerUses
  <2>2. /\ wpc'[w] = "open" /\ \A v \in Workers \ {w} : wpc'[v] = wpc[v] /\ tx'[v] = tx[v]
        /\ Uses(wpc, wpc', tx, tx', w)
    BY <2>2a DEF Uses, OnlyMoves
  <2>3. /\ Count(wpc', {"unslot"}) = Count(wpc, {"unslot"})
        /\ Count(wpc', SlotTaken) = Count(wpc, SlotTaken) - 1
        /\ Count(wpc, {"unslot"}) \in Nat /\ Count(wpc, SlotTaken) \in Nat
    BY <2>0, <2>2, RunningLabels DEF Uses, CountsBy
  <2>c. /\ committed \in SUBSET Txs /\ Cardinality(committed) \in Nat /\ GasOfSet(committed) \in Nat
        /\ Cardinality(committed') <= Cardinality(committed) + 1 /\ Cardinality(committed') \in Nat
        /\ GasOfSet(committed') <= GasOfSet(committed) + Gas(w) /\ GasOfSet(committed') \in Nat
    <3>1. committed \in SUBSET Txs
      BY <1>b DEF LimitTypes
    <3> QED BY <3>1, <2>0, <2>1, GasOfSetType, GasOfSetAdd DEF Gas
  <2>4. SlotBudget'
    BY <2>1, <2>3, <2>c, <1>b, <1>c DEF SlotBudget, LimitTypes
  <2>d. mpc # "idle"
    BY <2>0 DEF StrayInv, JobsOfTheBlock
  <2>e. LimitTypes'
    BY <2>0, <2>1, <2>d, <1>b DEF LimitTypes
  <2>5. /\ Load(wpc', tx', {"ungas"}) = Load(wpc, tx, {"ungas"})
        /\ Load(wpc', tx', Running) = Load(wpc, tx, Running) - Gas(w)
        /\ Load(wpc, tx, {"ungas"}) \in Nat /\ Load(wpc, tx, Running) \in Nat
    BY <2>0, <2>2, RunningLabels DEF Uses, LoadsBy, Gas
  <2>6. GasBudget'
    BY <2>5, <2>0, <2>1, <2>c, <1>b, <1>c DEF GasBudget, LimitTypes
  <2>7. OneExcess'
    <3>1. wpc[w] \in Running /\ wpc'[w] \notin Running
      BY <2>0, <2>2 DEF Running
    <3>2. \/ Used(wpc, tx, committed) < GasLimit
          \/ \E v \in Workers : wpc[v] \in Running /\ Used(wpc, tx, committed) - GasOf[tx[v]] < GasLimit
          \/ \E t \in committed : Used(wpc, tx, committed) - GasOf[t] < GasLimit
      BY <3>1, <1>b DEF OneExcess
    <3>3. LET D == committed \cup {tx[w]} IN
           \/ Used(wpc', tx', D) < GasLimit
           \/ \E v \in Workers : wpc'[v] \in Running /\ Used(wpc', tx', D) - GasOf[tx'[v]] < GasLimit
           \/ \E t \in D : Used(wpc', tx', D) - GasOf[t] < GasLimit
      BY <3>1, <3>2, <2>2, <2>c, ExcessCommit DEF Uses
    <3> QED BY <3>3, <2>1, Zenon DEF OneExcess
  <2> QED BY <2>4, <2>e, <2>6, <2>7 DEF LimitInv
<1>14. CASE Undo(w)
  <2>0. Gas(w) \in Nat /\ tx[w] \in Txs /\ wpc[w] = "undo"
    BY <1>14, <1>d DEF Undo, Carrying
  <2>1. /\ Goto(w, "open") /\ tx' = [tx EXCEPT ![w] = Moved]
        /\ max_txs' = max_txs + 1 \/ max_txs' = max_txs
        /\ gas_limit' = gas_limit + Gas(w) /\ UNCHANGED <<committed, mpc>>
    BY <1>14, <2>0, <1>b DEF Undo, Finished, not_limits, LimitTypes
  <2>b. DOMAIN tx' = Workers /\ \A v \in Workers \ {w} : tx'[v] = tx[v]
    BY <2>1, <1>a
  <2>2a. wpc'[w] = "open" /\ Uses(wpc, wpc', tx, tx', w)
    BY <2>1, <2>b, WorkerUses
  <2>2. /\ wpc'[w] = "open" /\ \A v \in Workers \ {w} : wpc'[v] = wpc[v] /\ tx'[v] = tx[v]
        /\ Uses(wpc, wpc', tx, tx', w)
    BY <2>2a DEF Uses, OnlyMoves
  <2>3. /\ Count(wpc', {"unslot"}) = Count(wpc, {"unslot"})
        /\ Count(wpc', SlotTaken) = Count(wpc, SlotTaken) - 1
        /\ Count(wpc, {"unslot"}) \in Nat /\ Count(wpc, SlotTaken) \in Nat
    BY <2>0, <2>2, RunningLabels DEF Uses, CountsBy
  <2>c. committed \in SUBSET Txs /\ Cardinality(committed) \in Nat /\ GasOfSet(committed) \in Nat
    BY <1>b, GasOfSetType DEF LimitTypes
  <2>4. SlotBudget' /\ LimitTypes'
    BY <2>0, <2>1, <2>3, <2>c, <1>b, <1>c DEF SlotBudget, LimitTypes
  <2>5. /\ Load(wpc', tx', {"ungas"}) = Load(wpc, tx, {"ungas"})
        /\ Load(wpc', tx', Running) = Load(wpc, tx, Running) - Gas(w)
        /\ Load(wpc, tx, {"ungas"}) \in Nat /\ Load(wpc, tx, Running) \in Nat
    BY <2>0, <2>2, RunningLabels DEF Uses, LoadsBy, Gas
  <2>6. GasBudget'
    BY <2>5, <2>0, <2>1, <2>c, <1>b, <1>c DEF GasBudget, LimitTypes
  <2>7. OneExcess'
    <3>1. wpc[w] \in Running /\ wpc'[w] \notin Running
      BY <2>0, <2>2 DEF Running
    <3>2. \/ Used(wpc, tx, committed) < GasLimit
          \/ \E v \in Workers : wpc[v] \in Running /\ Used(wpc, tx, committed) - GasOf[tx[v]] < GasLimit
          \/ \E t \in committed : Used(wpc, tx, committed) - GasOf[t] < GasLimit
      BY <3>1, <1>b DEF OneExcess
    <3>3. \/ Used(wpc', tx', committed) < GasLimit
          \/ \E v \in Workers : wpc'[v] \in Running /\ Used(wpc', tx', committed) - GasOf[tx'[v]] < GasLimit
          \/ \E t \in committed : Used(wpc', tx', committed) - GasOf[t] < GasLimit
      BY <3>1, <3>2, <2>2, <2>c, ExcessWithout DEF Uses
    <3> QED BY <3>3, <2>1, Zenon DEF OneExcess
  <2> QED BY <2>4, <2>6, <2>7 DEF LimitInv
<1> QED
  BY <1>1, <1>2, <1>3, <1>4, <1>5, <1>6, <1>7, <1>8, <1>9, <1>10, <1>11, <1>12,
     <1>13, <1>14, <1>15 DEF WorkerStep

\* A new block begins with its limits, and ends when every worker is parked.
LEMMA LimitAtRest ==
  ASSUME \A w \in Workers : wpc'[w] = "parked", committed' = {},
         max_txs' \in Int /\ 0 <= max_txs' /\ max_txs' <= MaxTxs,
         gas_limit' \in Int /\ gas_limit' <= GasLimit
  PROVE  LimitInv'
<1>1. /\ Count(wpc', {"unslot"}) = 0 /\ Count(wpc', SlotTaken) = 0
      /\ Load(wpc', tx', {"ungas"}) = 0 /\ Load(wpc', tx', Running) = 0
      /\ GasOfSet({}) = 0 /\ Cardinality({}) = 0
  BY NothingUsed
<1>2. LimitTypes'
  BY DEF LimitTypes
<1>3. SlotBudget'
  <2>1. Cardinality(committed') = 0
    BY <1>1, Zenon
  <2>a. MaxTxs \in Nat /\ Count(wpc', {"unslot"}) = 0 /\ Count(wpc', SlotTaken) = 0
    BY <1>1, AssemblyAssumption
  <2> DEFINE u == Count(wpc', {"unslot"})
             s == Count(wpc', SlotTaken)
             n == Cardinality(committed')
  <2>b. u = 0 /\ s = 0 /\ n = 0 /\ MaxTxs \in Nat
    BY <2>1, <2>a
  <2>c. SlotBudget' <=> 0 <= max_txs' + u /\ max_txs' + u + s + n <= MaxTxs
    BY DEF SlotBudget
  <2> HIDE DEF u, s, n
  <2>d. \A m \in Int : 0 <= m /\ m <= MaxTxs => 0 <= m + u /\ m + u + s + n <= MaxTxs
    BY <2>b
  <2>2. 0 <= max_txs' + u /\ max_txs' + u + s + n <= MaxTxs
    BY <2>d
  <2> QED BY <2>2, <2>c
<1>4. GasBudget'
  BY <1>1, AssemblyAssumption DEF GasBudget
<1>5. OneExcess'
  BY DEF OneExcess, Running
<1> QED BY <1>2, <1>3, <1>4, <1>5 DEF LimitInv

\* The steps of propose_tx_block.
LEMMA LimitProposerStep ==
  ASSUME StrayInv, LimitInv, StartThreads \/ Finish
  PROVE  LimitInv'
<1> USE DEF proposer, limits, not_main
<1>1. CASE StartThreads
  <2>1. \A w \in Workers : wpc'[w] = "parked"
    BY <1>1, NobodyMoves DEF StartThreads
  <2>2. committed' = {} /\ max_txs' = MaxTxs /\ gas_limit' = GasLimit
    BY <1>1 DEF StartThreads, LimitInv, LimitTypes
  <2> QED BY <2>1, <2>2, LimitAtRest, AssemblyAssumption
<1>2. CASE Close
  <2>1. \A w \in Workers : wpc[w] = "parked"
    BY <1>2 DEF Close, StrayInv, JobsOfTheBlock
  <2>2. committed' = {} /\ max_txs' = max_txs /\ gas_limit' = gas_limit /\ wpc' = wpc
    BY <1>2 DEF Close
  <2>3. /\ Count(wpc, {"unslot"}) = 0 /\ Count(wpc, SlotTaken) = 0
        /\ Load(wpc, tx, {"ungas"}) = 0 /\ Load(wpc, tx, Running) = 0
    BY <2>1, NothingUsed
  <2>4. committed \in SUBSET Txs /\ max_txs \in Int /\ gas_limit \in Int
    BY DEF LimitInv, LimitTypes
  <2>5. Cardinality(committed) \in Nat /\ GasOfSet(committed) \in Nat
    BY <2>4, GasOfSetType
  <2>6. 0 <= max_txs /\ max_txs <= MaxTxs /\ gas_limit <= GasLimit
    BY <2>3, <2>4, <2>5, AssemblyAssumption DEF LimitInv, SlotBudget, GasBudget
  <2> QED BY <2>1, <2>2, <2>4, <2>6, LimitAtRest
<1>3. CASE Finish /\ ~Close
  <2>1. UNCHANGED <<wpc, tx, max_txs, gas_limit, committed>> /\ mpc' # "idle"
    BY <1>3 DEF Finish, StartWorker, WaitFor, StopThreads, ResetMaxActive, CancelRpc, Join
  <2> QED BY <2>1, LimitQuiet
<1> QED BY <1>1, <1>2, <1>3

\* Every step keeps LimitInv.
LEMMA LimitNext ==
  ASSUME RoomyRing, StrayInv, PoolInv, PoolInv', LimitInv, [Next]_vars
  PROVE  LimitInv'
<1>1. CASE UNCHANGED <<wpc, tx, limits, committed, mpc>>
  BY <1>1, LimitQuiet DEF limits
<1>2. CASE UNCHANGED vars
  BY <1>2, <1>1 DEF vars, proposer
<1>3. ASSUME NEW batch \in Batches, AddLoad(batch) PROVE LimitInv'
  BY <1>1, <1>3 DEF AddLoad, proposer
<1>4. CASE AddWrite
  BY <1>1, <1>4 DEF AddWrite, proposer
<1>5. CASE AddStore
  BY <1>1, <1>5 DEF AddStore, proposer
<1>6. ASSUME NEW w \in Workers, Answer(w) PROVE LimitInv'
  BY <1>1, <1>6 DEF Answer, not_rpc, proposer
<1> QED
  BY <1>2, <1>3, <1>4, <1>5, <1>6, LimitWorkerStep, LimitProposerStep DEF Next

\* LimitInv holds initially.
LEMMA LimitInit == Init => LimitInv
<1> SUFFICES ASSUME Init PROVE LimitInv
  OBVIOUS
<1>0. \A w \in Workers : wpc[w] = "parked"
  BY DEF Init
<1>1. /\ Count(wpc, {"unslot"}) = 0 /\ Count(wpc, SlotTaken) = 0
      /\ Load(wpc, tx, {"ungas"}) = 0 /\ Load(wpc, tx, Running) = 0
      /\ GasOfSet({}) = 0 /\ Cardinality({}) = 0
  BY <1>0, NothingUsed
<1>2. committed = {} /\ max_txs = 0 /\ gas_limit = 0
  BY DEF Init
<1>3. LimitTypes /\ SlotBudget /\ GasBudget
  BY <1>1, <1>2, AssemblyAssumption DEF LimitTypes, SlotBudget, GasBudget
<1>4. OneExcess
  BY <1>0, <1>2 DEF OneExcess, Running
<1> QED BY <1>3, <1>4 DEF LimitInv

\* LimitInv implies the property.
LEMMA LimitImplies == PoolInv /\ LimitInv => LimitsHold
<1> SUFFICES ASSUME PoolInv, LimitInv PROVE LimitsHold
  OBVIOUS
<1>1. LimitTypes /\ SlotBudget /\ GasBudget /\ OneExcess
  BY DEF LimitInv
<1>2. /\ committed \in SUBSET Txs /\ max_txs \in Int /\ GasLimit \in Nat /\ MaxTxs \in Nat
      /\ Cardinality(committed) \in Nat /\ GasOfSet(committed) \in Nat
  BY <1>1, GasOfSetType, AssemblyAssumption DEF LimitTypes
<1>3. Count(wpc, {"unslot"}) \in Nat /\ Count(wpc, SlotTaken) \in Nat
  BY CountType
<1>4. Cardinality(committed) <= MaxTxs
  BY <1>1, <1>2, <1>3 DEF SlotBudget
<1>5. Laden(wpc, tx, Running)
  BY LadenNow, AllLaden
<1>6. Load(wpc, tx, Running) \in Nat
  BY <1>5, LoadType
<1>7. ASSUME NEW t \in committed PROVE GasOfSet(committed \ {t}) = GasOfSet(committed) - GasOf[t] /\ GasOf[t] \in Nat
  BY <1>2, GasOfSetRemove, GasNat
<1>8. ASSUME committed # {} PROVE \E t \in committed : GasOfSet(committed \ {t}) < GasLimit
  <2>1. PICK t \in committed : TRUE
    BY <1>8
  <2>2. CASE Used(wpc, tx, committed) < GasLimit
    <3>1. GasOfSet(committed \ {t}) < GasLimit
      BY <2>2, <1>2, <1>6, <1>7 DEF Used
    <3> QED BY <3>1
  <2>3. ASSUME NEW w \in Workers, wpc[w] \in Running, Used(wpc, tx, committed) - GasOf[tx[w]] < GasLimit
        PROVE  \E x \in committed : GasOfSet(committed \ {x}) < GasLimit
    <3>1. GasOf[tx[w]] <= Load(wpc, tx, Running) /\ GasOf[tx[w]] \in Nat
      BY <2>3, <1>5, LoadType, GasNat DEF Laden
    <3>2. GasOfSet(committed) < GasLimit
      BY <2>3, <3>1, <1>2, <1>6 DEF Used
    <3>3. GasOfSet(committed \ {t}) < GasLimit
      BY <3>2, <1>2, <1>7
    <3> QED BY <3>3
  <2>4. ASSUME NEW x \in committed, Used(wpc, tx, committed) - GasOf[x] < GasLimit
        PROVE  GasOfSet(committed \ {x}) < GasLimit
    BY <2>4, <1>2, <1>6, <1>7 DEF Used
  <2> QED BY <2>2, <2>3, <2>4, <1>1, <1>8 DEF OneExcess
<1> QED BY <1>4, <1>8 DEF LimitsHold, GasOfSet

\* AssemblyLimits, for any number of workers and any gas: a block has at most
\* max_txs transactions, and their gas without that of one of them is below the
\* gas limit, whatever reservations are open, returned or lost meanwhile.
THEOREM BlockKeepsToItsLimits == RoomyRing /\ Spec => []LimitsHold
<1> DEFINE Inv == StrayInv /\ PoolInv /\ LimitInv
<1> SUFFICES ASSUME RoomyRing PROVE Spec => []LimitsHold
  OBVIOUS
<1>1. Init => Inv
  BY StrayInit, PoolInit, LimitInit
<1>2. Inv /\ [Next]_vars => Inv'
  BY StrayNext, PoolNext, LimitNext
<1>3. Inv => LimitsHold
  BY LimitImplies
<1> QED BY <1>1, <1>2, <1>3, PTL DEF Spec
=============================================================================
