------------------------------ MODULE Assembly ------------------------------
(***************************************************************************)
(* Assembling blocks: Mempool, AssemblyLimits, RateLimiter, CancellableRPC *)
(* and the AssemblyWorkers, driven by propose_tx_block.                    *)
(*                                                                         *)
(*   proposer:  idle -> start* -> wait -> stop -> unslot -> cancel* ->     *)
(*              join* -> idle                                              *)
(*   worker:    parked -> open [-> slow] -> move -> reserve [-> unslot] -> *)
(*              gas [-> ungas] -> run [-> query] -> commit | undo -> open; *)
(*              return -> parked                                           *)
(*                                                                         *)
(* What execute does to the state is in Block: here it succeeds or fails,  *)
(* for some transactions after an answer from outside.                     *)
(***************************************************************************)
EXTENDS Integers, FiniteSets, FiniteSetsExt, SequencesExt

CONSTANTS Workers,           \* the assembly threads, numbered from 1
          Txs,               \* the transactions
          GasOf,             \* their gas limits
          Rpcs,              \* those that make an external call
          Batches,           \* what add_txs may be given
          Overlap,           \* may add_txs run while a block is assembled?
          MAX_MEMPOOL_SIZE,
          MaxTxs, GasLimit,  \* the limits of a block
          GasLimitPerTx,
          MaxBlocks,         \* bound: blocks assembled
          Moved              \* what is left in a slot that was moved from

ASSUME AssemblyAssumption ==
    /\ IsFiniteSet(Workers) /\ Workers # {}
    /\ Workers = 1 .. Cardinality(Workers)
    /\ IsFiniteSet(Txs) /\ Moved \notin Txs
    /\ \A t \in Txs : GasOf[t] \in Nat
    /\ Batches \subseteq Seq(Txs) /\ \A batch \in Batches : IsInjective(batch)
    /\ Overlap \in BOOLEAN
    /\ MAX_MEMPOOL_SIZE \in Nat \ {0}
    /\ MaxTxs \in Nat /\ GasLimit \in Nat /\ GasLimitPerTx \in Nat

VARIABLES ring, consumed, filled,    \* Mempool: ringbuffer, and the two halves of indices
          producer,                  \* the one caller of add_txs (it holds mtx)
          accepted,                  \* history: what add_txs took
          claimed,                   \* history: how often a transaction was handed out
          max_txs, gas_limit, done,  \* AssemblyLimits
          active, max_active, shutdown, has_slot,   \* RateLimiter
          contexts,                  \* the workers whose thread has a context
          allowed, query,            \* CancellableRPC of each, in that context
          job,                       \* the workers with a block context to work on
          wpc, tx,                   \* the workers, and the transaction of each
          committed,                 \* the transactions that execute committed to this block
          mpc, turn, blocks          \* propose_tx_block: its place, a loop index, blocks so far

mempool == <<ring, consumed, filled, producer, accepted, claimed>>
limits == <<max_txs, gas_limit, done>>
limiter == <<active, max_active, shutdown, has_slot>>
rpc == <<contexts, allowed, query>>
proposer == <<mpc, turn, blocks>>
vars == <<mempool, limits, limiter, rpc, job, wpc, tx, committed, proposer>>

Idle == [pc |-> "idle", consumed |-> 0, filled |-> 0, batch |-> <<>>]

Init ==
    /\ ring = [i \in 0 .. MAX_MEMPOOL_SIZE - 1 |-> Moved]
    /\ consumed = 0 /\ filled = 0
    /\ producer = Idle
    /\ accepted = {}
    /\ claimed = [t \in Txs |-> 0]
    /\ max_txs = 0 /\ gas_limit = 0 /\ done = FALSE
    /\ active = 0 /\ max_active = 0 /\ shutdown = FALSE
    /\ has_slot = [w \in Workers |-> FALSE]
    /\ contexts = {}
    /\ allowed = [w \in Workers |-> TRUE]
    /\ query = [w \in Workers |-> "none"]
    /\ job = [w \in Workers |-> FALSE]
    /\ wpc = [w \in Workers |-> "parked"]
    /\ tx = [w \in Workers |-> Moved]
    /\ committed = {}
    /\ mpc = "idle" /\ turn = 1 /\ blocks = 0

-----------------------------------------------------------------------------
(* Mempool::add_txs, in three steps: the load, the copies, the store.      *)

UsedSpace(p) == p.filled - p.consumed
WriteNow(p) == Min({MAX_MEMPOOL_SIZE - UsedSpace(p), Len(p.batch)})

AddLoad(batch) ==
    /\ producer = Idle
    /\ Overlap \/ mpc = "idle"
    /\ ToSet(batch) \cap accepted = {}
    /\ producer' = [pc |-> "write", batch |-> batch, filled |-> filled,
                    consumed |-> Min({consumed, filled})]
    /\ UNCHANGED <<ring, consumed, filled, accepted, claimed, limits, limiter, rpc,
                   job, wpc, tx, committed, proposer>>

AddWrite ==
    /\ producer.pc = "write"
    /\ ring' = [i \in DOMAIN ring |->
                  LET at == {k \in 1 .. WriteNow(producer) :
                               (producer.filled + k - 1) % MAX_MEMPOOL_SIZE = i}
                  IN  IF at = {} THEN ring[i] ELSE producer.batch[Max(at)]]
    /\ producer' = [producer EXCEPT !.pc = "store"]
    /\ UNCHANGED <<consumed, filled, accepted, claimed, limits, limiter, rpc,
                   job, wpc, tx, committed, proposer>>

\* Mutant of AddStore: the last of the batch is not counted.
AddStore_OneShort ==
    /\ producer.pc = "store"
    /\ filled' = (producer.filled + WriteNow(producer) - 1) % MAX_MEMPOOL_SIZE
    /\ consumed' = producer.consumed % MAX_MEMPOOL_SIZE
    /\ accepted' = accepted \cup {producer.batch[k] : k \in 1 .. WriteNow(producer)}
    /\ producer' = Idle
    /\ UNCHANGED <<ring, claimed, limits, limiter, rpc, job, wpc, tx, committed, proposer>>

AddStore ==
    /\ producer.pc = "store"
    /\ filled' = (producer.filled + WriteNow(producer)) % MAX_MEMPOOL_SIZE
    /\ consumed' = producer.consumed % MAX_MEMPOOL_SIZE
    /\ accepted' = accepted \cup {producer.batch[k] : k \in 1 .. WriteNow(producer)}
    /\ producer' = Idle
    /\ UNCHANGED <<ring, claimed, limits, limiter, rpc, job, wpc, tx, committed, proposer>>

-----------------------------------------------------------------------------
(* The thread of an AsyncAssemblyWorker                                    *)

Goto(w, l) == wpc' = [wpc EXCEPT ![w] = l]

\* claim_one_slot and free_one_slot, which is idempotent.
claim_one_slot(w) ==
    /\ has_slot' = [has_slot EXCEPT ![w] = TRUE]
    /\ active' = active + 1
free_one_slot(w) ==
    /\ has_slot' = [has_slot EXCEPT ![w] = FALSE]
    /\ active' = active - (IF has_slot[w] THEN 1 ELSE 0)

\* AsyncAssemblyWorker::run takes up its job; "thrown" is "double claim slot".
Begin(w) ==
    /\ wpc[w] = "parked"
    /\ job[w]
    /\ IF has_slot[w] THEN Goto(w, "thrown") /\ UNCHANGED limiter
       ELSE Goto(w, "open") /\ claim_one_slot(w) /\ UNCHANGED <<max_active, shutdown>>
    /\ UNCHANGED <<mempool, limits, rpc, job, tx, committed, proposer>>

\* wait_for_opening with a slot.  The two loads are one step: max_active is the
\* number of workers or 0, and no more than those hold slots.
FastPath(w) ==
    /\ wpc[w] = "open"
    /\ \/ /\ active <= max_active
          /\ Goto(w, "fetch")
          /\ UNCHANGED limiter
       \/ /\ active > max_active
          /\ free_one_slot(w)
          /\ Goto(w, "slow")
          /\ UNCHANGED <<max_active, shutdown>>
    /\ UNCHANGED <<mempool, limits, rpc, job, tx, committed, proposer>>

\* slowpath_wait_for_opening under mtx, which stop_threads holds until it has
\* reset max_active; std::abort instead of waiting.
SlowPath(w) ==
    /\ wpc[w] = "slow"
    /\ mpc # "unslot"
    /\ Goto(w, CASE shutdown -> "return"
                 [] ~shutdown /\ active < max_active -> "fetch"
                 [] OTHER -> "aborted")
    /\ IF ~shutdown /\ active < max_active THEN claim_one_slot(w)
       ELSE UNCHANGED <<active, has_slot>>
    /\ UNCHANGED <<max_active, shutdown>>
    /\ UNCHANGED <<mempool, limits, rpc, job, tx, committed, proposer>>

\* limits.notify_done(), and AssemblyWorker::run returns.
GiveUp(w) == done' = TRUE /\ Goto(w, "return")

\* get_new_tx: fetch_add(1), also when the pool is empty.  Until the move
\* tx[w] is the slot.
Fetch(w) ==
    /\ wpc[w] = "fetch"
    /\ consumed' = consumed + 1
    /\ \/ /\ consumed >= filled
          /\ GiveUp(w)
          /\ UNCHANGED <<tx, claimed>>
       \/ /\ consumed < filled
          /\ tx' = [tx EXCEPT ![w] = consumed % MAX_MEMPOOL_SIZE]
          /\ claimed' = [claimed EXCEPT ![ring[consumed % MAX_MEMPOOL_SIZE]] = @ + 1]
          /\ Goto(w, "move")
          /\ UNCHANGED done
    /\ UNCHANGED <<ring, filled, producer, accepted, max_txs, gas_limit, limiter, rpc,
                   job, committed, proposer>>

Move(w) ==
    /\ wpc[w] = "move"
    /\ tx' = [tx EXCEPT ![w] = ring[tx[w]]]
    /\ ring' = [ring EXCEPT ![tx[w]] = Moved]
    /\ Goto(w, "reserve")
    /\ UNCHANGED <<consumed, filled, producer, accepted, claimed, limits, limiter, rpc,
                   job, committed, proposer>>

-----------------------------------------------------------------------------
(* AssemblyLimits                                                          *)

Gas(w) == GasOf[tx[w]]
not_limits == <<mempool, limiter, rpc, job, proposer>>

\* reserve_tx: max_txs first,
ReserveSlot(w) ==
    /\ wpc[w] = "reserve"
    /\ \/ /\ Gas(w) > GasLimitPerTx
          /\ GiveUp(w)
          /\ UNCHANGED max_txs
       \/ /\ Gas(w) <= GasLimitPerTx
          /\ max_txs' = max_txs - 1
          /\ Goto(w, IF max_txs <= 0 THEN "unslot" ELSE "gas")
          /\ UNCHANGED done
    /\ UNCHANGED <<gas_limit, tx, committed, not_limits>>

ReturnSlot(w) ==
    /\ wpc[w] = "unslot"
    /\ max_txs' = max_txs + 1
    /\ GiveUp(w)
    /\ UNCHANGED <<gas_limit, tx, committed, not_limits>>

\* Mutant of ReserveGas: the check is of nothing.
ReserveGas_Unchecked(w) ==
    /\ wpc[w] = "gas"
    /\ gas_limit' = gas_limit - Gas(w)
    /\ Goto(w, "run")
    /\ UNCHANGED <<max_txs, done, tx, committed, not_limits>>

\* then the gas,
ReserveGas(w) ==
    /\ wpc[w] = "gas"
    /\ gas_limit' = gas_limit - Gas(w)
    /\ Goto(w, IF gas_limit <= 0 THEN "ungas" ELSE "run")
    /\ UNCHANGED <<max_txs, done, tx, committed, not_limits>>

\* which is given back, but not the slot.
ReturnGas(w) ==
    /\ wpc[w] = "ungas"
    /\ gas_limit' = gas_limit + Gas(w)
    /\ GiveUp(w)
    /\ UNCHANGED <<max_txs, tx, committed, not_limits>>

Finished(w) == tx' = [tx EXCEPT ![w] = Moved] /\ Goto(w, "open")

Commit(w) ==
    /\ wpc[w] = "commit"
    /\ committed' = committed \cup {tx[w]}
    /\ Finished(w)
    /\ UNCHANGED <<limits, not_limits>>

\* ~Reservation, of a transaction that failed: nothing is undone if its gas is 0.
Undo(w) ==
    /\ wpc[w] = "undo"
    /\ IF Gas(w) > 0
       THEN max_txs' = max_txs + 1 /\ gas_limit' = gas_limit + Gas(w)
       ELSE UNCHANGED <<max_txs, gas_limit>>
    /\ Finished(w)
    /\ UNCHANGED <<done, committed, not_limits>>

-----------------------------------------------------------------------------
(* execute, and the external call that it may make                         *)

not_rpc == <<mempool, limits, limiter, job, tx, committed, proposer>>

\* The context of a thread is made when it is first used: for a call, or for the
\* uid of a delta, if the transaction gets as far as one that needs it.
Execute(w) ==
    /\ wpc[w] = "run"
    /\ \/ /\ tx[w] \in Rpcs
          /\ contexts' = contexts \cup {w}
          /\ Goto(w, "send")
       \/ /\ tx[w] \notin Rpcs
          /\ contexts' \in {contexts, contexts \cup {w}}
          /\ \E l \in {"commit", "undo"} : Goto(w, l)
    /\ UNCHANGED <<allowed, query, not_rpc>>

\* send_query: not begun once calls are disallowed.
SendQuery(w) ==
    /\ wpc[w] = "send"
    /\ IF allowed[w]
       THEN query' = [query EXCEPT ![w] = "open"] /\ Goto(w, "query")
       ELSE Goto(w, "undo") /\ UNCHANGED query
    /\ UNCHANGED <<contexts, allowed, not_rpc>>

\* The other side answers, if it ever does, or the call breaks down.
Answer(w) ==
    /\ query[w] = "open"
    /\ \E answer \in {"answered", "broken"} : query' = [query EXCEPT ![w] = answer]
    /\ UNCHANGED <<contexts, allowed, wpc, not_rpc>>

\* The completion queue returns the call, answered, cancelled or with another
\* status: that is an exception which execute ends the program on.
Receive(w) ==
    /\ wpc[w] = "query"
    /\ \/ query[w] = "answered" /\ \E l \in {"commit", "undo"} : Goto(w, l)
       \/ query[w] = "cancelled" /\ Goto(w, "undo")
       \/ query[w] = "broken" /\ Goto(w, "unrecoverable")
    /\ query' = [query EXCEPT ![w] = "none"]
    /\ UNCHANGED <<contexts, allowed, not_rpc>>

\* run has returned: the slot is freed and the job is done.
Park(w) ==
    /\ wpc[w] = "return"
    /\ free_one_slot(w)
    /\ job' = [job EXCEPT ![w] = FALSE]
    /\ tx' = [tx EXCEPT ![w] = Moved]
    /\ Goto(w, "parked")
    /\ UNCHANGED <<mempool, limits, max_active, shutdown, rpc, committed, proposer>>

-----------------------------------------------------------------------------
(* propose_tx_block                                                        *)

LastTurn == turn = Cardinality(Workers)
not_main == <<mempool, wpc, tx, committed>>

prep_for_notify == shutdown' = FALSE
\* A thread without a context will have one in which calls are allowed.
enable_rpcs == allowed' = [w \in Workers |-> TRUE]

\* While all workers are parked.
StartThreads ==
    /\ mpc = "idle"
    /\ Overlap \/ producer = Idle
    /\ blocks < MaxBlocks
    /\ max_txs' = MaxTxs /\ gas_limit' = GasLimit /\ done' = FALSE
    /\ prep_for_notify
    /\ enable_rpcs
    /\ max_active' = Cardinality(Workers)
    /\ mpc' = "start" /\ turn' = 1
    /\ UNCHANGED <<active, has_slot, contexts, query, job, blocks, not_main>>

StartWorker ==
    /\ mpc = "start"
    /\ job' = [job EXCEPT ![turn] = TRUE]
    /\ IF LastTurn THEN mpc' = "wait" /\ UNCHANGED turn ELSE turn' = turn + 1 /\ UNCHANGED mpc
    /\ UNCHANGED <<limits, limiter, rpc, blocks, not_main>>

\* limits.wait_for returns: some worker is done, or time is up.
WaitFor ==
    /\ mpc = "wait"
    /\ mpc' = "stop"
    /\ UNCHANGED <<limits, limiter, rpc, job, turn, blocks, not_main>>

StopThreads ==
    /\ mpc = "stop"
    /\ shutdown' = TRUE
    /\ mpc' = "unslot"
    /\ UNCHANGED <<limits, active, max_active, has_slot, rpc, job, turn, blocks, not_main>>

ResetMaxActive ==
    /\ mpc = "unslot"
    /\ max_active' = 0
    /\ mpc' = "cancel" /\ turn' = 1
    /\ UNCHANGED <<limits, active, shutdown, has_slot, rpc, job, blocks, not_main>>

\* Mutant of CancelRpc: calls are disallowed, and the one that is open stays.
CancelRpc_LeavesOpen ==
    /\ mpc = "cancel"
    /\ allowed' = [allowed EXCEPT ![turn] = turn \notin contexts]
    /\ IF LastTurn THEN mpc' = "join" /\ turn' = 1 ELSE turn' = turn + 1 /\ UNCHANGED mpc
    /\ UNCHANGED <<limits, limiter, contexts, query, job, blocks, not_main>>

cancel_and_set_disallowed(w) ==
    /\ allowed' = [allowed EXCEPT ![w] = FALSE]
    /\ query' = [query EXCEPT ![w] = IF @ = "open" THEN "cancelled" ELSE @]

\* stop_rpcs, thread by thread.  A thread without a context is passed over.
CancelRpc ==
    /\ mpc = "cancel"
    /\ IF turn \in contexts THEN cancel_and_set_disallowed(turn) ELSE UNCHANGED <<allowed, query>>
    /\ IF LastTurn THEN mpc' = "join" /\ turn' = 1 ELSE turn' = turn + 1 /\ UNCHANGED mpc
    /\ UNCHANGED <<limits, limiter, contexts, job, blocks, not_main>>

\* Mutant of Join: the block is closed although its workers may still run.
Join_NoWait ==
    /\ mpc = "join"
    /\ job' = [job EXCEPT ![turn] = FALSE]
    /\ IF LastTurn THEN mpc' = "close" /\ UNCHANGED turn ELSE turn' = turn + 1 /\ UNCHANGED mpc
    /\ UNCHANGED <<limits, limiter, rpc, blocks, not_main>>

\* wait_for_async_task and clear_worker, worker by worker.
Join ==
    /\ mpc = "join"
    /\ ~job[turn]
    /\ IF LastTurn THEN mpc' = "close" /\ UNCHANGED turn ELSE turn' = turn + 1 /\ UNCHANGED mpc
    /\ UNCHANGED <<limits, limiter, rpc, job, blocks, not_main>>

\* The rest of propose_tx_block, in one thread: see Block and Databases.
Close ==
    /\ mpc = "close"
    /\ mpc' = "idle" /\ turn' = 1
    /\ blocks' = blocks + 1
    /\ committed' = {}
    /\ UNCHANGED <<limits, limiter, rpc, job, mempool, wpc, tx>>

-----------------------------------------------------------------------------
WorkerStep(w) ==
    \/ Begin(w) \/ FastPath(w) \/ SlowPath(w) \/ Fetch(w) \/ Move(w)
    \/ ReserveSlot(w) \/ ReturnSlot(w) \/ ReserveGas(w) \/ ReturnGas(w)
    \/ Execute(w) \/ SendQuery(w) \/ Receive(w) \/ Commit(w) \/ Undo(w) \/ Park(w)

Finish ==
    \/ StartWorker \/ WaitFor \/ StopThreads \/ ResetMaxActive \/ CancelRpc
    \/ Join \/ Close

Next ==
    \/ \E batch \in Batches : AddLoad(batch)
    \/ AddWrite \/ AddStore
    \/ StartThreads \/ Finish
    \/ \E w \in Workers : WorkerStep(w) \/ Answer(w)

Spec == Init /\ [][Next]_vars

\* The proposer and each worker thread keep running; nothing is assumed of the
\* other side of an external call.
FairSpec == Spec /\ WF_vars(Finish) /\ \A w \in Workers : WF_vars(WorkerStep(w))

-----------------------------------------------------------------------------
(* Properties                                                              *)

InPool ==
    {ring[i % MAX_MEMPOOL_SIZE] : i \in consumed .. filled - 1}

\* The mempool loses no transaction that it accepted and hands none out twice,
\* whatever the workers do with its indices, and though they run past the end
\* of an empty pool.
NoneLostOrTwice ==
    producer = Idle =>
        /\ \A t \in Txs : claimed[t] <= 1
        /\ InPool = {t \in accepted : claimed[t] = 0}

\* A block keeps to its limits: no more than max_txs transactions commit, and
\* all but one of them use less than the gas limit, however the reservations
\* and their returns interleave.
LimitsHold ==
    /\ Cardinality(committed) <= MaxTxs
    /\ committed # {} =>
         \E t \in committed :
           SumFunctionOnSet(GasOf, committed \ {t}) < GasLimit

\* The path that rate_limiter.cc aborts on is never taken, no slot is claimed
\* twice, and a worker works only for a block that is being assembled.
NoStrayWorker ==
    /\ \A w \in Workers : wpc[w] \notin {"aborted", "thrown"}
    /\ active = Cardinality({w \in Workers : has_slot[w]})
    /\ mpc \in {"idle", "close"} => /\ active = 0
                                    /\ \A w \in Workers : wpc[w] = "parked"

\* A call that stop_rpcs has passed over: the thread had no context yet.
Missed(w) == mpc = "join" /\ query[w] = "open" /\ allowed[w]

\* Assembling a block always ends, even if external calls are never answered,
\* unless a call breaks down, which ends the program, or a thread makes its
\* first call after stop_rpcs has passed it over: such a call is not
\* cancelled, and the join waits for it as long as it stays open.
AssemblyEnds ==
    \/ []<>(mpc = "idle")
    \/ <>(\E w \in Workers : wpc[w] = "unrecoverable")
    \/ <>[](\E w \in Workers : Missed(w))

\* add_txs: "consumed_idx only increases, so this only overestimates space"
\* (mempool.cc:68): what it takes for used covers what was not handed out.
SpaceOverestimated ==
    producer.pc = "write" =>
        UsedSpace(producer) >= Cardinality({t \in accepted : claimed[t] = 0})
=============================================================================
