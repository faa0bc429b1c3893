------------------------------- MODULE Block -------------------------------
(***************************************************************************)
(* A block from its transactions to the state it leaves: assembled by one  *)
(* machine (propose_tx_block and its AssemblyWorkers) and executed again   *)
(* by the others (try_exec_tx_block and ValidateReduce), each with several *)
(* threads over the shared objects of one state database.                  *)
(*                                                                         *)
(* ExecutionContext::execute is cut at every effect on shared state:       *)
(*                                                                         *)
(*    run -> push* -> add -> commit* -> log     (SUCCESS)                  *)
(*    run | push* -> undo*                      (FAILURE)                  *)
(*                                                                         *)
(* A call on an object is one step (see Outcomes).  The machines share     *)
(* nothing but the block, so that they take turns here.                    *)
(***************************************************************************)
EXTENDS Outcomes, Sequences

CONSTANTS Nodes,          \* the machines
          Threads,        \* the threads of a machine
          Keys,           \* the storage keys
          Txs,            \* the transactions, numbered in the order of their hashes
          Program,        \* what each does: the keys it reads, its operations on others
          Pools,          \* what a mempool may hold when a block is assembled
          ForeignBlocks,  \* the blocks that may arrive from elsewhere
          Sisyphus,       \* the machines with a UniqueTxSet and a SisyphusStateDB
          Genesis         \* the state each machine starts with

ASSUME BlockAssumption ==
    /\ Txs \subseteq Nat /\ IsFiniteSet(Txs) /\ IsFiniteSet(Keys)
    /\ Sisyphus \subseteq Nodes
    /\ DOMAIN Genesis = Nodes
    /\ MaxInt \in Nat
    /\ \A t \in Txs :
         LET writes == Program[t].writes
         IN  /\ writes \in Seq({writes[i] : i \in DOMAIN writes})
             /\ \A i \in DOMAIN writes :
                  /\ writes[i].key \in Keys
                  /\ writes[i].op = "add" => writes[i].d \in MinInt .. MaxInt
             /\ \A i, j \in DOMAIN writes : i # j => writes[i].key # writes[j].key
    /\ Pools \subseteq Seq(Txs)
    /\ ForeignBlocks \subseteq Seq([tx : Txs, n : Nat \ {0}, unused : BOOLEAN])

VARIABLES db,           \* the committed value of every key, on every machine
          objs,         \* the deltas on the objects: [held, done, used]
          stage,        \* "idle", "assembling" or "validating"
          at,           \* the machine that has the turn
          entries,      \* the transactions to execute: [tx, n, unused]
          next,         \* the first entry that no thread has taken
          th,           \* the threads
          txset,        \* tx_set: the executions that it lists
          logged,       \* modified_keys_list
          found_error,  \* of validate_tx_block
          offer         \* a block that was proposed: by whom, and what it did there

vars == <<db, objs, stage, at, entries, next, th, txset, logged, found_error, offer>>

NoOffer == [block |-> <<>>]
Resting == [pc |-> "idle", i |-> 0, j |-> 0, hi |-> 0, k |-> 0, err |-> FALSE]
Clean == [held |-> {}, done |-> {}, used |-> 0]

Init ==
    /\ db = Genesis
    /\ objs = [n \in Nodes |-> [key \in Keys |-> Clean]]
    /\ stage = "idle"
    /\ at \in Nodes
    /\ entries = <<>>
    /\ next = 1
    /\ th = [t \in Threads |-> Resting]
    /\ txset = {}
    /\ logged = {}
    /\ found_error = FALSE
    /\ offer = NoOffer

UniqueTxs == at \in Sisyphus

-----------------------------------------------------------------------------
(* StorageProxy: a transaction sees the committed values alone.            *)

\* The operations that ProxyApplicator refuses, with a HostError.
Refuses(object, op) ==
    LET typed(type) == object = NoObject \/ object.type = type
        int == IF object = NoObject THEN 0 ELSE object.value
    IN  CASE op.op = "add" -> ~typed("NONNEGATIVE_INT64") \/ (op.d < 0 /\ int + op.d < 0)
          [] op.op = "set_add" -> ~typed("NONNEGATIVE_INT64")
                                    \/ (op.d < 0 /\ op.set_value + op.d < 0)
          [] op.op = "write" -> ~typed("RAW_MEMORY")
          [] op.op = "insert" -> \/ ~typed("HASH_SET")
                                 \/ op.hash \in Hashes(object)
                                 \/ Cardinality(Hashes(object)) >= SizeLimit(object)
          [] op.op = "asset_add" -> ~typed("KNOWN_SUPPLY_ASSET")
                                      \/ Supply(object) + op.d \notin 0 .. MaxUint
          [] OTHER -> FALSE

\* get_deltas, for a key that one operation changed.
Delta(object, op) ==
    CASE op.op = "add" ->
           [type |-> "NONNEGATIVE_INT64_SET_ADD", delta |-> op.d,
            set_value |-> IF object = NoObject THEN 0 ELSE object.value]
      [] op.op = "set_add" ->
           [type |-> "NONNEGATIVE_INT64_SET_ADD", delta |-> op.d, set_value |-> op.set_value]
      [] op.op = "write" -> [type |-> "RAW_MEMORY_WRITE", data |-> op.data]
      [] op.op = "insert" -> [type |-> "HASH_SET_INSERT", hash |-> op.hash]
      [] op.op = "asset_add" -> [type |-> "ASSET_OBJECT_ADD", asset_delta |-> op.d]
      [] op.op = "delete" -> [type |-> "DELETE_LAST"]

Writes(tx) == Program[tx].writes
Written(tx) == {Writes(tx)[i].key : i \in DOMAIN Writes(tx)}
Touched(tx) == Program[tx].reads \cup Written(tx)

HostError(tx) ==
    \E i \in DOMAIN Writes(tx) : Refuses(db[at][Writes(tx)[i].key], Writes(tx)[i])

-----------------------------------------------------------------------------
(* Deltas are named <<entry, repetition, position>>.                       *)

DeltaOf(name) ==
    LET op == Writes(entries[name[1]].tx)[name[3]]
    IN  Delta(db[at][op.key], op)
KeyOf(name) == Writes(entries[name[1]].tx)[name[3]].key
AllDeltas(C) == [name \in C |-> DeltaOf(name)]

Tx(t) == entries[th[t].i].tx
Named(t) == <<th[t].i, th[t].j, th[t].k>>
Pushed(t) == {<<th[t].i, th[t].j, k>> : k \in 1 .. Len(Writes(Tx(t)))}
Object(t) == objs[at][KeyOf(Named(t))]

SetObject(key, object) == objs' = [objs EXCEPT ![at][key] = object]
Become(t, s) == th' = [th EXCEPT ![t] = s]
Goto(t, pc, k) == Become(t, [th[t] EXCEPT !.pc = pc, !.k = k])
block_context == <<txset, logged>>
machine == <<db, stage, at, entries, offer>>

\* What a thread does when execute returns: a worker asks for a transaction,
\* a validating task goes on, past the repetitions of one that failed.
Return(t, success) ==
    LET s == th[t]
        again == success /\ s.j < entries[s.i].n
    IN  Become(t,
          IF stage = "assembling" THEN Resting
          ELSE IF again THEN [s EXCEPT !.pc = "run", !.j = @ + 1, !.k = 0]
          ELSE [s EXCEPT !.pc = IF s.i < s.hi THEN "run" ELSE "read", !.i = @ + 1,
                         !.j = 1, !.k = 0, !.err = @ \/ ~success])

-----------------------------------------------------------------------------
(* ExecutionContext::execute                                               *)

Run(t) ==
    /\ th[t].pc = "run"
    /\ \/ HostError(Tx(t)) /\ Return(t, FALSE)
       \/ ~HostError(Tx(t)) /\ Goto(t, IF Writes(Tx(t)) = <<>> THEN "add" ELSE "push", 1)
    /\ UNCHANGED <<machine, objs, next, block_context, found_error>>

IsInsert(name) == DeltaOf(name).type = "HASH_SET_INSERT"

\* RevertableObject::try_add_delta as one step: an insertion needs a slot of
\* the element table as well, and keeps it when it is reverted.
Accepts(key, o, name) ==
    /\ Admits(db[at][key], AllDeltas(o.held \cup o.done \cup {name}), o.held, o.done, name)
    /\ IsInsert(name) => o.used < SlotsFor(db[at][key])

Reserved(o, name) ==
    [o EXCEPT !.held = @ \cup {name}, !.used = @ + (IF IsInsert(name) THEN 1 ELSE 0)]

\* push_deltas_to_statedb, one delta; the first refusal destroys the others.
Push(t) ==
    LET key == KeyOf(Named(t))
        last == th[t].k = Len(Writes(Tx(t)))
    IN  /\ th[t].pc = "push"
        /\ \/ /\ Accepts(key, Object(t), Named(t))
              /\ SetObject(key, Reserved(Object(t), Named(t)))
              /\ IF last THEN Goto(t, "add", 1) ELSE Goto(t, "push", th[t].k + 1)
           \/ /\ ~Accepts(key, Object(t), Named(t))
              /\ Goto(t, "undo", 1)
              /\ UNCHANGED objs
        /\ UNCHANGED <<machine, next, block_context, found_error>>

Listed(tx) == \E e \in txset : entries[e[1]].tx = tx

\* validating_check_all_rpc_results_used, then try_add_transaction: the
\* threshold, from which on the transaction will commit.
MayAdd(t) ==
    /\ ~(stage = "validating" /\ entries[th[t].i].unused)
    /\ ~(UniqueTxs /\ Listed(Tx(t)))

AddTx(t) ==
    /\ th[t].pc = "add"
    /\ \/ /\ MayAdd(t)
          /\ txset' = txset \cup {<<th[t].i, th[t].j>>}
          /\ Goto(t, "commit", 1)
       \/ /\ ~MayAdd(t)
          /\ Goto(t, "undo", 1)
          /\ UNCHANGED txset
    /\ UNCHANGED <<machine, objs, next, logged, found_error>>

\* TransactionRewind::commit, one delta.
CommitOne(t) ==
    LET o == Object(t)
    IN  /\ th[t].pc = "commit"
        /\ th[t].k <= Len(Writes(Tx(t)))
        /\ SetObject(KeyOf(Named(t)), [o EXCEPT !.held = @ \ {Named(t)},
                                                !.done = @ \cup {Named(t)}])
        /\ Goto(t, "commit", th[t].k + 1)
        /\ UNCHANGED <<machine, next, block_context, found_error>>

\* Mutant of LogKeys: the first key that is written is not logged.
LogKeys_SkipsFirst(t) ==
    /\ th[t].pc = "commit"
    /\ th[t].k > Len(Writes(Tx(t)))
    /\ logged' = logged \cup (Written(Tx(t)) \ {Writes(Tx(t))[1].key})
    /\ Return(t, TRUE)
    /\ UNCHANGED <<machine, objs, next, txset, found_error>>

\* log_modified_keys: a ModifiedKeysList gets every key that was looked at, a
\* TypedModificationIndex those with deltas.
LogKeys(t) ==
    /\ th[t].pc = "commit"
    /\ th[t].k > Len(Writes(Tx(t)))
    /\ logged' = logged \cup (IF UniqueTxs THEN Written(Tx(t)) ELSE Touched(Tx(t)))
    /\ Return(t, TRUE)
    /\ UNCHANGED <<machine, objs, next, txset, found_error>>

StillHeld(t) == {name \in Pushed(t) : name \in objs[at][KeyOf(name)].held}

\* The StorageCommitment is destroyed, and its DeltaRewinds in order.
UndoOne(t) ==
    /\ th[t].pc = "undo"
    /\ th[t].k <= Len(Writes(Tx(t)))
    /\ Named(t) \in StillHeld(t)
    /\ SetObject(KeyOf(Named(t)), [Object(t) EXCEPT !.held = @ \ {Named(t)}])
    /\ Goto(t, "undo", th[t].k + 1)
    /\ UNCHANGED <<machine, next, block_context, found_error>>

\* Mutant of Undone: execute returns with reservations that stand.
Undone_Early(t) ==
    /\ th[t].pc = "undo"
    /\ Return(t, FALSE)
    /\ UNCHANGED <<machine, objs, next, block_context, found_error>>

Undone(t) ==
    /\ th[t].pc = "undo"
    /\ th[t].k > Len(Writes(Tx(t))) \/ Named(t) \notin StillHeld(t)
    /\ Return(t, FALSE)
    /\ UNCHANGED <<machine, objs, next, block_context, found_error>>

-----------------------------------------------------------------------------
(* Assembling a block                                                      *)

Entry(tx, n) == [tx |-> tx, n |-> n, unused |-> FALSE]

StartBlock(n, s, list) ==
    /\ stage = "idle"
    /\ stage' = s
    /\ at' = n
    /\ entries' = list
    /\ next' = 1
    /\ UNCHANGED <<db, objs, th, block_context, found_error, offer>>

Propose(n, pool) ==
    /\ offer = NoOffer
    /\ StartBlock(n, "assembling", [i \in DOMAIN pool |-> Entry(pool[i], 1)])

\* AssemblyWorker::run: mempool and limits give it one more transaction.
Fetch(t) ==
    /\ stage = "assembling"
    /\ th[t].pc = "idle"
    /\ next <= Len(entries)
    /\ next' = next + 1
    /\ Become(t, [Resting EXCEPT !.pc = "run", !.i = next, !.j = 1, !.hi = next])
    /\ UNCHANGED <<machine, objs, block_context, found_error>>

AllIdle == \A t \in Threads : th[t].pc = "idle"

\* commit_modifications: commit_round for every key that was logged.
Committed(key) ==
    LET o == objs[at][key]
    IN  IF key \in logged
        THEN Outcome(db[at][key], AllDeltas(o.held \cup o.done), o.held \cup o.done)
        ELSE db[at][key]
AfterRound(key, gone) == IF key \in logged \cup gone THEN Clean ELSE objs[at][key]

\* The objects of keys that do not exist: NewKeyCache is emptied with the block,
\* a SisyphusStateDB has them in its trie, which may drop them.
Vanishing ==
    LET absent == {key \in Keys : db[at][key] = NoObject}
    IN  IF UniqueTxs THEN SUBSET absent ELSE {absent}

ResetContext ==
    /\ stage' = "idle"
    /\ \E gone \in Vanishing :
         objs' = [objs EXCEPT ![at] = [key \in Keys |-> AfterRound(key, gone)]]
    /\ entries' = <<>>
    /\ next' = 1
    /\ txset' = {}
    /\ logged' = {}
    /\ found_error' = FALSE
    /\ UNCHANGED <<th, at>>

CommitBlock == db' = [db EXCEPT ![at] = [key \in Keys |-> Committed(key)]]

Times(tx) == Cardinality({e \in txset : entries[e[1]].tx = tx})

\* The transactions of the block, in the order of their hashes.
InBlock == {tx \in Txs : Listed(tx)}
Nth(i) == CHOOSE tx \in InBlock : Cardinality({other \in InBlock : other < tx}) = i - 1

\* Mutant of SerializedBlock: each transaction is listed once.
SerializedBlock_Once == [i \in 1 .. Cardinality(InBlock) |-> Entry(Nth(i), 1)]

\* serialize_block: one entry for each hash, with all its executions.
SerializedBlock == [i \in 1 .. Cardinality(InBlock) |-> Entry(Nth(i), Times(Nth(i)))]

\* The workers have been stopped, after any number of transactions.
FinishProposal ==
    /\ stage = "assembling"
    /\ AllIdle
    /\ CommitBlock
    /\ ResetContext
    /\ offer' = [block |-> SerializedBlock, by |-> at, before |-> db[at], after |-> db'[at]]

-----------------------------------------------------------------------------
(* Validating a block: ValidateReduce, try_exec_tx_block                   *)

Validate(n) ==
    /\ offer # NoOffer
    /\ n # offer.by
    /\ StartBlock(n, "validating", offer.block)

ValidateForeign(n, block) ==
    /\ offer = NoOffer
    /\ StartBlock(n, "validating", block)

\* Mutant of TakeRange: a range that is skipped is left over.
TakeRange_LeavesRest(t) ==
    /\ stage = "validating"
    /\ th[t].pc = "idle"
    /\ ~found_error
    /\ \E hi \in next .. Len(entries) :
         /\ next' = hi + 1
         /\ Become(t, [Resting EXCEPT !.pc = "run", !.i = next, !.j = 1, !.hi = hi])
    /\ UNCHANGED <<machine, objs, block_context, found_error>>

\* operator() on a range of entries, which it skips if an error is known.
TakeRange(t) ==
    /\ stage = "validating"
    /\ th[t].pc = "idle"
    /\ \E hi \in next .. Len(entries) :
         /\ next' = hi + 1
         /\ IF found_error THEN UNCHANGED th
            ELSE Become(t, [Resting EXCEPT !.pc = "run", !.i = next, !.j = 1, !.hi = hi])
    /\ UNCHANGED <<machine, objs, block_context, found_error>>

\* found_error = found_error || local_found_error: a load and then a store.
ReadError(t) ==
    /\ th[t].pc = "read"
    /\ Become(t, [Resting EXCEPT !.pc = "store", !.err = found_error \/ th[t].err])
    /\ UNCHANGED <<machine, objs, next, block_context, found_error>>

StoreError(t) ==
    /\ th[t].pc = "store"
    /\ found_error' = th[t].err
    /\ Become(t, Resting)
    /\ UNCHANGED <<machine, objs, next, block_context>>

Joined == stage = "validating" /\ AllIdle /\ next > Len(entries)

\* phase_finish_block
Accept ==
    /\ Joined
    /\ ~found_error
    /\ CommitBlock
    /\ ResetContext
    /\ offer' = NoOffer

\* phase_undo_block: rewind_round for every key that was logged.
Reject ==
    /\ Joined
    /\ found_error
    /\ ResetContext
    /\ offer' = NoOffer
    /\ UNCHANGED db

-----------------------------------------------------------------------------
Execute(t) ==
    \/ Run(t) \/ Push(t) \/ AddTx(t) \/ CommitOne(t) \/ LogKeys(t)
    \/ UndoOne(t) \/ Undone(t)

Work(t) == Execute(t) \/ Fetch(t) \/ TakeRange(t) \/ ReadError(t) \/ StoreError(t)
Finish == FinishProposal \/ Accept \/ Reject

Next ==
    \/ \E n \in Nodes, pool \in Pools : Propose(n, pool)
    \/ \E n \in Nodes : Validate(n)
    \/ \E n \in Nodes, block \in ForeignBlocks : ValidateForeign(n, block)
    \/ \E t \in Threads : Work(t)
    \/ Finish

Spec == Init /\ [][Next]_vars

\* As long as a block has work some thread does some of it, and a block with no
\* work left ends.
Progress == Finish \/ \E t \in Threads : Work(t)
FairSpec == Spec /\ WF_vars(Progress)

-----------------------------------------------------------------------------
(* Properties                                                              *)

\* The deltas of the executions that tx_set lists.
Positions(e) == DOMAIN Writes(entries[e[1]].tx)
Names == UNION {{<<e[1], e[2], k>> : k \in Positions(e)} : e \in txset}

\* When all threads are at rest the deltas that will be merged are those of the
\* transactions that tx_set lists, all of them, and their keys are logged:
\* no transaction commits in part, and none that failed leaves anything.
AllOrNothing ==
    stage # "idle" /\ AllIdle =>
      \A key \in Keys :
        LET listed == {name \in Names : KeyOf(name) = key}
        IN  /\ objs[at][key].held = {}
            /\ objs[at][key].done = listed
            /\ listed # {} => key \in logged

\* Between blocks no object keeps a delta, whether the last block was accepted
\* or undone, also on the keys that nobody logged.
CleanBetweenBlocks ==
    stage = "idle" => \A n \in Nodes, key \in Keys :
                        objs[n][key].held = {} /\ objs[n][key].done = {}

Balance(object) == IF object.type = "NONNEGATIVE_INT64" THEN object.value ELSE 0
Money(state) == SumFunctionOnSet([key \in Keys |-> Balance(state[key])], Keys)

\* No account is in debt, and all of them together are below the cap of one.
Solvent(state) ==
    /\ \A key \in Keys : Balance(state[key]) \in 0 .. MaxInt - 1
    /\ Money(state) < MaxInt

\* "Money must be conserved" (notes/arch-proposal.md): a block in which every
\* transaction only moves amounts leaves their sum as it was, and no balance
\* is below zero or at the cap.
Moves(tx) ==
    /\ \A i \in DOMAIN Writes(tx) : Writes(tx)[i].op = "add"
    /\ SumFunctionOnSet([i \in DOMAIN Writes(tx) |-> Writes(tx)[i].d], DOMAIN Writes(tx)) = 0
MoneyConserved ==
    [][(\A e \in txset : Moves(entries[e[1]].tx)) /\ db' # db /\ Solvent(db[at])
         => Money(db'[at]) = Money(db[at]) /\ Solvent(db'[at])]_vars

\* A block that one machine proposed is accepted by another that is in the same
\* state, however its threads interleave, and leaves it in the same state.
ProposedIsValid ==
    [][stage = "validating" /\ stage' = "idle" /\ offer # NoOffer
         /\ db[at] = offer.before
         => ~found_error /\ db'[at] = offer.after]_vars

\* A block is accepted only if all its transactions executed: the reduction
\* loses no error (experiments/tests/test_payment_experiment.cc:80).
InvalidIsRejected ==
    Joined /\ ~found_error
      => \A i \in DOMAIN entries : \A j \in 1 .. entries[i].n : <<i, j>> \in txset

\* Every block that was begun ends.
BlockEnds == stage # "idle" ~> stage = "idle"
=============================================================================
