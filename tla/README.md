# TLA+ specifications of the scs block engine

`scs` ("smart contract scalability", the Groundhog and Sisyphus engines)
executes the transactions of a block in parallel.  Every transaction reads the
state that the *last* block left, and produces typed **deltas** (add to an
integer, insert into a hash set, write a byte string, ...) instead of writes.
Deltas are *reserved* concurrently on shared objects, then *committed* or
*reverted* with their transaction; at the end of the block the committed deltas
of each object are merged into its new value.  The claim of the design is that
the order of the transactions does not matter, and all of it rests on a few
lock-free structures.  These modules model them, what the machines build from them
(transactions, blocks, databases, block assembly), and the contracts that run on top.

Paths below are relative to `src/`.  `PROJECT.json` has, for every definition,
the lines of code it models.

## 1. Inventory

| component | state | operations | hard part | what makes it correct |
|---|---|---|---|---|
| `RevertableBaseObject` (`object/revertable_object.*`) | a 64-bit tag (uid, in-flight count, finalized bit), a pointer, the required type | `try_set`, `Rewind::commit`, `~Rewind` (revert), `commit_round_and_reset`, `rewind_round` | two words changed without a lock; ABA; an 8-bit count | reservations that stand agree on one value; a committed value survives; no trace of reverted ones; calls return |
| `RevertableObject` (same files) | counters per delta type, the element table, `committed_base` | `try_add_delta`, `DeltaRewind::commit` and its destructor, `commit_round`, `rewind_round` | every counter is a separate atomic; undoing half of a reservation | whatever subset commits, the value is legal; the merged value is that of the committed deltas in no order |
| `AtomicSet` (`hash_set/atomic_set.*`) | an array of slots, a fill count | `try_insert`, `erase`, `clear`, `resize`, `get_hashes` | open addressing with concurrent insertion and deletion | no element twice; `erase` finds what was inserted |
| hash set helpers (`hash_set/utils.h`) | a sorted list | `normalize_hashset`, `clear_hashset` | boundaries of a binary search | keeps exactly the elements above the threshold |
| `AtomicUint128` (`utils/atomic_uint128.h`) | two words | `add`, `sub`, `fetch_cap`, `clear` | carry and borrow are separate steps | a read at a barrier gives the capped sum |
| `ProxyApplicator`, `StorageProxy` (`storage_proxy/`) | one transaction's view of the keys it used | typed operations, `get_deltas`, `push_deltas_to_statedb`, `log_modified_keys` | a delta of several is refused | all deltas of a transaction are reserved, or none stays |
| `StateDB` with `NewKeyCache`; `StateDBv2`, `GroundhogPersistentStateDB`, `SisyphusStateDB` (`state_db/`) | a trie of objects, the objects of keys that do not exist yet | `get_committed_value`, `try_apply_delta`, `commit_modifications`, `rewind_modifications` | only *logged* keys are visited at the end of a block | nothing leaks into the next block |
| `ModifiedKeysList`, `TypedModificationIndex`, `modification_metadata.h` | the keys (or typed modifications) of a block | `log_key`, `log_modification`, `merge_logs` | thread-local logs that are merged | complete for the committed transactions |
| `AsyncKeysToDisk` | two buffers and a writer thread | `log_keys`, `run` | a second block before the first is on disk | every key is written once, under its block |
| `ContractDB`, `ContractDBProxy`, `UncommittedContracts` | contracts and the scripts a block adds | create, deploy, `commit`, `rewind` | two transactions create one contract | a deployment names an existing script |
| `AsyncPersistContracts` | a buffer and a writer thread | `write`, `nowrite`, `run` | swap against save | a block's scripts are on disk under its timestamp |
| `Mempool` | a ring buffer with two packed 32-bit indices | `get_new_tx`, `add_txs`, `available_size` | producer against consumers, wrap | each transaction is handed out at most once |
| `AssemblyLimits`, `AssemblyWorker` (`block_assembly/`) | remaining gas and transactions, a done flag, worker threads | `reserve_tx`, `Reservation`, `wait_for`, `run` | undo of part of a reservation | limits hold; an assembly ends |
| `RateLimiter`, `CancellableRPC` (`threadlocal/`) | slots, shutdown flags | wait, claim, free, cancel | a signal before the wait | nobody waits forever |
| `ExecutionContext`, `TransactionContext`, `TransactionResultsFrame` | one transaction | `execute`, about fifty syscalls | order of reserve, threshold, commit | all or nothing |
| `TxSet`, `UniqueTxSet` (`tx_block/`) | the executions of a block | `try_add_transaction`, `finalize`, `serialize_block` | one hash from several threads | the block lists what was executed, as often as it was |
| `BaseVirtualMachine` and the three machines, `ValidateReduce`, `phase/` | block number, previous hash, the contexts | `propose_tx_block`, `try_exec_tx_block`, finish and undo | validation is a parallel reduction | a proposed block is valid elsewhere and leads to the same state; an invalid one is refused |
| arenas, ids, GC (`threadlocal/`, `utils/recycling_allocator.h`) | memory | allocate, clear after a block | ids that are used again | an id is in no word that is still compared |
| contract SDK (`cpp_contracts/sdk/`) | storage keys of a contract | storage calls, `Semaphore`, `UniqueFlag`, `record_self_replay`, signature checks | calls of a block run on one snapshot | a semaphore admits one call per block; no signed payment twice |
| contracts (`cpp_contracts/*.cc`) | balances, allowances, offers, bids, events | the exported methods | two calls that each are right and together are not | tokens are conserved; a contract holds what it owes |
| metering and commitments (Rust), RPC servers, persistence back ends, experiments, main programs, crypto, debug | | | no shared protocol state | |

How they interact: a worker (`AssemblyWorker`, or a TBB task of
`ValidateReduce`) calls `ExecutionContext::execute`, which runs the contract on a
`StorageProxy`; the proxy reserves its deltas through the state database on the
`RevertableObject`s, each of which uses a `RevertableBaseObject` and perhaps an
`AtomicSet`.  `tx_set.try_add_transaction` is the threshold: before it everything
is undone by destructors, after it everything is committed and the keys are
logged.  The end of the block visits the logged keys, once all threads have been
joined.

## 2. The modules

| module | models | style |
|---|---|---|
| `AgreedBase` | what a base object promises | abstract specification |
| `RevertableBase` | `RevertableBaseObject`, every load, compare-exchange and store | implements `AgreedBase` |
| `Outcomes` | which deltas may commit together, and what the object becomes | operators only |
| `RevertableObject` | `RevertableObject`, every access to a counter | checked against `Outcomes` |
| `SlotSet` | a set with a number of slots that is used up | abstract specification |
| `AtomicSet` | the hash table, slot by slot | implements `SlotSet` |
| `HashSetUtils` | `normalize_hashset`, the binary search of `clear_hashset` | algorithm, step by step |
| `AtomicUint128` | the two-word counter | |
| `StorageView` | `ProxyApplicator`: one transaction's view of one key | operators only |
| `Execution` | `ExecutionContext`, `TransactionContext`, `StorageProxy`: one transaction, system call by system call | extends `StorageView`, checked against `Outcomes` |
| `Block` | pushing deltas, state database, transaction set, assembly and validation | composes the objects through `Outcomes` |
| `Databases` | the four state databases, the contract database, both writer threads, over a chain of blocks | composes the objects through `Outcomes` |
| `Assembly` | `Mempool`, `AssemblyLimits`, `RateLimiter`, `CancellableRPC`, `AssemblyWorker`, the proposer | |
| `Sdk`, `Cfmm`, `Contracts` | `cpp_contracts/` | extend `StorageView`; blocks through `Outcomes` |
| `SumTheorems` | lemmas about `SumFunctionOnSet`, `Min` and finite sets | TLAPS |
| `RevertableBaseProofs`, `RevertableObjectProofs`, `BlockProofs`, `DatabasesProofs`, `AssemblyProofs` | theorems about the module of that name | TLAPS |
| `PartsProofs` | theorems about `AtomicSet`, `HashSetUtils` and `AtomicUint128` | TLAPS |
| `TransactionProofs` | theorems about `Execution` and `Contracts`, with what they share of `StorageView` | TLAPS |
| `MC*` | instances for TLC; `MCParts` runs the three parts of an object, each on its own | |

A module that uses a lower one uses what that one is shown to promise:

    RevertableBase => AgreedBase --\
    AtomicSet      => SlotSet    ----> RevertableObject ~ Outcomes --> Block, Databases, Contracts
    HashSetUtils, AtomicUint128  --/   StorageView, Execution ~ Outcomes --/

### RevertableBase

`tag` is the record `[id, count, fin]` that the code packs into a word, `obj` what
the pointer refers to.  `pc[o]` says where reservation `o` is in `try_set` or
`revert`; `t[o]` and `current[o]` are the local copies of the two words.  `LoadTag`,
`LoadObj`, `CasSucceeds`, `CasFails`, `StoreObj` are `try_set` (140-200);
`RevertLoadTag` ... `ClearObj` are `revert` (208-242).  `seen` is a history variable
for the refinement: the values that were agreed on while a call was in progress.

- *Interleaving is sequentially consistent.*  All accesses that decide anything
  are a compare-exchange on the tag, or a load of the pointer after a load of the
  tag; the tag is changed with release and the pointer read with acquire
  semantics, and the pointer is only stored by the one thread that won the
  exchange.  `compare_exchange_weak` may fail for no reason: that is one more turn
  of the loop, which `CasFails` and a tag that changed also give.
- *Unique ids.*  `get_uid` chooses an id that is in no tag and in no local copy.
  The code's ids are a per-thread counter that is never in two words at a time, and
  a word can only be compared with what is in a word.  The configurations have as
  many ids as can be in use plus one.
- *The count* wraps modulo `CountMod` (256 in the code).  The carry into the uid
  field, which the code's addition has, is left out: the state is broken before
  it matters.  `MCRevertableBaseOverflow` uses the real width.
- The arena that holds the values is not modelled; it is emptied when no thread
  runs.

### Outcomes and RevertableObject

`Outcomes` says without counters what `RevertableObject` is for.  `Legal(object,
D, C)`: the deltas `C` may commit together.  `Outcome(object, D, C)`: the value they
give, in no order.  `Admits`: when one more delta is accepted beside those held and
those committed.  The one asymmetry is the code's: an integer may be reduced only
as far as the block's *base* value goes, additions never count, even committed
ones; a negative base may be set (`object/tests/test_revertable_object.cc:303`) but
not reduced.

`RevertableObject` has the counters (`mods`) and one step per access to them.  A
call of `base_obj` is one step, which is what the refinement of `AgreedBase`
justifies; a call of `new_hashes` is one step, by the refinement of `SlotSet`;
`total_added` is a natural number, with `AtomicUint128` a module of its own; the
sorted list of a hash set is a set, which `NoDuplicates` and `HashSetUtils` justify.
An object without a value after `commit_round` is destroyed, as the state
databases do (`state_db/state_db.cc:128-130`).  `UnloggedRound` is the end of a
block in which no committed transaction used the object: the table keeps its
tombstones.

### AtomicSet

`array` and `num_filled_slots` as in the code, `idx[o]` the slot a call looks at.
A slot contains the element itself; the code has an index into an arena, whose
entry never changes.  `shorthash` is a parameter.  A table of capacity 0 (an object
that is no hash set) is never used.

### StorageView and Execution

A view is the record of the fields of a `ProxyApplicator`; an optional field is a set
with at most one element.  `TryApply` gives the set of views after a delta: it is empty
if the delta is refused.  `GetDeltas` is what a transaction pushes in the end.

`Execution` runs one transaction.  What a contract does is not fixed: the frame on top of
the `invocation_stack` makes any system call, or returns.  The arguments are taken from the
constants `Memories`, `SetAdds`, `Adds`, `Elements`, `Increases`, `Thresholds` and `Indices`,
which are small in the run and any sets (of the code's types) in the proofs.
`return_buf` is one buffer for all frames, as in the code.  A call that exceeds the
gas limit ends the transaction, and a `HostError` at any depth does.
`Push` is where the transaction's deltas go to the database; here the transaction is
alone, and `Block` has the others.  Byte strings, offsets and lengths are left out, but
for reads beyond the end of a buffer.  The system calls for hashes and signatures
return some value.

### Block

One machine has the turn (`at`); its threads interleave at every effect on shared
state.  An execution is named by its entry in the block and its repetition, a
delta by that and its position.  `objs[n][key]` has the deltas that are *held* and
*done* and the slots *used* of the element table.

- A call on an object is one step, and its answer is `Admits` of `Outcomes` plus the
  free slot.  The theorems of `RevertableObjectProofs` show that the object's answers,
  value and merging are those (`AdmissionIsExact`, `AnyOutcomeLegal`, `MergeIsOutcome`).
- A transaction (`Program`) is a set of keys that it reads and a sequence of operations
  (`writes`) on different keys, in the order of the keys (the proxy's cache is an ordered map).  Reads see the committed value.  Several
  operations on one key are in `Execution`.
- Assembly may stop after any number of transactions, which covers the mempool
  being empty, the limits, the time-out and the shutdown signal, which are in `Assembly`.
- RPC results left over at the end of a validating execution are the flag `unused`
  of an entry.
- `Sisyphus` is the set of machines that are a `SisyphusVirtualMachine` (`UniqueTxSet`,
  `TypedModificationIndex`, `SisyphusStateDB`); the others are a `VirtualMachine` (`TxSet`,
  `ModifiedKeysList`, `StateDB` with `NewKeyCache`).  Whether the trie of the former drops
  an object without a value when it normalises is up to the library (`mtt`, external):
  both happen.
- The machines take turns, since they share nothing but the block.

### Databases

One machine and a chain of blocks.  `kind` is the state database that the behaviour is
about; the four differ in where objects of absent keys live, in what the update and
rewind functions do with a logged key, and in when they throw.  `trie` and
`new_key_cache` are the keys that have an object, `mods` the deltas of committed
transactions that stand on objects, `logged` the key log.  An execution is one step
(`Block` has its interleavings), and so is each call that ends a block:
`CommitContracts`, `WriteContracts`, `CommitState`, `Advance`, `LogKeys` for a block that
is accepted, `RewindContracts`, `RewindState` for one that is not.  An exception ends
the behaviour (stage `threw`, or `terminated` when it leaves a destructor).  `ContractWriter` and `KeyWriter` are
the two background threads: they run between any two steps, or not at all.

### Assembly

The mempool's two indices are packed in one word; `add_txs` is cut into its load, its
copies and its store, `get_new_tx` into its `fetch_add` and its move.  `reserve_tx` is cut
between the transaction count and the gas, and so is what it undoes.  A worker waits for
a slot of the `RateLimiter`, takes a transaction, reserves, executes (which succeeds or
fails, for some transactions after an external call) and commits or undoes.  The
proposer starts the workers, waits, stops them, cancels their calls thread by thread
and joins them, block after block.  A wait on a condition variable is a guard.
A thread gets its context when it first needs one (`contexts`), with calls allowed, and
`stop_rpcs` passes over threads that have none.  A call is answered, cancelled or breaks
down (`Answer`): a status that is neither OK nor CANCELLED throws
(`threadlocal/cancellable_rpc.cc:117`) into a `catch` that aborts the program
(`transaction_context/execution_context.cc:165`), the label `unrecoverable`.
`Overlap` says if `add_txs` may run while a block is assembled.

### Sdk, Cfmm and Contracts

A method is an operator from the *contexts* (the views of the keys that a call looked
at) to contexts, the empty set being an abort.  Its storage calls are those of
`StorageView`, so a call sees its own changes and nobody else's.  A step of `BlocksNext` is a
block: up to two calls of a scene, in either order, run on the state that the last block
left, and the deltas of both must be admitted (`AdmitsAll`, from `Outcomes`).  A hash
is what it is the hash of; the order of hashes is a parameter (`HashRank`).  `committed` is
the state between blocks, `height` the number of the block, and `Guarded` says what the
semaphore or the flag that a call takes is for.  The loops of `cfmm.cc` over the events of
a round and over rounds (`exec_events`, `exec_rounds`) are folds.
A scene has the accounts and the calls of one contract: `token` (erc20), `nft`
(erc721), `wallet` (payment with the replay cache), `zerox`, `auction`, `channel`, `swap`
and `cfmm`.  `needs_allowance` tells `erc20.cc`, where the owner of tokens needs an
allowance too, from the token of `payment.cc`, which gives itself one.

## 3. Runs

| run | instance | states | what it shows |
|---|---|---|---|
| `base` | 3 reservations, 2 values of different types, count of 4, any number of rounds, fair | 449,072 | `ShornOnlyWhileWriting`: the two words disagree only while a thread is between its exchange and its store; `Agreement`; `OnlyCommittedSurvives`; `PointerStable`; `ImplementsAgreedBase`; `CallsReturn`; `TypeOK` |
| `base_overflow` | 256 reservations of one transaction, real width of the count | | **violation** of `ShornOnlyWhileWriting` |
| `object` | 3 deltas at a time out of 20, of all types, any number of blocks, `INT64_MAX` scaled to 3 | 3.3 million | `AnyOutcomeLegal`: whichever subset of the open deltas commits, the value is legal; `MergeIsOutcome`; `AdmissionIsExact`: a delta is accepted exactly when it should be; `LeavesNoTrace`: counters are back when nothing is open or committed; `EraseFindsElement`; `TypeOK` |
| `parts` | 3 threads and 3 elements that collide, in tables of 2 and 3 slots that are resized between rounds; all sorted lists of up to 5 elements over 3 indices, all thresholds; 4 additions and their reverts, words of 2 bits; fair | 289,086 | `NoDuplicates`, `EraseFinds`, `ImplementsSlotSet`, `CallsReturn`, full tables included; `ClearsExactly`, `SearchEnds`, `SearchTypeOK`: reads in bounds; `BarrierReadsSum` |
| `block` | two `VirtualMachine`s, one proposing with 3 threads and 9 programs on 3 keys, and a Sisyphus machine that executes 5 foreign blocks, valid and invalid, over a replay cache of size 2; fair | 129,207 | `AllOrNothing`; `CleanBetweenBlocks`; `MoneyConserved`: a block of payments leaves as much money as there was, when no balance is negative and all of them together are below `INT64_MAX` (`Solvent`; above it, balances are capped and money is lost, as the code means it); `ProposedIsValid`: a proposed block is accepted by the other machine and leads to the same state; `BlockEnds` |
| `block_lost_error` | the foreign blocks with 2 threads | | **violation** of `InvalidIsRejected` |
| `assembly` | 2 workers, 5 transactions (one with gas 0, one above the limit per transaction, one with an external call), 2 blocks, a mempool refilled in between, contexts made at any time, fair | 481,783 | `NoneLostOrTwice`, `LimitsHold`, `NoStrayWorker`; `AssemblyEnds`: an assembly ends, unless a call breaks down or a thread makes its first call after `stop_rpcs` has passed it over, and that call stays open |
| `mempool_space` | a ring of 2 | | **violation** of `SpaceOverestimated` |
| `databases` | 4 kinds, 3 blocks of up to 2 executions out of 5 transactions | 2,425,435 | `ThrowsExplained`: a machine throws only in the listed cases; `BlockLeavesExactly`: state and contracts after a block are those of its transactions; `NoKeyRecordLost`; `ContractRecordKept` |
| `databases_reads` | Groundhog, one block | | **violation** of `LoggedKeysExist` |
| `execution` | 3 contracts, one not deployed yet, gas for 6 calls, 5 objects, 2 arguments of each kind | 1,528,072 | `ViewIsOutcome`: what a transaction reads is the outcome of its own deltas; `AloneIsAdmitted`: what it pushes is accepted when nobody else is there; `InvokeReturns` |
| `contracts` | 8 scenes, blocks of up to 2 calls, chains of 5 (`cfmm`) or 7 blocks, `INT64_MAX` scaled to 10 | 22,517 | `NoReplay`; `EscrowBacked`: tokens are conserved (`SupplyConserved`), `0x` holds its offers (`OffersBacked`), the auction and the market maker hold what they owe, token by token and with exactly the exceptions of section 5 (`AuctionBacked`, `MarketBacked`); `OncePerBlock` |

*Why the bounds are enough.*  On the base object three calls are the worst case of
the protocol's argument: one that is between exchange and store, one that holds a
stale copy, and one that made it stale.  Three deltas let two race for room while
a third is committed or undone.  `MaxInt = 3` puts zero, the cap and the sum of two
amounts within reach of three deltas.  In tables of two and three slots the three
elements share probe chains that wrap around, and the table fills.  Three
transactions fill a block in which one commits, one waits and one is refused.  Two
workers are enough for one to be stopped in every state while the other finishes the
block, and the second block meets what the first left.  The ring of `assembly` has one
place more than all transactions: what happens when it wraps is `mempool_space`.
Three blocks are what it takes for a log to be filled, handed over and written while
the next is filled; two executions of a block conflict, or one is there twice.  Gas
for six calls lets a contract call another between its own writes.  Seven blocks let a
payment expire and be cleared from the cache, an auction be bid on, closed and
refunded, and a channel be closed and challenged.  For TLC, `MaxBlocks`, `MaxTxs`,
`MaxHeight` and `GasLimit` bound behaviours; `PriceUnit` and `ChallengeTime` are
constants of the contracts, scaled down.

*Symmetry* is over the deltas of `object`, which nothing tells apart; the run checks no
liveness.  In `base`, `parts` and `block`, which do, calls or threads that differ only in
name are taken in the order of their names (`InOrder`).

*Deadlock* is checked wherever the system can go on: in `base`, `object`, `parts` and `block`
it can always begin another block, and in `databases` a chain that is over or has thrown
stays so by an action (`Over`).  `assembly`, `mempool_space`, `execution` and `contracts`
end at a bound, and do not check it; when an assembly can get stuck is what
`AssemblyEnds` says.

*Fairness.*  `CallsReturn` assumes weak fairness of the steps inside a call: the code
runs on preemptively scheduled threads, and a thread inside `try_set` or `erase`
never blocks.  No fairness is assumed of commit or revert, or of the next
transaction.  `SearchEnds` assumes it of the one thread that searches.  `BlockEnds`
assumes only that some thread goes on as long as there is work, and that a block without
work is ended: TBB runs what it has taken, and the machine joins it.  In `Block` a
call on an object is one step, which relies on `CallsReturn`.  `AssemblyEnds` assumes weak
fairness of the proposer's thread and of each worker's, and nothing of the other
side of an external call: it may never answer.  So the property has to except a call that
nobody cancels.

Every property has a mutant in `PROJECT.json`: a definition of the model changed as
a plausible bug would change the code, under which TLC finds the property violated.

## 4. Proofs

TLC checks instances; what follows is proved for *every* value of the constants: any
number of reservations, threads, workers, machines, keys, transactions and deltas, any
table size, any width of integers and words, any programs (of the operations that a
module has, with arguments that its assumption allows), pools and blocks.

- `RevertableBaseProofs`
  - `TypeCorrect`.
  - Under `NoOverflow` (fewer reservations than `CountMod`; without it they are
    false, see `base_overflow`): `ShornReads`, `ReservationsAgree`,
    `CommittedSurvives`, `PointerIsStable`, and `Refinement`, the safety part of
    `AgreedBase`.
  - The inductive invariant `IInv` has these parts.  `CountInv`: the count is the
    number of reservations that hold or are about to store or to give back;
    `FinInv`, `QuietInv`: what the pointer is when the flag is set and when nobody
    writes; `StoringInv`, `ClearingInv`: at most one thread writes the pointer, and
    from which state; `HeldInv`: who holds asked for the value that is there;
    `ReadInv`: a copy of the tag that is still *equal* to the tag was read with a
    pointer that is still the pointer; `UidInv`: which ids may be in which words.
    `ReadInv` is what the uid is for: without it an exchange could succeed on a pointer
    from an earlier modification, and none of the properties is inductive.  The
    refinement adds `ValueInv`, the agreed value in terms of the two words, and
    `SeenInv`, that a value which made a call give up was agreed on during the call.
- `PartsProofs`, on `AtomicSet`: `ElementsAreUnique`, `EraseAlwaysFinds`, `SetTypeCorrect`,
  `TableImplementsSlotSet`.  `IInv`: between the start
  of an element's probe chain and its slot no slot is empty (`ChainInv`); a call
  that inserts has passed no slot with its element (`ProbeInv`); a call that erases
  has not passed its slot (`EraseInv`); an element in the table has exactly one
  reservation that owns it (`OwnerInv`).  Tombstones are what keeps `ChainInv`.
  The refinement needs the count as well (`FillInv`): it is the number of reservations that
  have been added to it and not yet taken out (`CountInv`), and an erasure that is still
  counted has a tombstone of its own (`TombInv`).  So counted reservations have different
  slots, and the early return of `try_insert` on a full count is taken only when no slot is
  empty: the count may lag behind the table and never runs ahead of it.
- `PartsProofs`, on `HashSetUtils`: `ReadsInBounds`, `ClearIsExact`, from the invariant that all
  elements before the lower end of the range are above the threshold and all from
  the upper end on are not.
- `PartsProofs`, on `AtomicUint128`: `BarrierReadsTheSum`.  The two words are off by the carries and
  borrows that are under way, so their value is no function of the additions alone.
  The invariant gives every addition a weight that makes up for what it still has to
  do; the words are the sum of the weights at every step, modulo the square of the word:
  a borrow that overtakes the carry it undoes wraps the high word, and the carry wraps it
  back.
- `RevertableObjectProofs`: `ObjectTypeCorrect`, `EveryOutcomeIsLegal`,
  `MergeComputesTheOutcome`, `FailedDeltasLeaveNoTrace`, `EraseAlwaysFinds`,
  `AdmissionExact`.  None of the properties is inductive, because a reservation is legal
  on account of what all the others have put into the counters.  `Inv` gives every
  counter as a sum, over all deltas, of what each contributes by its type and by how
  far it has come (`CountersInv`); that the deltas agree on a base (`BaseInv`), which
  covers what is subtracted (`CoverInv`); that their elements are distinct, are the ones
  of the table and have room (`HashInv`, `RoomInv`); and which flags are up (`ClearInv`,
  `DeleteInv`).  A step moves one delta, so that every sum changes by one term.  What
  the counters admit and `commit_round` computes is then compared with `Outcomes`, which
  has no counters.
- `BlockProofs`: `NoTransactionInPart`, `NothingBetweenBlocks`,
  `AnyOutcomeOfABlockIsLegal`, `PaymentsConserveMoney`, `ProposalsAreValid`.  `BlockInv` follows each delta from
  the push that reserves it to its commit or its destruction.  It needs two facts that
  the code relies on and does not state: no two threads have the same entry of a block
  (`Apart`), and the deltas that a transaction has reserved are a prefix of those it has
  to reserve (`NoGap`), so that undoing them in order up to the first that was refused
  undoes all.  `DoneIsListed` and `KeysLogged` say what is committed in terms of the
  transaction set.  `LegalInv` is independent of it: whichever of the reserved deltas
  commit, every object gets a legal value, which holds because `Admits` looked at every
  subset of what was reserved when it admitted the last one.  From both, a block of
  payments: its deltas on each balance are exactly those of the listed transactions, the
  committed value is their sum, not below zero by `LegalInv`, and the sums of the balances
  add up to the sums of the transactions, which are zero.  `Solvent` bounds every new
  balance by the money there is, so that no balance meets the cap.
  `ProposalsAreValid` compares the two runs of a block: the proposer's, with its threads,
  failures and rewinds, and the validator's, with other threads in another order.  It states
  `ProposedIsValid` under `Agreeable`, each part of which excludes a way in which machines do
  differ: programs add to integers, set them, write memory and delete (`SimplePrograms`; an asset's
  withdrawals rest on what has committed, and an insertion can meet a table that is full of what reverted insertions of
  that machine left); objects start as integers and non-negative supplies (`WholeGenesis`);
  and all machines have the same kind of transaction set (`OneKind`: a `TxSet` lists
  repetitions that the `UniqueTxSet` of a Sisyphus machine refuses).  The two machines of the
  run `block` that propose and validate are an instance.  `AgreeInv` is the invariant.  The
  deltas on an object are `Firm`: they agree on its type and base, and the base covers *all*
  reductions together, so each is admitted beside any of the others.  This is
  what makes the order irrelevant; it does not hold of assets, to which no system call
  leads (section 5, *Object layer*).  A proposed block keeps this (`GoodBlock`: the serialized block has one entry
  for each listed transaction, with its number of executions, and a bijection takes its deltas to
  those that the proposer committed), and while a machine in the same state validates
  it nothing is refused and every execution is listed or still before a thread (`Smooth`).
- `DatabasesProofs`: `ThrowsAreExplained`, `BlockIsExact`, `KeyRecordsSurvive`,
  `ContractRecordsKept`, for all four state databases.  The exceptions at the end of a block
  depend on what the databases have accumulated during it, so the invariant ties every
  accumulator to the transaction set: the deltas that stand on objects are exactly those
  of the listed transactions, and all of them are logged (`ModsInv`); a key that has a
  value or was written has an object where the update function will look for it (`TrieInv`);
  `UncommittedContracts` has exactly what the listed transactions created, and one deployment for
  each address that they deployed to (`ContractInv`).  `KeyInv` is what keeps the slow
  writer from losing records: the timestamps of files, of what the writer was given
  and of what is in the buffers are all below that of the next block, and a record is in one
  of the three places only, also when a second `log_keys` swaps unwritten records back.
- `TransactionProofs`, on `Execution`: `ReadsOwnWrites`, `AloneCommits`, `CalleeAnswers`, for any
  contracts, arguments of system calls and depth of calls.  `StackInv` says when the one return buffer is empty and
  whose data it has otherwise: `CalleeAnswers` depends on *all* frames below the callee, not
  on the callee alone.  `ViewInv` sorts the views of a transaction by what was done to the key:
  nothing, a write, additions, or changes of a hash set (`Untouched`, `Written`, `Added`,
  `Hashed`), each with the relation between the merged deltas, the object that the contract
  sees and the committed object.  For integers it has the asymmetry of `make_nnint64_delta`
  (a sum of deltas below zero is covered by the base; a positive one saturates), for hash
  sets that the new elements are distinct, absent from the set and within its limit until
  there is a clear.  What `get_deltas` makes of such a view is then compared with `Outcome` and
  `Admits`, kind by kind.
- `TransactionProofs`, on `Contracts`: `NoPaymentTwice` and `GuardsExclude`, for any calls (of
  the methods of all eight contracts, with any arguments), any storage to start with, any
  width of integers and any number of blocks, of up to two calls each as in `BlocksNext`: both
  properties are about a pair of calls.  One lemma per method says that it changes the view of no
  semaphore, flag or replay cache but its own (`Same`), and that a call which goes
  through has taken its own (`Takes`): the view of a taken key has the delta that sets 1
  and subtracts 1, whatever the call does afterwards.  The loops of the market maker need an
  induction over the events of a round and over rounds, which is done on sets of positions
  (`DownInduction`, `FoldAgree`).  `GuardsExclude` follows: two such deltas on one key take 2
  from a base of 1, and `Admits` refuses the second.  `BlocksInv` adds for `NoPaymentTwice` that
  an executed payment is in the replay cache or has expired (`PaidOnce`).  The block that
  executes a payment clears the cache of what expires with that block, which is just
  when the payment would be refused for its time from the next block on.
- `AssemblyProofs`: `WorkersNeverStray`; `PoolLosesNothing` and `BlockKeepsToItsLimits` under
  `RoomyRing`: `add_txs` is not called while a block is assembled, and the
  transactions fit into the ring.  Without the first `NoneLostOrTwice` fails (section
  5, *Mempool*), without the second there is finding 4; the drivers in the repository
  keep to both.  `StrayInv` has, by the place the proposer is at, which worker has a job and a
  slot; `PoolInv` what each place of the ring holds; `LimitInv` that the transactions and
  the gas that are left are the limits less what is committed and what each worker
  has in hand, where a reservation that is being returned counts in part.
- `SumTheorems`: sums of integers over a finite set (split, pointwise sum and
  comparison, one term changed, sums of classes).  The prover cannot use the library's induction
  over finite sets, which takes an operator; `FiniteInduction` states it with a
  *set* of good subsets, and is proved from the least cardinality of a subset
  that is not good.

The assumptions on constants, which TLC evaluates in the runs: `BaseAssumption`,
`SetAssumption`, `IndicesAssumption`; `WordAssumption` (no more additions than a word can
count, amounts that fit into one); `ObjectAssumption` (deltas and objects of the
code's types, amounts in the range of an `int64_t`); `BlockAssumption` (finitely many keys
and transactions; a program has one operation for each key; amounts in the range of an
`int64_t`); `AssemblyAssumption` (finitely many workers and transactions, a batch has no
transaction twice); `DatabasesAssumption` (the state database is one of the four, a
transaction has its keys among `Keys`); `ExecutionAssumption` (objects of the code's types,
values and deltas in the range of an `int64_t`, increases, thresholds and indices natural
numbers);
`ContractsAssumption` (a scene starts with objects of the code's types; expiration times and
rounds, of type `uint64_t`, are natural numbers).

Only model-checked:

- all liveness (`CallsReturn`, `SearchEnds`, `BlockEnds`, `AssemblyEnds`) and whatever needs
  ENABLED, which are out of the reach of this prover, as is induction over data;
- `EscrowBacked`.  Its inductive form relates sums over all accounts, offers, bids and events,
  and every method of every contract moves several of their terms.  The lemmas of
  `TransactionProofs` say which views a method leaves alone; this one needs what each
  method does to all the others, saturation and refused allowances included.

`ProposedIsValid` is neither proved nor checked for proposed blocks with insertions into hash
sets: in the run `block` insertions are in blocks from elsewhere.

## 5. Findings

1. **The in-flight count wraps** (`object/revertable_object.cc:90`, run
   `base_overflow`).  256 open reservations on one object, which one transaction that
   inserts 256 elements into a hash set makes, bring the 8-bit count to 0 while the
   pointer is set.  The comment at 44-46 calls this state a shorn read that passes;
   here it does not, and callers spin.
2. **A read of an absent key breaks the end of the block**
   (`state_db/groundhog_persistent_state_db.cc:111`, `state_db/state_db_v2.cc:107`, run
   `databases_reads`).  `log_modified_keys` logs all keys of a transaction's cache, the ones
   it has only read too, and a read makes no object.  If nobody writes the key, the update
   function finds nothing under it and throws "should never happen"; so does the rewind
   function when the block is rejected.
3. **A validation error can be lost** (`vm/validate_reduce.h:62`, run
   `block_lost_error`): load and store of the shared flag are not one step.
4. **A full mempool looks empty** (`mempool/mempool.cc:79`, run `mempool_space`).
   `filled_idx` is reduced modulo the size of the buffer, and `consumed_idx` is compared
   with it: in a ring that is exactly full, or has wrapped, `add_txs` sees no transaction
   and writes over those that were accepted.  The comment at line 68 says that the space in
   use is only overestimated.

Other observations.  Some are of code that no machine reaches, and some are cases that the
properties name as exceptions:

- *Object layer.*  The comment at `hash_set/atomic_set.cc:80` says that an insertion could
  be allowed to overwrite tombstones.  The code does not, so reverted insertions use up a
  table for the rest of the block, and for good if no committed transaction logs the
  key (`block` reaches a table without a free slot and without an element).
  Overwriting the first tombstone would be wrong: an element could get two slots (the
  mutant `InsertProbe_Overwrites`).  Which withdrawals of an asset are admitted depends on
  the deposits that have committed already (500), as
  `object/tests/test_revertable_object.cc:653-661` expects: machines that run a block in different
  orders could differ.  No system call leads to `asset_add`, so no block has one.
- *Transactions.*  A caller that has returned data before it invokes a contract which
  returns nothing gets its own data (the case that `InvokeReturns` excepts).  An insertion into
  room that the transaction made by its own clear passes the view and is refused when it
  is pushed, so `AloneIsAdmitted` excepts it.  `WRITE` and `WRITE_BYTES` cost no gas.
- *Databases.*  Besides finding 2: two
  transactions of a block that create one contract end the program
  (`contract_db/uncommitted_contracts.cc:54`, in a destructor); one that creates it again in a later
  block, or deploys to an address that is taken, makes the end of the block throw
  (`contract_db/contract_db.cc:82`, `95`).  `ThrowsExplained` lists these cases.
- *Writers.*  A rejected block drops the contract records of the last accepted one if they
  are not yet written (`contract_db/contract_persistence.h:79`, `206`).  Keys that a slow writer
  has not written are swapped back and go to disk with a later block, so the files of a
  machine that stops have a hole.  `swap_data` reads the threads' caches without a lock.
- *Machines.*  The comment at `sisyphus_vm/vm.cc:195-197` says that no hash is computed without
  a commit; `rewind_modifications` of Sisyphus normalises and hashes the trie
  (`state_db/sisyphus_state_db.cc:240`).  `propose_tx_block` never updates the previous block's
  hash, only `try_exec_tx_block` does (`vm/base_vm.cc:118`).
- *Mempool.*  `add_txs` while workers run undoes their `fetch_add`s: with `Overlap = TRUE`
  `NoneLostOrTwice` fails.  The repository's drivers add between blocks.
- *External calls.*  `stop_rpcs` skips threads without a context
  (`threadlocal/threadlocal_context.cc:42`), and a new context allows calls
  (`threadlocal/cancellable_rpc.cc:21`).  If a worker's first transaction gets to its call after the
  stop, nobody cancels that call, and the proposer joins the worker when it is answered, or
  never.  At this commit no system call leads to `send_cancellable_rpc`.
- *Contracts.*  With `erc20.cc` a contract that holds tokens cannot pay them out, for want
  of an allowance by itself.  A `UniqueFlag` can be acquired again in a later block.  In
  `atomic_swap.cc` the guard of `reclaim_expired` (121) is inverted, and `initialize` takes no
  money; the challenge of a payment channel has no time limit of its own;
  `increase_auction_sizes` is not exported.  `execute_winning_bid` leaves no mark in
  `public_auction.cc`: if the object is transferred back to the auction it can be executed again,
  and pays the winning amount once more from what the other bids deposited (the run reaches
  this; `AuctionBacked` counts it).  `0x.cc:165` calls the owner "implicitly
  required to be msg_sender": only the allowance requires it.
- *cfmm.cc.*  A deposit takes the amount of token B in token A (179, 227); a withdrawal does
  not reduce the state; `execute` of two rounds in one call always aborts, on the
  semaphore; a withdrawal that cannot be paid blocks its round for good; `initialize`
  may be repeated and stores memory that it has not written.  `MarketBacked` says what
  holds in spite of this: as long as nobody withdraws or initialises again, what the contract has
  too much of A is what it lacks of B.

## 6. Plan

Done: the object layer, one transaction's execution, blocks, the databases with their
writers, block assembly, the SDK and the contracts; proofs for all of them.  What is left, in
this order:

1. `Block`: `ProposedIsValid` for programs that insert into hash sets, with a bound on the
   tombstones of a block; `Firm` has to say that elements differ and fit beside them.
2. `Contracts`: `EscrowBacked`, contract by contract, beginning with the conservation of a
   token's supply; `SumTheorems` has the lemmas about the sums, `TransactionProofs` those about
   which views a method changes.

## 7. Not modelled

- The WebAssembly interpreter, decoding of the arguments of system calls, wording of
  errors; how gas is metered inside a contract (Rust: a rewriting of code).
- The Merkle tries of the submodule `mtt`, their hashes and the digests of
  `state_db/modification_metadata.h`; header hashes.  A trie is a map here; where the
  library decides (whether an object without a value is dropped when the trie is
  normalised) both happen.
- Memory: arenas, allocators and garbage collection, apart from ids.  They work when no thread
  runs.  `AtomicSingleton` is not used.
- RocksDB and the layout of files; the thread of `AsyncRDBBulkLoad`, which throws
  "unimpl".  Reading a database back after a restart is not implemented in the
  repository, so there is no recovery to model: the crash properties are about
  what is in the files.
- The mutex of an entry of `TxSet` (`tx_block/tx_set.h:57` adopts a lock that nobody took, which is
  undefined behaviour); insertion of a result is one step.
- RPC results and `asset_add` in the system calls of `Execution`: none leads to them.  `Block`
  has both as operations of a transaction, because `StorageProxy` has them; no run uses
  `asset_add`.  `total_reset`.
- `compound.cc`: its records are read before any method writes them, so the methods of users
  abort, and the guard of `update_asset_params` is inverted.  `payment_wasmsig.cc` differs from
  `payment.cc` in where the signature is checked.  `genesis/deploy.cc` is three system calls that
  `Execution` has.  `sisyphus_erc20`, `rfq` and `vdf_rpc` import functions that the host does not
  link (`transaction_context/execution_context.cc:81-87`).  Test contracts.
- Experiments, mock RPC servers, main programs, crypto and debug.

`PROJECT.json` gives the reason for each part, and for each hazard that no property
covers.
