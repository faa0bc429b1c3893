----------------------------- MODULE Databases -----------------------------
(***************************************************************************)
(* The databases of one machine over a chain of blocks: a state database   *)
(* (StateDB with its NewKeyCache, StateDBv2, GroundhogPersistentStateDB or *)
(* SisyphusStateDB) with the log of the keys that a block touched, the     *)
(* contract database, and the two threads that write the logs of both to   *)
(* disk.                                                                   *)
(*                                                                         *)
(*    open -> contracts -> state -> log -> open     (accepted, proposed)   *)
(*    open -> undo -> open                          (rejected)             *)
(*                                                                         *)
(* A transaction executes in one step: Block shows what its interleavings  *)
(* do to objects.  The steps that end a block are those of phases.cc and   *)
(* of the virtual machines; the writers run in between as they like.       *)
(***************************************************************************)
EXTENDS Outcomes, Sequences

CONSTANTS Kinds,      \* the kinds of state database
          Keys,       \* storage keys
          Txs,        \* transactions: [id, reads, deltas, creates, deploys]
          Genesis,    \* the genesis contract
          MaxBlocks,  \* blocks in a behaviour
          MaxTxs      \* executions in a block

ASSUME DatabasesAssumption ==
    /\ Kinds \subseteq {"StateDB", "StateDBv2", "Groundhog", "Sisyphus"}
    /\ \A tx \in Txs :
         /\ tx.reads \subseteq Keys
         /\ tx.deltas \in
              Seq([key : Keys, delta : {tx.deltas[i].delta : i \in DOMAIN tx.deltas}])

VARIABLES
    kind,
    \* the state database
    db,                 \* the committed value of every key
    trie,               \* the keys that have an object in the trie
    new_key_cache,      \* the keys that have an object in the NewKeyCache
    mods,               \* the deltas of committed transactions: [key, delta, by]
    logged,             \* modified_keys_list: keys, or in Sisyphus deltas
    \* the contract database
    hashes_to_contracts,    \* committed contracts
    addresses_to_contracts, \* [address, hash] that are committed
    new_contracts, new_deployments,  \* UncommittedContracts
    contract_log,       \* AsyncPersistContracts: what is logged, what its
    contract_work,      \*   thread will write, and if and where to
    contract_pending,
    contract_files,
    \* keys on their way to disk
    buffers,            \* SerializeDiskInterface: records [key, ts]
    key_work, key_pending, key_files,
    \* the machine
    stage, block_number, current_timestamp,
    executed,           \* the transactions in tx_set, in order
    runs                \* the executions of the block, failed ones too

state == <<db, trie, new_key_cache, mods, logged>>
contracts == <<hashes_to_contracts, addresses_to_contracts, new_contracts, new_deployments>>
contract_disk == <<contract_log, contract_work, contract_pending, contract_files>>
key_disk == <<buffers, key_work, key_pending, key_files>>
machine == <<kind, stage, block_number, current_timestamp, executed, runs>>
vars == <<state, contracts, contract_disk, key_disk, machine>>

Idle == [is |-> FALSE, ts |-> 0]
Pending(ts) == [is |-> TRUE, ts |-> ts]
Created(h) == [what |-> "create", hash |-> h]
Deployed(d) == [what |-> "deploy", addr |-> d.addr, hash |-> d.hash]
AtGenesis == [addr |-> <<"DEPLOYER_ADDRESS">>, hash |-> Genesis]

\* init_default_genesis: the genesis contract is created, deployed and committed
\* as of block 0.
Init ==
    /\ kind \in Kinds
    /\ db = [k \in Keys |-> NoObject]
    /\ trie = {} /\ new_key_cache = {} /\ mods = {} /\ logged = {}
    /\ hashes_to_contracts = {Genesis}
    /\ addresses_to_contracts = {AtGenesis}
    /\ new_contracts = {} /\ new_deployments = {}
    /\ contract_log = {Created(Genesis), Deployed(AtGenesis)}
    /\ contract_work = {}
    /\ contract_pending = Pending(0)
    /\ contract_files = {}
    /\ buffers = {} /\ key_work = {} /\ key_pending = Idle /\ key_files = {}
    /\ stage = "open"
    /\ block_number = 0 /\ current_timestamp = 0
    /\ executed = <<>> /\ runs = 0

-----------------------------------------------------------------------------
(* One transaction                                                         *)

\* compute_contract_deploy_address, without collisions.
Address(hash, nonce) == <<hash, nonce>>
Deployments(tx) == {[addr |-> Address(d.hash, d.nonce), hash |-> d.hash] : d \in tx.deploys}

\* ContractDBProxy::deploy_contract looks for the contract alone; whether the
\* address is taken it asks only of the transaction itself.
check_committed_contract_exists(hash) == hash \in hashes_to_contracts
HostError(tx) ==
    \E d \in tx.deploys : d.hash \notin tx.creates /\ ~check_committed_contract_exists(d.hash)

Written(tx) == {tx.deltas[i].key : i \in DOMAIN tx.deltas}
Touched(tx) == tx.reads \cup Written(tx)

\* The deltas of a transaction, with its number in tx_set.
ModsAt(tx, n) == {[key |-> tx.deltas[i].key, delta |-> tx.deltas[i].delta, by |-> n]
                    : i \in DOMAIN tx.deltas}
ModsOf(tx) == ModsAt(tx, Len(executed) + 1)

OnKey(M, key) == {m \in M : m.key = key}
Merged(M, key) == Outcome(db[key], [m \in OnKey(M, key) |-> m.delta], OnKey(M, key))

\* RevertableObject::try_add_delta, on objects that hold committed deltas alone
\* and those of this transaction.
Accepts(tx, i) ==
    LET key == tx.deltas[i].key
        own == {m \in ModsOf(tx) : m.key = key}
        all == OnKey(mods, key) \cup own
    IN  \A m \in own : Admits(db[key], [x \in all |-> x.delta], own \ {m}, OnKey(mods, key), m)

\* push_deltas_to_statedb ends with the first delta that is refused: what it
\* returns, and the keys that it comes to.
Accepted(tx) == \A i \in DOMAIN tx.deltas : Accepts(tx, i)
Pushed(tx) ==
    {tx.deltas[i].key : i \in {i \in DOMAIN tx.deltas : \A j \in 1 .. i - 1 : Accepts(tx, j)}}

\* Mutant of Insert: a key that does not exist is not given an object.
Insert_Nothing(keys) == UNCHANGED <<trie, new_key_cache>>

\* try_apply_delta of each database: a key that has no object gets one, which
\* stays if the delta is refused or reverted.  StateDB keeps it apart from the
\* trie, in the NewKeyCache.
try_reserve_delta(keys) == new_key_cache' = new_key_cache \cup keys
StateDB_try_apply_delta(keys) ==
    kind = "StateDB" /\ try_reserve_delta(keys \ trie) /\ UNCHANGED trie
StateDBv2_try_apply_delta(keys) ==
    kind = "StateDBv2" /\ trie' = trie \cup keys /\ UNCHANGED new_key_cache
Groundhog_try_apply_delta(keys) ==
    kind = "Groundhog" /\ trie' = trie \cup keys /\ UNCHANGED new_key_cache
Sisyphus_try_apply_delta(keys) ==
    kind = "Sisyphus" /\ trie' = trie \cup keys /\ UNCHANGED new_key_cache

Insert(keys) ==
    \/ StateDB_try_apply_delta(keys) \/ StateDBv2_try_apply_delta(keys)
    \/ Groundhog_try_apply_delta(keys) \/ Sisyphus_try_apply_delta(keys)

\* UniqueTxSet::try_add_transaction has a hash once.
MayAdd(tx) == kind = "Sisyphus" => \A i \in DOMAIN executed : executed[i] # tx

\* log_modified_keys: a ModifiedKeysList gets what the transaction looked at, a
\* TypedModificationIndex each of its deltas, under an index of its own.
log_key(tx) == kind # "Sisyphus" /\ logged' = logged \cup Touched(tx)
log_modification(tx) == kind = "Sisyphus" /\ logged' = logged \cup ModsOf(tx)
Log(tx) == log_key(tx) \/ log_modification(tx)

\* UncommittedContracts: the first to take an address has it, and
\* add_new_contract throws on a contract that is there.
deploy_contract_to_address(deployments) ==
    new_deployments' = new_deployments \cup
        {d \in deployments : \A x \in new_deployments : x.addr # d.addr}
add_new_contract(hashes, Throw) ==
    IF hashes \cap new_contracts = {} THEN new_contracts' = new_contracts \cup hashes ELSE Throw
clear == new_contracts' = {} /\ new_deployments' = {}

\* ContractDB::add_new_uncommitted_contract also logs what it has added.  It is
\* called in a destructor: one that throws ends the program.
add_new_uncommitted_contract(hashes) ==
    /\ add_new_contract(hashes, UNCHANGED new_contracts)
    /\ contract_log' = contract_log \cup {Created(h) : h \in hashes \cap new_contracts'}
    /\ stage' = IF hashes \cap new_contracts = {} THEN stage ELSE "terminated"

\* The ContractDeployClosures commit, and the destructors of the
\* ContractCreateClosures.
Deploy(tx) == deploy_contract_to_address(Deployments(tx))
Create(tx) == add_new_uncommitted_contract(tx.creates)

\* ExecutionContext::execute, to the end of the StorageCommitment.
Succeed(tx) ==
    /\ Accepted(tx)
    /\ MayAdd(tx)
    /\ executed' = Append(executed, tx)
    /\ mods' = mods \cup ModsOf(tx)
    /\ Log(tx)
    /\ Deploy(tx)
    /\ Create(tx)

Fail(tx) ==
    /\ ~Accepted(tx) \/ ~MayAdd(tx)
    /\ UNCHANGED <<executed, mods, logged, new_deployments, new_contracts, contract_log, stage>>

Execute(tx) ==
    /\ stage = "open"
    /\ runs < MaxTxs
    /\ ~HostError(tx)
    /\ runs' = runs + 1
    /\ Insert(Pushed(tx))
    /\ Succeed(tx) \/ Fail(tx)
    /\ UNCHANGED <<kind, db, hashes_to_contracts, addresses_to_contracts, contract_work,
                   contract_pending, contract_files, key_disk, block_number, current_timestamp>>

-----------------------------------------------------------------------------
(* The end of a block that is accepted or proposed                         *)

\* commit_contract_to_db and commit_registration refuse what is there.
Doubled ==
    \/ new_contracts \cap hashes_to_contracts # {}
    \/ \E d \in new_deployments, e \in addresses_to_contracts : d.addr = e.addr

\* UncommittedContracts::commit
CommitUncommitted ==
    /\ hashes_to_contracts' = hashes_to_contracts \cup new_contracts
    /\ addresses_to_contracts' = addresses_to_contracts \cup new_deployments
    /\ contract_log' = contract_log \cup {Deployed(d) : d \in new_deployments}
    /\ clear

\* ContractDB::commit up to its call of write.  An exception here or below is
\* not caught by the virtual machine.
CommitContracts ==
    /\ stage = "open"
    /\ block_number < MaxBlocks
    /\ IF Doubled
       THEN stage' = "threw" /\ UNCHANGED <<contracts, contract_log>>
       ELSE stage' = "contracts" /\ CommitUncommitted
    /\ UNCHANGED <<kind, state, contract_work, contract_pending, contract_files, key_disk,
                   block_number, current_timestamp, executed, runs>>

\* Mutant of WriteContracts: the last item is overwritten.
WriteContracts_Clears ==
    /\ stage = "contracts"
    /\ stage' = "state"
    /\ contract_pending' = Pending(block_number)
    /\ contract_work' = {}
    /\ UNCHANGED <<kind, state, contracts, contract_log, contract_files, key_disk,
                   block_number, current_timestamp, executed, runs>>

\* AsyncPersistContracts::write
WriteContracts ==
    /\ stage = "contracts"
    /\ stage' = "state"
    /\ contract_pending' = Pending(block_number)
    /\ UNCHANGED <<kind, state, contracts, contract_log, contract_work, contract_files,
                   key_disk, block_number, current_timestamp, executed, runs>>

\* The objects in the trie without a committed value may be dropped when it is
\* hashed.
Normalized(keys, value) ==
    LET empty == {k \in keys : value[k] = NoObject}
    IN  {keys \ gone : gone \in SUBSET empty}

\* Mutant of Update: an object that was deleted keeps its value.
Update_KeepsDeleted(keys, from) ==
    /\ stage' = "log"
    /\ db' = [k \in Keys |-> IF k \in keys /\ Merged(mods, k) # NoObject
                             THEN Merged(mods, k) ELSE db[k]]
    /\ trie' \in Normalized(from, db')
    /\ mods' = {m \in mods : m.key \notin keys}

\* commit_round on the objects of some keys; those that are left without a value
\* are deleted, and the trie is normalized.
Update(keys, from) ==
    /\ stage' = "log"
    /\ db' = [k \in Keys |-> IF k \in keys THEN Merged(mods, k) ELSE db[k]]
    /\ trie' \in Normalized(from \ {k \in keys : db'[k] = NoObject}, db')
    /\ mods' = {m \in mods : m.key \notin keys}

\* "should never happen": a key that was logged is not in the trie.
UpdateOrThrow(keys) ==
    IF keys \subseteq trie THEN Update(keys, trie)
    ELSE stage' = "threw" /\ UNCHANGED <<db, trie, mods>>

\* The UpdateFn of each database.  That of StateDB calls commit_and_get of the
\* NewKeyCache for a key that is not in the trie, which may be in neither.
commit_and_get(keys) == keys \cap new_key_cache
clear_for_next_block == new_key_cache' = {}
UpdateFn == Update(logged, trie \cup commit_and_get(logged))
UpdateFnv2 == UpdateOrThrow(logged)
GroundhogUpdateFn == UpdateOrThrow(logged)
SisyphusUpdateFn == UpdateOrThrow({m.key : m \in logged})

\* hash_and_normalize serializes what was changed.
Serialize(keys) ==
    buffers' = IF stage' = "log"
               THEN buffers \cup {[key |-> k, ts |-> current_timestamp] : k \in keys}
               ELSE buffers

\* commit_modifications of each database.
StateDB_commit_modifications ==
    kind = "StateDB" /\ UpdateFn /\ clear_for_next_block /\ UNCHANGED buffers
StateDBv2_commit_modifications ==
    kind = "StateDBv2" /\ UpdateFnv2 /\ UNCHANGED <<new_key_cache, buffers>>
Groundhog_commit_modifications ==
    kind = "Groundhog" /\ GroundhogUpdateFn /\ Serialize(logged) /\ UNCHANGED new_key_cache
Sisyphus_commit_modifications ==
    /\ kind = "Sisyphus"
    /\ SisyphusUpdateFn
    /\ Serialize({m.key : m \in logged})
    /\ UNCHANGED new_key_cache

CommitState ==
    /\ stage = "state"
    /\ \/ StateDB_commit_modifications \/ StateDBv2_commit_modifications
       \/ Groundhog_commit_modifications \/ Sisyphus_commit_modifications
    /\ UNCHANGED <<kind, logged, contracts, contract_disk, key_work, key_pending, key_files,
                   block_number, current_timestamp, executed, runs>>

\* advance_block_number: reset_context
Advance ==
    /\ stage' = "open"
    /\ block_number' = block_number + 1
    /\ executed' = <<>> /\ runs' = 0
    /\ logged' = {}

\* Mutant of log_keys: what is not written yet is dropped.
log_keys_Drops ==
    /\ key_work' = buffers
    /\ buffers' = {}
    /\ key_pending' = Pending(current_timestamp)

\* AsyncKeysToDisk::log_keys exchanges the buffers with the item, written or not.
log_keys ==
    /\ key_work' = buffers
    /\ buffers' = key_work
    /\ key_pending' = Pending(current_timestamp)

set_timestamp == current_timestamp' = block_number'

\* The end of try_exec_tx_block and propose_tx_block of each machine.
FinishInMemory ==
    /\ kind \in {"StateDB", "StateDBv2"}
    /\ UNCHANGED <<buffers, key_work, key_pending, current_timestamp>>
FinishGroundhog == kind = "Groundhog" /\ log_keys /\ set_timestamp
FinishSisyphus == kind = "Sisyphus" /\ log_keys /\ set_timestamp

LogKeys ==
    /\ stage = "log"
    /\ Advance
    /\ FinishInMemory \/ FinishGroundhog \/ FinishSisyphus
    /\ UNCHANGED <<kind, db, trie, new_key_cache, mods, contracts, contract_disk, key_files>>

-----------------------------------------------------------------------------
(* The end of a block that is rejected: phase_undo_block                   *)

\* swap_data
SwapContracts ==
    /\ contract_work' = contract_log
    /\ contract_log' = {}

\* AsyncPersistContracts::nowrite
nowrite ==
    /\ SwapContracts
    /\ contract_pending' = [contract_pending EXCEPT !.is = FALSE]

\* ContractDB::rewind
RewindContracts ==
    /\ stage = "open"
    /\ block_number < MaxBlocks
    /\ stage' = "undo"
    /\ clear
    /\ nowrite
    /\ UNCHANGED <<kind, state, hashes_to_contracts, addresses_to_contracts, contract_files,
                   key_disk, block_number, current_timestamp, executed, runs>>

\* rewind_round on the objects of some keys, which are then as committed: what
\* the trie serializes is what it serialized before.
Rewind(keys) ==
    /\ mods' = {m \in mods : m.key \notin keys}
    /\ trie' \in Normalized(trie, db)
    /\ Advance

\* "invalid nonsense": a key that was logged is not in the trie.
RewindOrThrow(keys) ==
    IF keys \subseteq trie THEN Rewind(keys)
    ELSE stage' = "threw" /\ UNCHANGED <<trie, mods, logged, block_number, executed, runs>>

\* The RewindFn of each database.
RewindFn == Rewind(logged)
RewindFnv2 == RewindOrThrow(logged)
GroundhogRewindFn == RewindOrThrow(logged)
SisyphusRewindFn == RewindOrThrow({m.key : m \in logged})

\* The rest of try_exec_tx_block of Sisyphus for a block that is rejected;
\* Groundhog keeps its timestamp.
RejectSisyphus == set_timestamp

\* rewind_modifications of each database.
StateDB_rewind_modifications ==
    kind = "StateDB" /\ RewindFn /\ clear_for_next_block /\ UNCHANGED current_timestamp
StateDBv2_rewind_modifications ==
    kind = "StateDBv2" /\ RewindFnv2 /\ UNCHANGED <<new_key_cache, current_timestamp>>
Groundhog_rewind_modifications ==
    kind = "Groundhog" /\ GroundhogRewindFn /\ UNCHANGED <<new_key_cache, current_timestamp>>
Sisyphus_rewind_modifications ==
    kind = "Sisyphus" /\ SisyphusRewindFn /\ RejectSisyphus /\ UNCHANGED new_key_cache

RewindState ==
    /\ stage = "undo"
    /\ \/ StateDB_rewind_modifications \/ StateDBv2_rewind_modifications
       \/ Groundhog_rewind_modifications \/ Sisyphus_rewind_modifications
    /\ UNCHANGED <<kind, db, contracts, contract_disk, key_disk>>

-----------------------------------------------------------------------------
(* The writers: run of AsyncPersistContracts and of AsyncKeysToDisk        *)

\* save_data and then swap_data: what is logged waits for the next block.
ContractWriter ==
    /\ contract_pending.is
    /\ contract_files' = contract_files \cup contract_work
    /\ SwapContracts
    /\ contract_pending' = [contract_pending EXCEPT !.is = FALSE]
    /\ UNCHANGED <<machine, state, contracts, key_disk>>

\* The file of the timestamp is written anew.
KeyWriter ==
    /\ key_pending.is
    /\ key_files' = {f \in key_files : f.ts # key_pending.ts}
                      \cup {[ts |-> key_pending.ts, records |-> key_work]}
    /\ key_work' = {}
    /\ key_pending' = Idle
    /\ UNCHANGED <<machine, state, contracts, contract_disk, buffers>>

\* The end of the chain.
Over ==
    /\ stage \in {"threw", "terminated"} \/ (stage = "open" /\ block_number = MaxBlocks)
    /\ UNCHANGED vars

Next ==
    \/ \E tx \in Txs : Execute(tx)
    \/ CommitContracts \/ WriteContracts \/ CommitState \/ LogKeys
    \/ RewindContracts \/ RewindState
    \/ ContractWriter \/ KeyWriter
    \/ Over

Spec == Init /\ [][Next]_vars

-----------------------------------------------------------------------------
(* Properties                                                              *)

Executed == {executed[i] : i \in DOMAIN executed}

\* The end of a block throws only where it must: in StateDBv2 and Groundhog
\* when a transaction committed that read a key which does not exist and that
\* nobody wrote ("should never happen", "invalid nonsense"), and in all kinds
\* when one created a contract that there is, or deployed to an address that
\* is taken.  Two that create one contract in a block end the program.
ThrowsExplained ==
    /\ stage = "threw" =>
         \/ /\ kind \in {"StateDBv2", "Groundhog"}
            /\ \E tx \in Executed : \E k \in tx.reads :
                 db[k] = NoObject /\ \A x \in Executed : k \notin Written(x)
         \/ \E tx \in Executed :
              \/ tx.creates \cap hashes_to_contracts # {}
              \/ \E d \in Deployments(tx), e \in addresses_to_contracts : d.addr = e.addr
    /\ stage = "terminated" =>
         \E i, j \in DOMAIN executed :
           i < j /\ executed[i].creates \cap executed[j].creates # {}

\* The deltas of everything that tx_set lists, whatever was logged.
AllMods == UNION {ModsAt(executed[i], i) : i \in DOMAIN executed}

\* A block that ends leaves exactly what its committed transactions did: every
\* key has the outcome of their deltas, every contract and address they named
\* is there, with the contract of the first to deploy; a rejected block leaves
\* nothing, and no delta stays behind for the next block.
BlockLeavesExactly ==
    [][/\ stage = "state" /\ stage' = "log" =>
            /\ \A k \in Keys : db'[k] = Merged(AllMods, k)
            /\ mods' = {}
       /\ stage # "state" => db' = db
       /\ stage = "open" /\ stage' = "contracts" =>
            /\ hashes_to_contracts' =
                 hashes_to_contracts \cup UNION {tx.creates : tx \in Executed}
            /\ {d.addr : d \in addresses_to_contracts'} =
                 {d.addr : d \in addresses_to_contracts \cup
                             UNION {Deployments(tx) : tx \in Executed}}
       /\ stage' = "open" /\ block_number' # block_number =>
            mods' = {} /\ new_contracts' = {} /\ new_deployments' = {}]_vars

Records(files) == UNION {f.records : f \in files}

\* The keys that blocks changed are in a file, in the writer's item or in the
\* buffers, each in one place: however late the writer is, no record is lost,
\* none is written twice, and no file is written over.
NoKeyRecordLost ==
    [][LET before == Records(key_files) \cup key_work \cup buffers
           after == Records(key_files') \cup key_work' \cup buffers'
       IN  /\ before \subseteq after
           /\ Records(key_files) \subseteq Records(key_files')
           /\ Records(key_files') \cap (key_work' \cup buffers') = {}
           /\ key_work' \cap buffers' = {}]_vars

\* A committed contract is on disk or on its way there: only the end of a block
\* that is rejected may drop its record (nowrite empties the item that the
\* last accepted block left).
ContractRecordKept ==
    [][LET known(files, work, log) == files \cup work \cup log
           owed == {Deployed(d) : d \in addresses_to_contracts}
                     \cup {Created(h) : h \in hashes_to_contracts}
       IN  stage' # "undo" =>
             owed \cap known(contract_files, contract_work, contract_log)
               \subseteq known(contract_files', contract_work', contract_log')]_vars

\* What the update functions of StateDBv2 and Groundhog take for granted: a key
\* that a committed transaction logged has an object in the trie.  That there
\* is none "should never happen" (groundhog_persistent_state_db.cc:111).
LoggedKeysExist ==
    stage = "state" /\ kind \in {"StateDBv2", "Groundhog"} => logged \subseteq trie
=============================================================================
