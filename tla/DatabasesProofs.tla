-------------------------- MODULE DatabasesProofs --------------------------
(***************************************************************************)
(* The end of a block leaves exactly what its transactions did, throws     *)
(* only where it must, and loses no record of a key on its way to disk,    *)
(* for every kind of state database, all keys, transactions and blocks,    *)
(* and however late the writers are.                                       *)
(***************************************************************************)
EXTENDS Databases, SumTheorems

Stages == {"open", "contracts", "state", "log", "undo", "threw", "terminated"}

MachineInv ==
    /\ kind \in {"StateDB", "StateDBv2", "Groundhog", "Sisyphus"}
    /\ stage \in Stages
    /\ executed \in Seq(Txs)
    /\ block_number \in Nat /\ current_timestamp \in Nat
    /\ current_timestamp <= block_number

\* The objects hold the deltas of the transactions in tx_set, until
\* commit_modifications, and all of them are logged.
ModsInv ==
    /\ mods = IF stage = "log" THEN {} ELSE AllMods
    /\ stage # "log" =>
         logged = IF kind = "Sisyphus" THEN AllMods ELSE UNION {Touched(tx) : tx \in Executed}

\* A key with a value, or that the block wrote, has an object.
TrieInv ==
    kind # "StateDB" =>
      /\ \A k \in Keys : db[k] # NoObject => k \in trie
      /\ stage # "log" => \A tx \in Executed : Written(tx) \subseteq trie

\* UncommittedContracts has what the transactions in tx_set created and deployed,
\* until it is committed or cleared.
ContractInv ==
    /\ stage = "open" =>
         /\ new_contracts = UNION {tx.creates : tx \in Executed}
         /\ new_deployments \subseteq UNION {Deployments(tx) : tx \in Executed}
         /\ {d.addr : d \in new_deployments} =
              {d.addr : d \in UNION {Deployments(tx) : tx \in Executed}}
    /\ stage \in {"contracts", "state", "log", "undo"} =>
         new_contracts = {} /\ new_deployments = {}

\* The timestamp of a block is later than those of all files and of what the
\* writer has been given; only the records that commit_modifications has just
\* serialized have it.
KeyInv ==
    /\ \A f \in key_files : f.ts < current_timestamp /\ f.ts \in Nat
    /\ key_pending.is =>
         /\ key_pending.ts \in Nat
         /\ key_pending.ts < current_timestamp
         /\ \A f \in key_files : f.ts # key_pending.ts
    /\ \A r \in Records(key_files) \cup key_work : r.ts \in Nat /\ r.ts < current_timestamp
    /\ \A r \in buffers : /\ r.ts \in Nat /\ r.ts <= current_timestamp
                          /\ stage # "log" => r.ts < current_timestamp
    /\ Records(key_files) \cap (key_work \cup buffers) = {}
    /\ key_work \cap buffers = {}
    /\ kind \in {"StateDB", "StateDBv2"} => buffers = {}

IInv == MachineInv /\ ModsInv /\ TrieInv /\ ContractInv /\ KeyInv /\ ThrowsExplained

-----------------------------------------------------------------------------
(* What tx_set lists                                                       *)

\* The elements of a sequence.
LEMMA ElementOf ==
  ASSUME NEW S, NEW s \in Seq(S)
  PROVE  \A i \in DOMAIN s : s[i] \in S
OBVIOUS

\* The deltas of a transaction have positions, and keys.
LEMMA TxFacts ==
  ASSUME NEW tx \in Txs
  PROVE  /\ Len(tx.deltas) \in Nat /\ DOMAIN tx.deltas = 1 .. Len(tx.deltas)
         /\ \A i \in DOMAIN tx.deltas : tx.deltas[i].key \in Keys
         /\ Written(tx) \subseteq Keys /\ tx.reads \subseteq Keys
<1> DEFINE D == {tx.deltas[i].delta : i \in DOMAIN tx.deltas}
<1>1. tx.reads \subseteq Keys /\ tx.deltas \in Seq([key : Keys, delta : D])
  BY DatabasesAssumption
<1> HIDE DEF D
<1>2. \A i \in DOMAIN tx.deltas : tx.deltas[i] \in [key : Keys, delta : D]
  BY <1>1, ElementOf, Zenon
<1>3. \A i \in DOMAIN tx.deltas : tx.deltas[i].key \in Keys
  BY <1>2
<1> QED BY <1>1, <1>3 DEF Written

\* try_add_transaction adds one to the list.
LEMMA AppendExecuted ==
  ASSUME executed \in Seq(Txs), NEW tx \in Txs, executed' = Append(executed, tx)
  PROVE  /\ executed' \in Seq(Txs)
         /\ Executed' = Executed \cup {tx}
         /\ AllMods' = AllMods \cup ModsOf(tx)
         /\ Len(executed) \in Nat /\ DOMAIN executed = 1 .. Len(executed)
         /\ DOMAIN executed' = 1 .. Len(executed) + 1
         /\ \A i \in DOMAIN executed : executed'[i] = executed[i]
         /\ executed'[Len(executed) + 1] = tx
<1>1. /\ executed' \in Seq(Txs)
      /\ Len(executed) \in Nat /\ DOMAIN executed = 1 .. Len(executed)
      /\ DOMAIN executed' = 1 .. Len(executed) + 1
      /\ \A i \in DOMAIN executed : executed'[i] = executed[i]
      /\ executed'[Len(executed) + 1] = tx
  OBVIOUS
<1>2. DOMAIN executed' = DOMAIN executed \cup {Len(executed) + 1}
  BY <1>1
<1>3. Executed' = Executed \cup {tx}
  BY <1>1, <1>2 DEF Executed
<1>4. \A i \in DOMAIN executed : ModsAt(executed'[i], i) = ModsAt(executed[i], i)
  BY <1>1
<1>5. AllMods' = UNION {ModsAt(executed'[i], i) : i \in DOMAIN executed'}
  BY DEF AllMods, ModsAt
<1> HIDE DEF ModsAt
<1>6. AllMods' = AllMods \cup ModsAt(tx, Len(executed) + 1)
  BY <1>1, <1>2, <1>4, <1>5 DEF AllMods
<1> QED BY <1>1, <1>3, <1>6 DEF ModsOf

\* reset_context empties it.
LEMMA NoneExecuted ==
  ASSUME executed = <<>>
  PROVE  Executed = {} /\ AllMods = {}
BY DEF Executed, AllMods

LEMMA ExecutedInTxs ==
  ASSUME executed \in Seq(Txs)
  PROVE  Executed \subseteq Txs
BY DEF Executed

\* The keys of the deltas are those that transactions wrote.
LEMMA KeysOfMods ==
  \A k : (\E m \in AllMods : m.key = k) <=> (\E tx \in Executed : k \in Written(tx))
<1>1. ASSUME NEW k, NEW m \in AllMods, m.key = k PROVE \E tx \in Executed : k \in Written(tx)
  <2>1. PICK i \in DOMAIN executed : m \in ModsAt(executed[i], i)
    BY <1>1 DEF AllMods
  <2>2. k \in Written(executed[i])
    BY <1>1, <2>1 DEF ModsAt, Written
  <2> QED BY <2>2 DEF Executed
<1>2. ASSUME NEW k, NEW tx \in Executed, k \in Written(tx) PROVE \E m \in AllMods : m.key = k
  <2>1. PICK i \in DOMAIN executed : tx = executed[i]
    BY <1>2 DEF Executed
  <2>2. PICK n \in DOMAIN tx.deltas : k = tx.deltas[n].key
    BY <1>2 DEF Written
  <2> DEFINE m == [key |-> tx.deltas[n].key, delta |-> tx.deltas[n].delta, by |-> i]
  <2>3. m \in ModsAt(executed[i], i)
    BY <2>1 DEF ModsAt
  <2>4. m \in AllMods /\ m.key = k
    BY <2>2, <2>3 DEF AllMods
  <2> QED BY <2>4
<1> QED BY <1>1, <1>2

\* A transaction whose deltas are all accepted has an object for each of its keys.
LEMMA AllPushed ==
  ASSUME NEW tx \in Txs, Accepted(tx)
  PROVE  Pushed(tx) = Written(tx)
<1>1. \A i \in DOMAIN tx.deltas : \A j \in 1 .. i - 1 : j \in DOMAIN tx.deltas
  BY TxFacts
<1>2. \A i \in DOMAIN tx.deltas : \A j \in 1 .. i - 1 : Accepts(tx, j)
  BY <1>1 DEF Accepted
<1> QED BY <1>2 DEF Pushed, Written

-----------------------------------------------------------------------------
(* The parts of the invariant that a step leaves alone                     *)

\* Where the list of transactions is as it was, so is what it says.
LEMMA SameExecuted ==
  ASSUME UNCHANGED executed
  PROVE  Executed' = Executed /\ AllMods' = AllMods
BY DEF Executed, AllMods, ModsAt

\* Later timestamps.
LEMMA KeyKept ==
  ASSUME KeyInv, UNCHANGED <<key_disk, kind>>, current_timestamp \in Nat, current_timestamp' \in Nat,
         current_timestamp <= current_timestamp', stage # "log" \/ stage' = "log"
  PROVE  KeyInv'
<1>1. /\ key_files' = key_files /\ key_work' = key_work /\ buffers' = buffers
      /\ key_pending' = key_pending /\ Records(key_files)' = Records(key_files)
  BY DEF key_disk, Records
<1> HIDE DEF Records
<1>2. \A n \in Nat : /\ n < current_timestamp => n < current_timestamp'
                     /\ n <= current_timestamp => n <= current_timestamp'
  OBVIOUS
<1> QED BY <1>1, <1>2 DEF KeyInv

\* A block that goes on.
LEMMA ThrowsKept ==
  ASSUME stage' \notin {"threw", "terminated"}
  PROVE  ThrowsExplained'
BY DEF ThrowsExplained

\* A block that threw has ended.
LEMMA ThrowsStay ==
  ASSUME ThrowsExplained, UNCHANGED <<stage, kind, executed, db, hashes_to_contracts,
                                      addresses_to_contracts>>
  PROVE  ThrowsExplained'
BY SameExecuted DEF ThrowsExplained, Deployments, Written

LEMMA InvInit == Init => IInv
<1> SUFFICES ASSUME Init PROVE IInv
  OBVIOUS
<1>1. Executed = {} /\ AllMods = {}
  BY NoneExecuted DEF Init
<1>2. MachineInv
  BY DatabasesAssumption DEF Init, MachineInv, Stages
<1>3. ModsInv
  BY <1>1 DEF Init, ModsInv
<1>4. TrieInv
  BY <1>1 DEF Init, TrieInv
<1>5. ContractInv
  BY <1>1 DEF Init, ContractInv
<1>6. KeyInv
  BY DEF Init, KeyInv, Records, Idle
<1>7. ThrowsExplained
  BY DEF Init, ThrowsExplained
<1> QED BY <1>2, <1>3, <1>4, <1>5, <1>6, <1>7 DEF IInv

-----------------------------------------------------------------------------
(* The steps                                                               *)

\* An object is made for each key that is pushed.
LEMMA InsertTrie ==
  ASSUME NEW keys, Insert(keys), UNCHANGED kind
  PROVE  kind # "StateDB" => trie \subseteq trie' /\ keys \subseteq trie'
BY DEF Insert, StateDB_try_apply_delta, StateDBv2_try_apply_delta,
       Groundhog_try_apply_delta, Sisyphus_try_apply_delta

LEMMA FailStep ==
  ASSUME IInv, NEW tx \in Txs, Execute(tx), Fail(tx)
  PROVE  IInv'
<1>1. /\ stage = "open" /\ Insert(Pushed(tx))
      /\ UNCHANGED <<executed, mods, logged, new_deployments, new_contracts, stage, kind, db,
                     hashes_to_contracts, addresses_to_contracts, block_number,
                     current_timestamp, key_disk>>
  BY DEF Execute, Fail
<1>2. Executed' = Executed /\ AllMods' = AllMods
  BY <1>1, SameExecuted
<1>3. MachineInv'
  BY <1>1 DEF IInv, MachineInv
<1>4. ModsInv'
  BY <1>1, <1>2 DEF IInv, ModsInv, Touched, Written
<1>5. TrieInv'
  BY <1>1, <1>2, InsertTrie DEF IInv, TrieInv, Written
<1>6. ContractInv'
  BY <1>1, <1>2 DEF IInv, ContractInv, Deployments
<1>7. KeyInv'
  BY <1>1, KeyKept DEF IInv, MachineInv
<1>8. ThrowsExplained'
  BY <1>1, ThrowsStay DEF IInv
<1> QED BY <1>3, <1>4, <1>5, <1>6, <1>7, <1>8 DEF IInv

LEMMA SucceedStep ==
  ASSUME IInv, NEW tx \in Txs, Execute(tx), Succeed(tx)
  PROVE  IInv'
<1>1. /\ stage = "open" /\ Insert(Pushed(tx)) /\ Accepted(tx)
      /\ executed' = Append(executed, tx) /\ mods' = mods \cup ModsOf(tx)
      /\ Log(tx) /\ Deploy(tx) /\ Create(tx)
      /\ UNCHANGED <<kind, db, hashes_to_contracts, addresses_to_contracts, block_number,
                     current_timestamp, key_disk>>
  BY DEF Execute, Succeed
<1>2. /\ executed' \in Seq(Txs)
      /\ Executed' = Executed \cup {tx} /\ AllMods' = AllMods \cup ModsOf(tx)
      /\ Len(executed) \in Nat /\ DOMAIN executed = 1 .. Len(executed)
      /\ DOMAIN executed' = 1 .. Len(executed) + 1
      /\ \A i \in DOMAIN executed : executed'[i] = executed[i]
      /\ executed'[Len(executed) + 1] = tx
  BY <1>1, AppendExecuted DEF IInv, MachineInv
<1>3. /\ stage' \in {"open", "terminated"}
      /\ stage' = "terminated" <=> tx.creates \cap new_contracts # {}
      /\ stage' = "open" => new_contracts' = new_contracts \cup tx.creates
  BY <1>1 DEF Create, add_new_uncommitted_contract, add_new_contract
<1>4. MachineInv'
  BY <1>1, <1>2, <1>3 DEF IInv, MachineInv, Stages
<1>5. ModsInv'
  <2>1. mods' = AllMods'
    BY <1>1, <1>2 DEF IInv, ModsInv
  <2>2. CASE kind = "Sisyphus"
    <3>1. logged' = logged \cup ModsOf(tx)
      BY <1>1, <2>2 DEF Log, log_key, log_modification
    <3> QED BY <1>1, <1>2, <1>3, <2>1, <2>2, <3>1 DEF IInv, ModsInv
  <2>3. CASE kind # "Sisyphus"
    <3>1. logged' = logged \cup Touched(tx)
      BY <1>1, <2>3 DEF Log, log_key, log_modification
    <3>2. logged = UNION {Touched(t) : t \in Executed}
      BY <1>1, <2>3 DEF IInv, ModsInv
    <3>3. logged' = UNION {Touched(t) : t \in Executed'}
      BY <1>2, <3>1, <3>2
    <3>4. ModsInv' = (/\ mods' = IF stage' = "log" THEN {} ELSE AllMods'
                      /\ stage' # "log" =>
                           logged' = IF kind' = "Sisyphus" THEN AllMods'
                                     ELSE UNION {Touched(t) : t \in Executed'})
      BY DEF ModsInv, Touched, Written
    <3> QED BY <1>1, <1>3, <2>1, <2>3, <3>3, <3>4
  <2> QED BY <2>2, <2>3
<1>6. TrieInv'
  <2>1. kind # "StateDB" => trie \subseteq trie' /\ Written(tx) \subseteq trie'
    BY <1>1, InsertTrie, AllPushed
  <2> QED BY <1>1, <1>2, <2>1 DEF IInv, TrieInv, Written
<1>7. ContractInv'
  <2> SUFFICES ASSUME stage' = "open"
               PROVE  /\ new_contracts' = UNION {t.creates : t \in Executed'}
                      /\ new_deployments' \subseteq UNION {Deployments(t) : t \in Executed'}
                      /\ {d.addr : d \in new_deployments'} =
                           {d.addr : d \in UNION {Deployments(t) : t \in Executed'}}
    BY <1>3 DEF ContractInv, Deployments, Address
  <2>1. /\ new_contracts = UNION {t.creates : t \in Executed}
        /\ new_deployments \subseteq UNION {Deployments(t) : t \in Executed}
        /\ {d.addr : d \in new_deployments} =
             {d.addr : d \in UNION {Deployments(t) : t \in Executed}}
    BY <1>1 DEF IInv, ContractInv
  <2>2. new_contracts' = UNION {t.creates : t \in Executed'}
    BY <1>2, <1>3, <2>1
  <2>3. new_deployments' = new_deployments \cup
          {d \in Deployments(tx) : \A x \in new_deployments : x.addr # d.addr}
    BY <1>1 DEF Deploy, deploy_contract_to_address
  <2> DEFINE Old == UNION {Deployments(t) : t \in Executed}
  <2>4. UNION {Deployments(t) : t \in Executed'} = Old \cup Deployments(tx)
    BY <1>2
  <2> HIDE DEF Old
  <2>5. {d.addr : d \in new_deployments'} = {d.addr : d \in Old \cup Deployments(tx)}
    <3>1. ASSUME NEW d \in Old PROVE \E e \in new_deployments : e.addr = d.addr
      <4>1. d.addr \in {e.addr : e \in new_deployments}
        BY <2>1, <3>1 DEF Old
      <4> QED BY <4>1
    <3> QED BY <2>1, <2>3, <3>1 DEF Old
  <2> QED BY <2>1, <2>2, <2>3, <2>4, <2>5 DEF Old
<1>8. KeyInv'
  BY <1>1, KeyKept DEF IInv, MachineInv
<1>9. ThrowsExplained'
  <2>1. CASE stage' = "open"
    BY <2>1, ThrowsKept
  <2>2. CASE stage' = "terminated"
    <3>1. PICK h \in tx.creates : h \in UNION {t.creates : t \in Executed}
      BY <1>1, <1>3, <2>2 DEF IInv, ContractInv
    <3>2. PICK i \in DOMAIN executed : h \in executed[i].creates
      BY <3>1 DEF Executed
    <3>3. /\ i \in DOMAIN executed' /\ Len(executed) + 1 \in DOMAIN executed'
          /\ i < Len(executed) + 1
          /\ h \in executed'[i].creates /\ h \in executed'[Len(executed) + 1].creates
      BY <1>2, <3>1, <3>2
    <3>4. \E j, n \in DOMAIN executed' : j < n /\ executed'[j].creates \cap executed'[n].creates # {}
      BY <3>3
    <3> QED BY <2>2, <3>4 DEF ThrowsExplained
  <2> QED BY <1>3, <2>1, <2>2
<1> QED BY <1>4, <1>5, <1>6, <1>7, <1>8, <1>9 DEF IInv

LEMMA CommitContractsStep ==
  ASSUME IInv, CommitContracts
  PROVE  IInv'
<1>1. /\ stage = "open" /\ stage' \in {"threw", "contracts"}
      /\ UNCHANGED <<kind, db, trie, mods, logged, key_disk, block_number, current_timestamp,
                     executed>>
  BY DEF CommitContracts, state
<1>2. Executed' = Executed /\ AllMods' = AllMods
  BY <1>1, SameExecuted
<1>3. MachineInv'
  BY <1>1 DEF IInv, MachineInv, Stages
<1>4. ModsInv'
  BY <1>1, <1>2 DEF IInv, ModsInv, Touched, Written
<1>5. TrieInv'
  BY <1>1, <1>2 DEF IInv, TrieInv, Written
<1>6. ContractInv'
  BY <1>1 DEF CommitContracts, CommitUncommitted, clear, ContractInv
<1>7. KeyInv'
  BY <1>1, KeyKept DEF IInv, MachineInv
<1>8. ThrowsExplained'
  <2>1. CASE stage' = "contracts"
    BY <2>1, ThrowsKept
  <2>2. CASE stage' = "threw"
    <3>1. /\ Doubled
          /\ hashes_to_contracts' = hashes_to_contracts
          /\ addresses_to_contracts' = addresses_to_contracts
      BY <2>2 DEF CommitContracts, contracts
    <3>2. /\ new_contracts = UNION {tx.creates : tx \in Executed}
          /\ new_deployments \subseteq UNION {Deployments(tx) : tx \in Executed}
      BY <1>1 DEF IInv, ContractInv
    <3>3. \E tx \in Executed :
            \/ tx.creates \cap hashes_to_contracts # {}
            \/ \E d \in Deployments(tx), e \in addresses_to_contracts : d.addr = e.addr
      <4>1. CASE new_contracts \cap hashes_to_contracts # {}
        BY <3>2, <4>1
      <4>2. ASSUME NEW d \in new_deployments, NEW e \in addresses_to_contracts, d.addr = e.addr
            PROVE  \E tx \in Executed : \E x \in Deployments(tx), y \in addresses_to_contracts :
                     x.addr = y.addr
        BY <3>2, <4>2
      <4> QED BY <3>1, <4>1, <4>2 DEF Doubled
    <3>4. \E tx \in Executed' :
            \/ tx.creates \cap hashes_to_contracts' # {}
            \/ \E d \in Deployments(tx), e \in addresses_to_contracts' : d.addr = e.addr
      BY <1>2, <3>1, <3>3
    <3> QED BY <2>2, <3>4 DEF ThrowsExplained, Deployments
  <2> QED BY <1>1, <2>1, <2>2
<1> QED BY <1>3, <1>4, <1>5, <1>6, <1>7, <1>8 DEF IInv

\* AsyncPersistContracts::write touches nothing that the invariant is about.
LEMMA WriteContractsStep ==
  ASSUME IInv, WriteContracts
  PROVE  IInv'
<1>1. /\ stage = "contracts" /\ stage' = "state"
      /\ UNCHANGED <<kind, db, trie, mods, logged, new_contracts, new_deployments, key_disk,
                     block_number, current_timestamp, executed>>
  BY DEF WriteContracts, state, contracts
<1>2. Executed' = Executed /\ AllMods' = AllMods
  BY <1>1, SameExecuted
<1>3. MachineInv'
  BY <1>1 DEF IInv, MachineInv, Stages
<1>4. ModsInv'
  BY <1>1, <1>2 DEF IInv, ModsInv, Touched, Written
<1>5. TrieInv'
  BY <1>1, <1>2 DEF IInv, TrieInv, Written
<1>6. ContractInv'
  BY <1>1 DEF IInv, ContractInv
<1>7. KeyInv'
  BY <1>1, KeyKept DEF IInv, MachineInv
<1>8. ThrowsExplained'
  BY <1>1, ThrowsKept
<1> QED BY <1>3, <1>4, <1>5, <1>6, <1>7, <1>8 DEF IInv

\* The keys that commit_modifications and rewind_modifications go through.
LoggedKeys == IF kind = "Sisyphus" THEN {m.key : m \in logged} ELSE logged

\* They are those that the transactions in tx_set touched, in Sisyphus those
\* that they wrote: no delta is left out.
LEMMA KeysLogged ==
  ASSUME IInv, stage # "log"
  PROVE  /\ \A m \in mods : m.key \in LoggedKeys
         /\ \A k \in LoggedKeys :
              \/ \E tx \in Executed : k \in Written(tx)
              \/ kind # "Sisyphus" /\ \E tx \in Executed : k \in tx.reads
<1>1. mods = AllMods
  BY DEF IInv, ModsInv
<1>2. CASE kind = "Sisyphus"
  <2>1. LoggedKeys = {m.key : m \in AllMods}
    BY <1>2 DEF IInv, ModsInv, LoggedKeys
  <2> QED BY <1>1, <2>1, KeysOfMods
<1>3. CASE kind # "Sisyphus"
  <2>1. LoggedKeys = UNION {Touched(tx) : tx \in Executed}
    BY <1>3 DEF IInv, ModsInv, LoggedKeys
  <2>2. \A tx : Touched(tx) = tx.reads \cup Written(tx)
    BY DEF Touched
  <2>3. \A m \in mods : m.key \in LoggedKeys
    BY <1>1, <2>1, <2>2, KeysOfMods
  <2>4. ASSUME NEW k \in LoggedKeys
        PROVE  \E tx \in Executed : k \in Written(tx) \/ k \in tx.reads
    BY <2>1, <2>2, <2>4
  <2> QED BY <1>3, <2>3, <2>4
<1> QED BY <1>2, <1>3

\* "should never happen" and "invalid nonsense" happen when a transaction read
\* a key that does not exist.
LEMMA ThrowsOnRead ==
  ASSUME IInv, stage \notin {"log", "threw", "terminated"}, kind # "StateDB",
         ~(LoggedKeys \subseteq trie), stage' = "threw", UNCHANGED <<kind, db, executed>>
  PROVE  ThrowsExplained'
<1>1. PICK k \in LoggedKeys : k \notin trie
  OBVIOUS
<1>2. \A tx \in Executed : k \notin Written(tx)
  BY <1>1 DEF IInv, TrieInv
<1>3. kind # "Sisyphus" /\ \E tx \in Executed : k \in tx.reads
  BY <1>2, KeysLogged
<1>4. PICK tx \in Executed : k \in tx.reads
  BY <1>3
<1>5. k \in Keys
  BY <1>4, ExecutedInTxs, TxFacts DEF IInv, MachineInv
<1>6. db[k] = NoObject
  BY <1>1, <1>5 DEF IInv, TrieInv
<1>7. kind \in {"StateDBv2", "Groundhog"}
  BY <1>3 DEF IInv, MachineInv
<1>8. Executed' = Executed
  BY SameExecuted
<1>9. \E t \in Executed' : \E x \in t.reads :
        db'[x] = NoObject /\ \A u \in Executed' : x \notin Written(u)
  BY <1>2, <1>4, <1>6, <1>8
<1> QED BY <1>7, <1>9 DEF ThrowsExplained, Written

\* Normalisation keeps the objects that have a value.
LEMMA NormalizedKeeps ==
  ASSUME NEW keys, NEW value, NEW t \in Normalized(keys, value)
  PROVE  t \subseteq keys /\ \A k \in keys : value[k] # NoObject => k \in t
BY DEF Normalized

\* commit_modifications, of any kind.
LEMMA CommitFacts ==
  ASSUME IInv, CommitState
  PROVE  /\ stage = "state"
         /\ \/ /\ stage' = "log" /\ mods' = {}
               /\ db' = [k \in Keys |-> IF k \in LoggedKeys THEN Merged(mods, k) ELSE db[k]]
               /\ kind # "StateDB" =>
                    /\ LoggedKeys \subseteq trie
                    /\ trie' \in Normalized(trie \ {k \in LoggedKeys : db'[k] = NoObject}, db')
               /\ \/ buffers' = buffers
                  \/ /\ kind \notin {"StateDB", "StateDBv2"}
                     /\ buffers' =
                          buffers \cup {[key |-> k, ts |-> current_timestamp] : k \in LoggedKeys}
            \/ /\ stage' = "threw" /\ kind # "StateDB" /\ ~(LoggedKeys \subseteq trie)
               /\ UNCHANGED <<db, trie, mods, buffers>>
<1>1. stage = "state"
  BY DEF CommitState
<1>2. {m \in mods : m.key \notin LoggedKeys} = {}
  BY <1>1, KeysLogged
<1>3. kind # "Sisyphus" => LoggedKeys = logged
  BY DEF LoggedKeys
<1>4. CASE StateDB_commit_modifications
  BY <1>1, <1>2, <1>3, <1>4 DEF StateDB_commit_modifications, UpdateFn, Update
<1>5. CASE StateDBv2_commit_modifications
  BY <1>1, <1>2, <1>3, <1>5
  DEF StateDBv2_commit_modifications, UpdateFnv2, UpdateOrThrow, Update
<1>6. CASE Groundhog_commit_modifications
  BY <1>1, <1>2, <1>3, <1>6
  DEF Groundhog_commit_modifications, GroundhogUpdateFn, UpdateOrThrow, Update, Serialize
<1>7. CASE Sisyphus_commit_modifications
  <2>1. LoggedKeys = {m.key : m \in logged} /\ kind = "Sisyphus"
    BY <1>7 DEF LoggedKeys, Sisyphus_commit_modifications
  <2>2. UpdateOrThrow(LoggedKeys) /\ Serialize(LoggedKeys)
    BY <1>7, <2>1 DEF Sisyphus_commit_modifications, SisyphusUpdateFn
  <2> QED BY <1>1, <1>2, <2>1, <2>2 DEF UpdateOrThrow, Update, Serialize
<1> QED BY <1>4, <1>5, <1>6, <1>7 DEF CommitState

LEMMA CommitStateStep ==
  ASSUME IInv, CommitState
  PROVE  IInv'
<1>1. /\ stage = "state" /\ stage' \in {"log", "threw"}
      /\ UNCHANGED <<kind, logged, new_contracts, new_deployments, key_work, key_pending,
                     key_files, block_number, current_timestamp, executed>>
  BY CommitFacts DEF CommitState, contracts
<1>2. Executed' = Executed /\ AllMods' = AllMods
  BY <1>1, SameExecuted
<1>3. MachineInv'
  BY <1>1 DEF IInv, MachineInv, Stages
<1>4. ModsInv'
  BY <1>1, <1>2, CommitFacts DEF IInv, ModsInv, Touched, Written
<1>5. TrieInv'
  <2>1. CASE stage' = "threw"
    BY <1>1, <1>2, <2>1, CommitFacts DEF IInv, TrieInv, Written
  <2>2. CASE stage' = "log"
    <3> SUFFICES ASSUME kind # "StateDB", NEW k \in Keys, db'[k] # NoObject PROVE k \in trie'
      BY <1>1, <2>2 DEF TrieInv
    <3>1. /\ LoggedKeys \subseteq trie
          /\ trie' \in Normalized(trie \ {x \in LoggedKeys : db'[x] = NoObject}, db')
          /\ db'[k] = IF k \in LoggedKeys THEN Merged(mods, k) ELSE db[k]
      BY <2>2, CommitFacts
    <3>2. k \in trie
      BY <3>1 DEF IInv, TrieInv
    <3> QED BY <3>1, <3>2, NormalizedKeeps
  <2> QED BY <1>1, <2>1, <2>2
<1>6. ContractInv'
  BY <1>1 DEF IInv, ContractInv
<1>7. KeyInv'
  <2> DEFINE ts == current_timestamp
  <2> DEFINE New == {[key |-> k, ts |-> ts] : k \in LoggedKeys}
  <2>1. \A r \in New : r.ts = ts
    OBVIOUS
  <2> HIDE DEF New
  <2>2. /\ ts \in Nat /\ Records(key_files)' = Records(key_files)
        /\ key_files' = key_files /\ key_work' = key_work /\ key_pending' = key_pending
    BY <1>1 DEF IInv, MachineInv, Records
  <2>3. buffers' \subseteq buffers \cup New
    BY CommitFacts DEF New
  <2>4. /\ stage' # "log" => buffers' = buffers
        /\ kind \in {"StateDB", "StateDBv2"} => buffers' = buffers
    BY CommitFacts
  <2>5. \A r \in Records(key_files) \cup key_work : r.ts < ts /\ r.ts \in Nat
    BY DEF IInv, KeyInv
  <2>6. \A r \in buffers : r.ts < ts /\ r.ts \in Nat
    BY <1>1 DEF IInv, KeyInv
  <2>7. New \cap (Records(key_files) \cup key_work) = {}
    BY <2>1, <2>2, <2>5
  <2>8. \A r \in buffers' : r.ts \in Nat /\ r.ts <= ts /\ (stage' # "log" => r.ts < ts)
    BY <2>1, <2>2, <2>3, <2>4, <2>6
  <2>9. /\ Records(key_files) \cap (key_work \cup buffers') = {}
        /\ key_work \cap buffers' = {}
    BY <2>3, <2>7 DEF IInv, KeyInv
  <2> QED BY <1>1, <2>2, <2>4, <2>8, <2>9 DEF IInv, KeyInv
<1>8. ThrowsExplained'
  <2>1. CASE stage' = "threw"
    BY <1>1, <2>1, CommitFacts, ThrowsOnRead
  <2>2. CASE stage' = "log"
    BY <2>2, ThrowsKept
  <2> QED BY <1>1, <2>1, <2>2
<1> QED BY <1>3, <1>4, <1>5, <1>6, <1>7, <1>8 DEF IInv

\* A block number and an empty tx_set.
LEMMA AdvanceFacts ==
  ASSUME IInv, Advance, stage # "threw", mods' = {}, UNCHANGED <<kind, new_contracts, new_deployments>>,
         new_contracts = {}, new_deployments = {}
  PROVE  /\ Executed' = {} /\ AllMods' = {} /\ executed' \in Seq(Txs)
         /\ ModsInv' /\ ContractInv' /\ ThrowsExplained'
         /\ block_number' = block_number + 1 /\ stage' = "open"
<1>1. executed' = <<>> /\ stage' = "open" /\ logged' = {} /\ block_number' = block_number + 1
  BY DEF Advance
<1>2. Executed' = {} /\ AllMods' = {}
  BY <1>1 DEF Executed, AllMods
<1>3. ModsInv'
  BY <1>1, <1>2 DEF ModsInv
<1>4. ContractInv'
  BY <1>1, <1>2 DEF ContractInv
<1>5. ThrowsExplained'
  BY <1>1, ThrowsKept
<1> QED BY <1>1, <1>2, <1>3, <1>4, <1>5

LEMMA LogKeysStep ==
  ASSUME IInv, LogKeys
  PROVE  IInv'
<1>1. /\ stage = "log" /\ Advance
      /\ FinishInMemory \/ FinishGroundhog \/ FinishSisyphus
      /\ UNCHANGED <<kind, db, trie, mods, new_contracts, new_deployments, key_files>>
  BY DEF LogKeys, contracts
<1>2. mods = {} /\ new_contracts = {} /\ new_deployments = {}
  BY <1>1 DEF IInv, ModsInv, ContractInv
<1>3. /\ Executed' = {} /\ executed' \in Seq(Txs)
      /\ ModsInv' /\ ContractInv' /\ ThrowsExplained'
      /\ block_number' = block_number + 1 /\ stage' = "open"
  BY <1>1, <1>2, AdvanceFacts
<1>4. TrieInv'
  BY <1>1, <1>3 DEF IInv, TrieInv
<1>5. /\ current_timestamp \in Nat /\ block_number \in Nat /\ current_timestamp <= block_number
      /\ current_timestamp' \in {current_timestamp, block_number + 1}
  BY <1>1, <1>3 DEF IInv, MachineInv, FinishInMemory, FinishGroundhog, FinishSisyphus, set_timestamp
<1>6. MachineInv'
  BY <1>1, <1>3, <1>5 DEF IInv, MachineInv, Stages
<1>7. KeyInv'
  <2>1. Records(key_files)' = Records(key_files) /\ key_files' = key_files
    BY <1>1 DEF Records
  <2>2. CASE log_keys /\ set_timestamp /\ kind \notin {"StateDB", "StateDBv2"}
    <3>1. /\ key_work' = buffers /\ buffers' = key_work
          /\ key_pending'.is /\ key_pending'.ts = current_timestamp
          /\ current_timestamp' = block_number + 1
      BY <1>3, <2>2 DEF log_keys, set_timestamp, Pending
    <3>2. current_timestamp < current_timestamp' /\ current_timestamp' \in Nat
      BY <1>5, <3>1
    <3> HIDE DEF Records
    <3>3. /\ \A f \in key_files : f.ts < current_timestamp /\ f.ts \in Nat
          /\ \A r \in Records(key_files) \cup key_work \cup buffers :
               r.ts \in Nat /\ r.ts <= current_timestamp
          /\ Records(key_files) \cap (key_work \cup buffers) = {}
          /\ key_work \cap buffers = {}
      BY <1>5 DEF IInv, KeyInv
    <3>4. \A n \in Nat : n <= current_timestamp => n < current_timestamp' /\ n <= current_timestamp'
      BY <1>5, <3>2
    <3>5. \A f \in key_files : f.ts # current_timestamp /\ f.ts < current_timestamp'
      BY <1>5, <3>3, <3>4
    <3>6. \A r \in Records(key_files) \cup key_work \cup buffers :
            r.ts \in Nat /\ r.ts < current_timestamp' /\ r.ts <= current_timestamp'
      BY <3>3, <3>4
    <3>7. (Records(key_files) \cap (buffers \cup key_work) = {}) /\ buffers \cap key_work = {}
      BY <3>3
    <3> QED BY <1>1, <1>3, <1>5, <2>1, <2>2, <3>1, <3>2, <3>3, <3>5, <3>6, <3>7 DEF KeyInv
  <2>3. CASE FinishInMemory
    \* nothing was ever serialized
    <3>1. UNCHANGED <<buffers, key_work, key_pending, current_timestamp>>
          /\ kind \in {"StateDB", "StateDBv2"}
      BY <2>3 DEF FinishInMemory
    <3> QED BY <1>1, <1>3, <1>5, <2>1, <3>1 DEF IInv, KeyInv
  <2> QED BY <1>1, <2>2, <2>3 DEF FinishGroundhog, FinishSisyphus
<1> QED BY <1>3, <1>4, <1>6, <1>7 DEF IInv

LEMMA RewindContractsStep ==
  ASSUME IInv, RewindContracts
  PROVE  IInv'
<1>1. /\ stage = "open" /\ stage' = "undo" /\ new_contracts' = {} /\ new_deployments' = {}
      /\ UNCHANGED <<kind, db, trie, mods, logged, key_disk, block_number, current_timestamp,
                     executed>>
  BY DEF RewindContracts, state, clear
<1>2. Executed' = Executed /\ AllMods' = AllMods
  BY <1>1, SameExecuted
<1>3. MachineInv'
  BY <1>1 DEF IInv, MachineInv, Stages
<1>4. ModsInv'
  BY <1>1, <1>2 DEF IInv, ModsInv, Touched, Written
<1>5. TrieInv'
  BY <1>1, <1>2 DEF IInv, TrieInv, Written
<1>6. ContractInv'
  BY <1>1 DEF IInv, ContractInv
<1>7. KeyInv'
  BY <1>1, KeyKept DEF IInv, MachineInv
<1>8. ThrowsExplained'
  BY <1>1, ThrowsKept
<1> QED BY <1>3, <1>4, <1>5, <1>6, <1>7, <1>8 DEF IInv

\* rewind_modifications, of any kind.
LEMMA RewindFacts ==
  ASSUME IInv, RewindState
  PROVE  /\ stage = "undo"
         /\ \/ Advance /\ mods' = {} /\ trie' \in Normalized(trie, db)
            \/ /\ stage' = "threw" /\ kind # "StateDB" /\ ~(LoggedKeys \subseteq trie)
               /\ UNCHANGED <<trie, mods, logged, block_number, executed>>
         /\ \/ UNCHANGED current_timestamp
            \/ current_timestamp' = block_number'
<1>1. stage = "undo"
  BY DEF RewindState
<1>2. {m \in mods : m.key \notin LoggedKeys} = {}
  BY <1>1, KeysLogged
<1>3. kind # "Sisyphus" => LoggedKeys = logged
  BY DEF LoggedKeys
<1>4. CASE StateDB_rewind_modifications
  BY <1>1, <1>2, <1>3, <1>4 DEF StateDB_rewind_modifications, RewindFn, Rewind
<1>5. CASE StateDBv2_rewind_modifications
  BY <1>1, <1>2, <1>3, <1>5
  DEF StateDBv2_rewind_modifications, RewindFnv2, RewindOrThrow, Rewind
<1>6. CASE Groundhog_rewind_modifications
  BY <1>1, <1>2, <1>3, <1>6
  DEF Groundhog_rewind_modifications, GroundhogRewindFn, RewindOrThrow, Rewind
<1>7. CASE Sisyphus_rewind_modifications
  <2>1. LoggedKeys = {m.key : m \in logged} /\ kind = "Sisyphus"
    BY <1>7 DEF LoggedKeys, Sisyphus_rewind_modifications
  <2>2. RewindOrThrow(LoggedKeys) /\ current_timestamp' = block_number'
    BY <1>7, <2>1 DEF Sisyphus_rewind_modifications, SisyphusRewindFn, RejectSisyphus, set_timestamp
  <2> QED BY <1>1, <1>2, <2>1, <2>2 DEF RewindOrThrow, Rewind
<1> QED BY <1>4, <1>5, <1>6, <1>7 DEF RewindState

LEMMA RewindStateStep ==
  ASSUME IInv, RewindState
  PROVE  IInv'
<1>1. /\ stage = "undo"
      /\ UNCHANGED <<kind, db, new_contracts, new_deployments, key_disk>>
      /\ new_contracts = {} /\ new_deployments = {}
  BY DEF RewindState, contracts, IInv, ContractInv
<1>2. /\ current_timestamp \in Nat /\ block_number \in Nat /\ current_timestamp <= block_number
      /\ executed \in Seq(Txs)
  BY DEF IInv, MachineInv
<1>3. CASE Advance /\ mods' = {} /\ trie' \in Normalized(trie, db)
  <2>1. /\ Executed' = {} /\ executed' \in Seq(Txs)
        /\ ModsInv' /\ ContractInv' /\ ThrowsExplained'
        /\ block_number' = block_number + 1 /\ stage' = "open"
    BY <1>1, <1>3, AdvanceFacts
  <2>2. /\ current_timestamp' \in Nat /\ current_timestamp <= current_timestamp'
        /\ current_timestamp' <= block_number'
    BY <1>2, <2>1, RewindFacts
  <2>3. MachineInv'
    BY <1>1, <1>2, <2>1, <2>2 DEF IInv, MachineInv, Stages
  <2>4. TrieInv'
    BY <1>1, <1>3, <2>1, NormalizedKeeps DEF IInv, TrieInv
  <2>5. KeyInv'
    BY <1>1, <1>2, <2>2, KeyKept DEF IInv
  <2> QED BY <2>1, <2>3, <2>4, <2>5 DEF IInv
<1>4. CASE /\ stage' = "threw" /\ kind # "StateDB" /\ ~(LoggedKeys \subseteq trie)
           /\ UNCHANGED <<trie, mods, logged, block_number, executed>>
  <2>1. Executed' = Executed /\ AllMods' = AllMods
    BY <1>4, SameExecuted
  <2>2. /\ current_timestamp' \in Nat /\ current_timestamp <= current_timestamp'
        /\ current_timestamp' <= block_number'
    BY <1>2, <1>4, RewindFacts
  <2>3. MachineInv'
    BY <1>1, <1>2, <1>4, <2>2 DEF IInv, MachineInv, Stages
  <2>4. ModsInv'
    BY <1>1, <1>4, <2>1 DEF IInv, ModsInv, Touched, Written
  <2>5. TrieInv'
    BY <1>1, <1>4, <2>1 DEF IInv, TrieInv, Written
  <2>6. ContractInv'
    BY <1>4 DEF ContractInv
  <2>7. KeyInv'
    BY <1>1, <1>2, <2>2, KeyKept DEF IInv
  <2>8. ThrowsExplained'
    BY <1>1, <1>4, ThrowsOnRead
  <2> QED BY <2>3, <2>4, <2>5, <2>6, <2>7, <2>8 DEF IInv
<1> QED BY <1>3, <1>4, RewindFacts

\* A step that leaves the machine and its state database alone.
LEMMA QuietStep ==
  ASSUME IInv, UNCHANGED <<machine, state, contracts>>
  PROVE  MachineInv' /\ ModsInv' /\ TrieInv' /\ ContractInv' /\ ThrowsExplained'
<1>1. UNCHANGED <<kind, stage, block_number, current_timestamp, executed, db, trie, mods, logged,
                  hashes_to_contracts, addresses_to_contracts, new_contracts, new_deployments>>
  BY DEF machine, state, contracts
<1>2. Executed' = Executed /\ AllMods' = AllMods
  BY <1>1, SameExecuted
<1>3. MachineInv'
  BY <1>1 DEF IInv, MachineInv
<1>4. ModsInv'
  BY <1>1, <1>2 DEF IInv, ModsInv, Touched, Written
<1>5. TrieInv'
  BY <1>1, <1>2 DEF IInv, TrieInv, Written
<1>6. ContractInv'
  BY <1>1, <1>2 DEF IInv, ContractInv, Deployments
<1>7. ThrowsExplained'
  BY <1>1, ThrowsStay DEF IInv
<1> QED BY <1>3, <1>4, <1>5, <1>6, <1>7

\* The file that the writer writes is new, and has what the item had.
LEMMA KeyWriterFacts ==
  ASSUME IInv, KeyWriter
  PROVE  /\ key_files' = key_files \cup {[ts |-> key_pending.ts, records |-> key_work]}
         /\ Records(key_files') = Records(key_files) \cup key_work
         /\ key_work' = {} /\ ~key_pending'.is
         /\ UNCHANGED <<buffers, kind, stage, current_timestamp>>
<1>1. {f \in key_files : f.ts # key_pending.ts} = key_files
  BY DEF IInv, KeyInv, KeyWriter
<1>2. key_files' = key_files \cup {[ts |-> key_pending.ts, records |-> key_work]}
  BY <1>1 DEF KeyWriter
<1>3. Records(key_files') = Records(key_files) \cup key_work
  <2> DEFINE new == [ts |-> key_pending.ts, records |-> key_work]
  <2>1. key_files' = key_files \cup {new} /\ new.records = key_work
    BY <1>2
  <2> HIDE DEF new
  <2> QED BY <2>1 DEF Records
<1> QED BY <1>2, <1>3 DEF KeyWriter, Idle, machine

LEMMA KeyWriterStep ==
  ASSUME IInv, KeyWriter
  PROVE  IInv'
<1>1. UNCHANGED <<machine, state, contracts>> /\ key_pending.is
  BY DEF KeyWriter
<1>2. KeyInv'
  <2>1. Records(key_files)' = Records(key_files) \cup key_work
    BY KeyWriterFacts DEF Records
  <2>2. /\ key_pending.ts \in Nat /\ key_pending.ts < current_timestamp
        /\ \A f \in key_files : f.ts < current_timestamp /\ f.ts \in Nat
    BY <1>1 DEF IInv, KeyInv
  <2>3. \A f \in key_files' : f.ts < current_timestamp /\ f.ts \in Nat
    BY <2>2, KeyWriterFacts
  <2> HIDE DEF Records
  <2> QED BY <2>1, <2>3, KeyWriterFacts DEF IInv, KeyInv
<1> QED BY <1>1, <1>2, QuietStep DEF IInv

LEMMA InvStep == IInv /\ [Next]_vars => IInv'
<1> SUFFICES ASSUME IInv, [Next]_vars PROVE IInv'
  OBVIOUS
<1>1. ASSUME NEW tx \in Txs, Execute(tx) PROVE IInv'
  <2>1. Succeed(tx) \/ Fail(tx)
    BY <1>1 DEF Execute
  <2> QED BY <1>1, <2>1, SucceedStep, FailStep
<1>2. ASSUME UNCHANGED <<machine, state, contracts, key_disk>> PROVE IInv'
  <2>1. MachineInv' /\ ModsInv' /\ TrieInv' /\ ContractInv' /\ ThrowsExplained'
    BY <1>2, QuietStep
  <2>2. KeyInv'
    BY <1>2, KeyKept DEF IInv, MachineInv, machine
  <2> QED BY <2>1, <2>2 DEF IInv
<1>3. CASE ContractWriter \/ Over \/ UNCHANGED vars
  BY <1>2, <1>3 DEF ContractWriter, Over, vars
<1> QED
  BY <1>1, <1>3, CommitContractsStep, WriteContractsStep, CommitStateStep, LogKeysStep,
     RewindContractsStep, RewindStateStep, KeyWriterStep DEF Next

LEMMA InvAlways == Spec => []IInv
BY InvInit, InvStep, PTL DEF Spec

-----------------------------------------------------------------------------
(* The theorems                                                            *)

\* "should never happen", "invalid nonsense" and the exceptions of ContractDB are
\* thrown only for the transactions that ThrowsExplained names.
THEOREM ThrowsAreExplained == Spec => []ThrowsExplained
<1>1. IInv => ThrowsExplained
  BY DEF IInv
<1> QED BY <1>1, InvAlways, PTL

\* A block leaves exactly what its committed transactions did, a rejected one
\* nothing: commit_modifications and rewind_modifications go through the keys
\* that were logged, and find all deltas there.
THEOREM BlockIsExact == Spec => BlockLeavesExactly
<1> DEFINE P == /\ stage = "state" /\ stage' = "log" =>
                     /\ \A k \in Keys : db'[k] = Merged(AllMods, k)
                     /\ mods' = {}
                /\ stage # "state" => db' = db
                /\ stage = "open" /\ stage' = "contracts" =>
                     /\ hashes_to_contracts' =
                          hashes_to_contracts \cup UNION {tx.creates : tx \in Executed}
                     /\ {d.addr : d \in addresses_to_contracts'} =
                          {d.addr : d \in addresses_to_contracts \cup
                                      UNION {Deployments(tx) : tx \in Executed}}
                /\ stage' = "open" /\ block_number' # block_number =>
                     mods' = {} /\ new_contracts' = {} /\ new_deployments' = {}
<1>1. IInv /\ IInv' /\ [Next]_vars => [P]_vars
  <2> SUFFICES ASSUME IInv, IInv', Next PROVE P
    OBVIOUS
  <2>1. ASSUME NEW tx \in Txs, Execute(tx) PROVE P
    <3>1. stage = "open" /\ db' = db /\ block_number' = block_number
      BY <2>1 DEF Execute
    <3>2. stage' \in {"open", "terminated"}
      BY <2>1, <3>1 DEF Execute, Succeed, Fail, Create, add_new_uncommitted_contract
    <3> QED BY <3>1, <3>2
  <2>2. CASE CommitContracts
    <3>1. stage = "open" /\ stage' \in {"threw", "contracts"} /\ db' = db
      BY <2>2 DEF CommitContracts, state
    <3>2. ASSUME stage' = "contracts"
          PROVE  /\ hashes_to_contracts' =
                      hashes_to_contracts \cup UNION {tx.creates : tx \in Executed}
                 /\ {d.addr : d \in addresses_to_contracts'} =
                      {d.addr : d \in addresses_to_contracts \cup
                                  UNION {Deployments(tx) : tx \in Executed}}
      <4> DEFINE D == UNION {Deployments(tx) : tx \in Executed}
      <4>1. /\ hashes_to_contracts' = hashes_to_contracts \cup new_contracts
            /\ addresses_to_contracts' = addresses_to_contracts \cup new_deployments
        BY <2>2, <3>2 DEF CommitContracts, CommitUncommitted
      <4>2. /\ new_contracts = UNION {tx.creates : tx \in Executed}
            /\ new_deployments \subseteq D
            /\ {d.addr : d \in new_deployments} = {d.addr : d \in D}
        BY <3>1 DEF IInv, ContractInv
      <4> HIDE DEF D
      <4>3. \A S : {d.addr : d \in addresses_to_contracts \cup S} =
                     {d.addr : d \in addresses_to_contracts} \cup {d.addr : d \in S}
        OBVIOUS
      <4>4. {d.addr : d \in addresses_to_contracts'} =
              {d.addr : d \in addresses_to_contracts \cup D}
        BY <4>1, <4>2, <4>3
      <4> QED BY <4>1, <4>2, <4>4 DEF D
    <3> QED BY <3>1, <3>2
  <2>3. CASE CommitState
    <3>1. stage = "state" /\ stage' \in {"log", "threw"}
      BY <2>3, CommitFacts
    <3>2. ASSUME stage' = "log", NEW k \in Keys PROVE db'[k] = Merged(AllMods, k)
      <4>1. mods = AllMods
        BY <3>1 DEF IInv, ModsInv
      <4>2. db'[k] = IF k \in LoggedKeys THEN Merged(mods, k) ELSE db[k]
        BY <2>3, <3>2, CommitFacts
      <4>3. k \notin LoggedKeys => OnKey(mods, k) = {}
        BY <3>1, KeysLogged DEF OnKey
      <4>4. OnKey(mods, k) = {} => Merged(mods, k) = db[k]
        BY DEF Merged, Outcome
      <4> QED BY <4>1, <4>2, <4>3, <4>4
    <3>3. stage' = "log" => mods' = {}
      BY <3>1 DEF IInv, ModsInv
    <3> QED BY <3>1, <3>2, <3>3
  <2>4. CASE LogKeys
    <3>1. stage = "log" /\ db' = db /\ stage' = "open"
          /\ mods' = {} /\ new_contracts' = {} /\ new_deployments' = {}
      BY <2>4 DEF LogKeys, Advance, contracts, IInv, ModsInv, ContractInv
    <3> QED BY <3>1
  <2>5. CASE RewindState
    <3>1. stage = "undo" /\ db' = db /\ new_contracts' = {} /\ new_deployments' = {}
      BY <2>5 DEF RewindState, contracts, IInv, ContractInv
    <3>2. stage' = "open" => mods' = {}
      BY <2>5, RewindFacts
    <3> QED BY <3>1, <3>2
  <2>6. CASE WriteContracts \/ RewindContracts
    <3>1. stage \in {"contracts", "open"} /\ db' = db /\ stage' \in {"state", "undo"}
      BY <2>6 DEF WriteContracts, RewindContracts, state
    <3> QED BY <3>1
  <2>7. CASE ContractWriter \/ KeyWriter \/ Over
    <3>1. db' = db /\ stage' = stage /\ block_number' = block_number
      BY <2>7 DEF ContractWriter, KeyWriter, Over, vars, state, machine
    <3> QED BY <3>1
  <2> QED BY <2>1, <2>2, <2>3, <2>4, <2>5, <2>6, <2>7 DEF Next
<1> QED BY <1>1, InvAlways, PTL DEF Spec, BlockLeavesExactly

\* log_keys exchanges the buffers with an item that may not be written yet, and
\* the writer writes a file anew; still no record of a key is lost or written
\* twice, and no file written over.
THEOREM KeyRecordsSurvive == Spec => NoKeyRecordLost
<1> DEFINE P == LET before == Records(key_files) \cup key_work \cup buffers
                    after == Records(key_files') \cup key_work' \cup buffers'
                IN  /\ before \subseteq after
                    /\ Records(key_files) \subseteq Records(key_files')
                    /\ Records(key_files') \cap (key_work' \cup buffers') = {}
                    /\ key_work' \cap buffers' = {}
<1>1. IInv /\ IInv' /\ [Next]_vars => [P]_vars
  <2> SUFFICES ASSUME IInv, IInv', Next PROVE P
    OBVIOUS
  <2>1. /\ Records(key_files') \cap (key_work' \cup buffers') = {}
        /\ key_work' \cap buffers' = {}
    BY DEF IInv, KeyInv, Records
  <2>2. ASSUME key_files' = key_files, key_work' = key_work, buffers \subseteq buffers' PROVE P
    BY <2>1, <2>2
  <2>3. CASE CommitState
    BY <2>2, <2>3, CommitFacts DEF CommitState
  <2>4. CASE LogKeys
    BY <2>1, <2>2, <2>4
    DEF LogKeys, FinishInMemory, FinishGroundhog, FinishSisyphus, log_keys
  <2>5. CASE KeyWriter
    BY <2>1, <2>5, KeyWriterFacts
  <2>6. CASE \/ \E tx \in Txs : Execute(tx)
             \/ CommitContracts \/ WriteContracts \/ RewindContracts \/ RewindState
             \/ ContractWriter \/ Over
    <3>1. UNCHANGED key_disk
      BY <2>6 DEF Execute, CommitContracts, WriteContracts, RewindContracts, RewindState,
                  ContractWriter, Over, vars
    <3> QED BY <2>2, <3>1 DEF key_disk
  <2> QED BY <2>3, <2>4, <2>5, <2>6 DEF Next
<1> QED BY <1>1, InvAlways, PTL DEF Spec, NoKeyRecordLost

\* The record of a committed contract is dropped by no step but the nowrite of
\* a block that is rejected.
THEOREM ContractRecordsKept == Spec => ContractRecordKept
<1> DEFINE known == contract_files \cup contract_work \cup contract_log
<1>1. [Next]_vars => [stage' # "undo" => known \subseteq known']_vars
  <2> SUFFICES ASSUME Next, stage' # "undo" PROVE known \subseteq known'
    OBVIOUS
  <2>1. CASE UNCHANGED contract_disk
    BY <2>1 DEF contract_disk
  <2>2. CASE UNCHANGED <<contract_files, contract_work>> /\ contract_log \subseteq contract_log'
    BY <2>2
  <2>3. ASSUME NEW tx \in Txs, Execute(tx) PROVE known \subseteq known'
    BY <2>2, <2>3 DEF Execute, Succeed, Fail, Create, add_new_uncommitted_contract
  <2>4. CASE CommitContracts
    BY <2>2, <2>4 DEF CommitContracts, CommitUncommitted
  <2>5. CASE WriteContracts
    BY <2>2, <2>5 DEF WriteContracts
  <2>6. CASE CommitState \/ LogKeys \/ RewindState \/ KeyWriter \/ Over
    BY <2>1, <2>6 DEF CommitState, LogKeys, RewindState, KeyWriter, Over, vars
  <2>7. CASE RewindContracts
    BY <2>7 DEF RewindContracts
  <2>8. CASE ContractWriter
    BY <2>8 DEF ContractWriter, SwapContracts
  <2> QED BY <2>3, <2>4, <2>5, <2>6, <2>7, <2>8 DEF Next
<1>2. [Next]_vars =>
        [LET kept(files, work, log) == files \cup work \cup log
             owed == {Deployed(d) : d \in addresses_to_contracts}
                       \cup {Created(h) : h \in hashes_to_contracts}
         IN  stage' # "undo" =>
               owed \cap kept(contract_files, contract_work, contract_log)
                 \subseteq kept(contract_files', contract_work', contract_log')]_vars
  BY <1>1
<1> QED BY <1>2, PTL DEF Spec, ContractRecordKept
=============================================================================
