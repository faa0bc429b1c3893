----------------------------- MODULE Execution -----------------------------
(***************************************************************************)
(* ExecutionContext: a transaction runs contracts that call each other and *)
(* make system calls.  A contract is any program: at each step the one on  *)
(* top of the invocation stack makes any call it likes, or returns.  A     *)
(* HostError at any depth ends the transaction.                            *)
(*                                                                         *)
(* Each contract has one storage key.  Gas is counted in units: every call *)
(* costs one, an invocation two.                                           *)
(***************************************************************************)
EXTENDS StorageView

CONSTANTS Addrs,      \* the contracts' addresses; some are not yet deployed
          Deployable, \* the contracts that a transaction carries
          Objects,    \* what the storage of a contract may hold before
          Memories, SetAdds, Adds, Elements,   \* the arguments of storage calls
          Increases, Thresholds, Indices,
          Values,     \* return values; 0 is an empty buffer
          Witnesses,  \* the witnesses that transactions have
          GasLimit,   \* gas_limit
          MaxTxs      \* transactions in a behaviour

ASSUME ExecutionAssumption ==
    /\ MaxInt \in Nat /\ StartSize \in Nat /\ MaxSize \in Nat /\ MaxLimit \in Nat
    /\ \A o \in Objects : IsObject(o)
    /\ SetAdds \subseteq (MinInt .. MaxInt) \X (MinInt .. MaxInt)
    /\ Adds \subseteq MinInt .. MaxInt
    /\ \A h \in Elements : h.index \in Nat
    /\ Increases \subseteq Nat /\ Thresholds \subseteq Nat

VARIABLES deployed,          \* the committed addresses
          storage,           \* the committed object of each contract
          cache,             \* StorageProxy: the views, of keys it has looked at
          status,            \* idle, running, pushing, SUCCESS or FAILURE
          invocation_stack,  \* frames
          active_runtimes,
          gas_used,
          return_buf,
          new_contracts, new_deployments,   \* ContractDBProxy
          logs,
          ret,               \* what the last call returned
          ntxs

vars == <<deployed, storage, cache, status, invocation_stack, active_runtimes, gas_used,
          return_buf, new_contracts, new_deployments, logs, ret, ntxs>>
context == <<cache, return_buf, new_contracts, new_deployments, logs>>
calls == <<invocation_stack, active_runtimes>>
global == <<deployed, storage, ntxs>>

\* calldata is its length.  History: what the frame returned, if it invoked
\* another afterwards, and if no frame below had returned anything.
Frame(addr, calldata) ==
    [addr |-> addr, calldata |-> calldata, result |-> 0, spoiled |-> FALSE,
     clean |-> \A i \in DOMAIN invocation_stack : invocation_stack[i].result = 0]

Init ==
    /\ deployed \in {{a} : a \in Addrs \ Deployable} \cup {Addrs \ Deployable}
    /\ storage \in [Addrs -> Objects]
    /\ \A a \in Addrs \ deployed : storage[a] = NoObject
    /\ cache = <<>>
    /\ status = "idle"
    /\ invocation_stack = <<>>
    /\ active_runtimes = {}
    /\ gas_used = 0
    /\ return_buf = 0
    /\ new_contracts = {} /\ new_deployments = {}
    /\ logs = 0
    /\ ret = 0
    /\ ntxs = 0

Top == invocation_stack[Len(invocation_stack)]
Self == Top.addr

\* get_local
View(a) == IF a \in DOMAIN cache THEN cache[a] ELSE Fresh(storage[a])
Look(a, view) == cache' = [x \in DOMAIN cache \cup {a} |-> IF x = a THEN view ELSE cache[x]]

\* ProxyApplicator::get
Get(a) == IF View(a).is_deleted THEN NoObject ELSE View(a).current

\* get_script: an address that the transaction deployed, or a committed one.
HasScript(a) == a \in deployed \cup new_deployments

HostError ==
    /\ status' = "FAILURE"
    /\ UNCHANGED <<global, context, calls, ret>>

\* consume_gas, before every call; the sum is capped here where it has no limit.
consume_gas(amount, Call) ==
    /\ status = "running"
    /\ gas_used' = Min({GasLimit, gas_used + amount})
    /\ IF gas_used + amount >= GasLimit THEN HostError ELSE Call

-----------------------------------------------------------------------------
(* execute and invoke_subroutine                                           *)

\* A contract is given a runtime when it is first invoked, and the frames of
\* one contract share it.
push_invocation_stack(frame) == invocation_stack' = Append(invocation_stack, frame)
pop_invocation_stack == SubSeq(invocation_stack, 1, Len(invocation_stack) - 1)

Invoke(frame) ==
    /\ HasScript(frame.addr)
    /\ active_runtimes' = active_runtimes \cup {frame.addr}
    /\ push_invocation_stack(frame)

Execute(a, calldata) ==
    /\ status = "idle"
    /\ ntxs < MaxTxs
    /\ ntxs' = ntxs + 1
    /\ \/ /\ Invoke(Frame(a, calldata))
          /\ status' = "running"
       \/ /\ ~HasScript(a)
          /\ status' = "FAILURE"
          /\ UNCHANGED calls
    /\ UNCHANGED <<deployed, storage, context, gas_used, ret>>

InvokeCall(a, calldata) ==
    consume_gas(2,
        IF HasScript(a)
        THEN /\ Invoke(Frame(a, calldata))
             /\ UNCHANGED <<status, global, context, ret>>
        ELSE HostError)

\* Mutant of FrameReturns: the buffer is not cleared.
FrameReturns_KeepsBuffer ==
    LET n == Len(invocation_stack)
    IN  /\ status = "running"
        /\ n > 1
        /\ invocation_stack' = [pop_invocation_stack EXCEPT ![n - 1].spoiled = TRUE]
        /\ ret' = return_buf
        /\ UNCHANGED <<global, context, active_runtimes, status, gas_used>>

\* invoke_subroutine returns to the INVOKE below, which takes the buffer.
FrameReturns ==
    LET n == Len(invocation_stack)
    IN  /\ status = "running"
        /\ n > 1
        /\ invocation_stack' = [pop_invocation_stack EXCEPT ![n - 1].spoiled = TRUE]
        /\ ret' = return_buf
        /\ return_buf' = 0
        /\ UNCHANGED <<global, cache, new_contracts, new_deployments, logs, active_runtimes,
                       status, gas_used>>

\* The root method returns.
RootReturns ==
    /\ status = "running"
    /\ Len(invocation_stack) = 1
    /\ invocation_stack' = pop_invocation_stack
    /\ status' = "pushing"
    /\ UNCHANGED <<global, context, active_runtimes, gas_used, ret>>

ViewDeltas(a) == IF a \in DOMAIN cache THEN GetDeltas(cache[a]) ELSE <<>>
Numbered(a) == DOMAIN ViewDeltas(a)

\* push_deltas_to_statedb for a transaction that is alone in its block.
Admitted(a) ==
    \A i \in Numbered(a) : Admits(storage[a], ViewDeltas(a), 1 .. i - 1, {}, i)

\* push_storage_deltas and commit, and the block that has this transaction.
Push ==
    /\ status = "pushing"
    /\ IF \A a \in Addrs : Admitted(a)
       THEN /\ status' = "SUCCESS"
            /\ storage' = [a \in Addrs |-> Outcome(storage[a], ViewDeltas(a), Numbered(a))]
            /\ deployed' = deployed \cup new_deployments
       ELSE status' = "FAILURE" /\ UNCHANGED <<storage, deployed>>
    /\ UNCHANGED <<context, calls, gas_used, ret, ntxs>>

\* extract_results and reset
Reset ==
    /\ status \in {"SUCCESS", "FAILURE"}
    /\ status' = "idle"
    /\ cache' = <<>>
    /\ invocation_stack' = <<>>
    /\ active_runtimes' = {}
    /\ gas_used' = 0
    /\ return_buf' = 0
    /\ new_contracts' = {} /\ new_deployments' = {}
    /\ logs' = 0
    /\ ret' = 0
    /\ UNCHANGED global

-----------------------------------------------------------------------------
(* syscall_handler                                                         *)

Returns(v) == ret' = v

\* A call on the storage of the contract that is running.
Storage(views) ==
    consume_gas(1,
        IF views = {} THEN HostError
        ELSE /\ \E v \in views : Look(Self, v)
             /\ Returns(0)
             /\ UNCHANGED <<status, global, calls, return_buf, new_contracts,
                            new_deployments, logs>>)

RAW_MEM_SET(v) == Storage(raw_memory_write(View(Self), v))
NNINT_SET_ADD(v, d) == Storage(nonnegative_int64_set_add(View(Self), v, d))
NNINT_ADD(d) == Storage(nonnegative_int64_add(View(Self), d))
HS_INSERT(h) == Storage(HashsetInsert(View(Self), h))
HS_INC_LIMIT(n) == Storage(hashset_increase_limit(View(Self), n))
HS_CLEAR(n) == Storage(HashsetClear(View(Self), n))
DELETE_KEY_LAST == Storage(delete_object_last(View(Self)))

\* A read: of a key that is absent, of another type, or the value.
Read(type, absent, value(_)) ==
    LET object == Get(Self)
    IN  consume_gas(1,
          IF object # NoObject /\ type # "any" /\ object.type # type THEN HostError
          ELSE /\ Look(Self, View(Self))
               /\ Returns(IF object = NoObject THEN absent ELSE value(object))
               /\ UNCHANGED <<status, global, calls, return_buf, new_contracts,
                              new_deployments, logs>>)

HAS_KEY == Read("any", 0, LAMBDA o : 1)
RAW_MEM_GET == Read("RAW_MEMORY", -1, LAMBDA o : o.value)
RAW_MEM_GET_LEN == Read("RAW_MEMORY", -1, LAMBDA o : 1)
NNINT_GET == Read("NONNEGATIVE_INT64", 0, LAMBDA o : o.value)
HS_GET_SIZE == Read("HASH_SET", 0, LAMBDA o : Cardinality(o.hashes))
HS_GET_MAX_SIZE == Read("HASH_SET", 0, LAMBDA o : o.max_size)

\* Elements are listed by falling index.  Position of the first one with an
\* index, and index of the one at a position: it must be there.
Above(object, i) == Cardinality({h \in object.hashes : h.index > i})
Entry(fails(_), value(_)) ==
    LET object == Get(Self)
    IN  consume_gas(1,
          IF object.type # "HASH_SET" \/ fails(object) THEN HostError
          ELSE /\ Look(Self, View(Self))
               /\ Returns(value(object))
               /\ UNCHANGED <<status, global, calls, return_buf, new_contracts,
                              new_deployments, logs>>)
HS_GET_INDEX_OF(i) ==
    Entry(LAMBDA o : \A h \in o.hashes : h.index # i, LAMBDA o : Above(o, i))
HS_GET_INDEX(n) ==
    Entry(LAMBDA o : Cardinality(o.hashes) <= n,
          LAMBDA o : Min({h.index : h \in {x \in o.hashes : Above(o, x.index) <= n}}))

\* The calls that touch nothing: they return the block, an address, a hash, a
\* slice of the calldata or a witness, whose bytes are not told apart, or fail.
Pure(fails, v) ==
    consume_gas(1,
        IF fails THEN HostError
        ELSE Returns(v) /\ UNCHANGED <<status, global, context, calls>>)
get_msg_sender == Pure(Len(invocation_stack) <= 1, 0)
GET_SENDER == get_msg_sender
GET_SELF_ADDR == Pure(FALSE, 0)
GET_SRC_TX_HASH == Pure(FALSE, 0)
GET_INVOKED_TX_HASH == Pure(FALSE, 0)
GET_BLOCK_NUMBER == Pure(FALSE, 0)
GET_CALLDATA(first, end) == Pure(Min({end, Top.calldata}) <= first, 0)
GET_CALLDATA_LEN == Pure(FALSE, Top.calldata)
get_witness(w, v) == Pure(w \notin Witnesses, v)
WITNESS_GET(w) == get_witness(w, w)
WITNESS_GET_LEN(w) == get_witness(w, 1)
HASH == Pure(FALSE, 0)
VERIFY_ED25519 == \E valid \in {0, 1} : Pure(FALSE, valid)

\* GAS, and the env functions memcmp, memset, memcpy and strnlen.
GAS == Pure(FALSE, 0)
EnvCall == Pure(FALSE, 0)

\* WRITE and WRITE_BYTES print, and are the calls that consume no gas.
Free == status = "running" /\ Returns(0) /\ UNCHANGED <<status, global, context, calls, gas_used>>
WRITE == Free
WRITE_BYTES == Free

\* A number that is none, and EXIT.
InvalidCall == Pure(TRUE, 0)

LOG ==
    consume_gas(1, /\ logs' = logs + 1
                   /\ Returns(0)
                   /\ UNCHANGED <<status, global, calls, cache, return_buf, new_contracts,
                                  new_deployments>>)

RETURN(v) ==
    consume_gas(1, /\ return_buf' = v
                   /\ invocation_stack' = [invocation_stack EXCEPT
                        ![Len(invocation_stack)].result = v,
                        ![Len(invocation_stack)].spoiled = FALSE]
                   /\ Returns(0)
                   /\ UNCHANGED <<status, global, active_runtimes, cache, new_contracts,
                                  new_deployments, logs>>)

\* The transaction has the contract, by index, or not.
CONTRACT_CREATE(c) ==
    consume_gas(1, IF c \notin Deployable THEN HostError
                   ELSE /\ new_contracts' = new_contracts \cup {c}
                        /\ Returns(0)
                        /\ UNCHANGED <<status, global, calls, cache, return_buf,
                                       new_deployments, logs>>)

\* A contract is deployed at an address of its own here.
CONTRACT_DEPLOY(c) ==
    consume_gas(1,
        IF c \notin new_contracts \cup deployed \/ c \in new_deployments THEN HostError
        ELSE /\ new_deployments' = new_deployments \cup {c}
             /\ Returns(0)
             /\ UNCHANGED <<status, global, calls, cache, return_buf, new_contracts, logs>>)

StorageCall ==
    \/ \E v \in Memories : RAW_MEM_SET(v)
    \/ \E x \in SetAdds : NNINT_SET_ADD(x[1], x[2])
    \/ \E d \in Adds : NNINT_ADD(d)
    \/ \E h \in Elements : HS_INSERT(h)
    \/ \E n \in Increases : HS_INC_LIMIT(n)
    \/ \E n \in Thresholds : HS_CLEAR(n)
    \/ DELETE_KEY_LAST
    \/ HAS_KEY \/ RAW_MEM_GET \/ RAW_MEM_GET_LEN \/ NNINT_GET
    \/ HS_GET_SIZE \/ HS_GET_MAX_SIZE
    \/ \E n \in Indices : HS_GET_INDEX_OF(n) \/ HS_GET_INDEX(n)

EnvironmentCall ==
    \/ GET_SENDER \/ GET_SELF_ADDR \/ GET_SRC_TX_HASH \/ GET_INVOKED_TX_HASH
    \/ GET_BLOCK_NUMBER \/ GET_CALLDATA(0, 1) \/ GET_CALLDATA_LEN
    \/ HASH \/ VERIFY_ED25519 \/ GAS \/ EnvCall \/ InvalidCall \/ LOG
    \/ WRITE \/ WRITE_BYTES
    \/ \E w \in Witnesses \cup {0} : WITNESS_GET(w) \/ WITNESS_GET_LEN(w)

ContractCall ==
    \/ \E v \in Values : RETURN(v)
    \/ \E c \in Addrs : CONTRACT_CREATE(c)
    \/ \E c \in Deployable : CONTRACT_DEPLOY(c)
    \/ \E a \in Addrs, n \in {0, 1} : InvokeCall(a, n)

Next ==
    \/ \E a \in Addrs, n \in {0, 1} : Execute(a, n)
    \/ StorageCall \/ EnvironmentCall \/ ContractCall
    \/ FrameReturns \/ RootReturns \/ Push \/ Reset

Spec == Init /\ [][Next]_vars

-----------------------------------------------------------------------------
(* Properties                                                              *)

\* A transaction reads its own writes: what it sees of a key is at every moment
\* what the block would leave there if it committed alone, but for the limit
\* of a hash set, which grows with the end of the block.
ViewIsOutcome ==
    \A a \in DOMAIN cache :
      LET after == Outcome(storage[a], ViewDeltas(a), Numbered(a))
      IN  status \in {"running", "pushing"} =>
            IF after.type = "HASH_SET" THEN Get(a).hashes = after.hashes ELSE Get(a) = after

\* A transaction that ran without a HostError fails in push_deltas_to_statedb
\* only on account of others: alone it is admitted, unless it inserted into
\* the room that it made itself by clearing a hash set.
AloneIsAdmitted ==
    status = "pushing" =>
      \A a \in DOMAIN cache : cache[a].hs_clear_threshold = {} => Admitted(a)

\* INVOKE gets what its callee returned last, and nothing if that is nothing,
\* as long as contracts return last: the callee invoked no other after RETURN
\* and none of its callers had called RETURN before they invoked.
InvokeReturns ==
    [][LET callee == Top
       IN  Len(invocation_stack') < Len(invocation_stack) /\ Len(invocation_stack) > 1
             /\ callee.clean /\ ~(callee.spoiled /\ callee.result # 0)
             /\ status = "running"
           => ret' = callee.result]_vars
=============================================================================
