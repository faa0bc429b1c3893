------------------------ MODULE TransactionProofs ------------------------
(***************************************************************************)
(* What transactions may rely on, for every set of contracts and objects,  *)
(* every program, every set of calls and any number of blocks.             *)
(*                                                                         *)
(* Of Execution: a transaction reads its own writes, is admitted when it   *)
(* is alone, and INVOKE gets what its callee returned.  Of Contracts: no   *)
(* payment is executed twice, and two calls that take one semaphore are    *)
(* not in one block.  Both rest on the same facts about views and deltas.  *)
(***************************************************************************)
EXTENDS Execution, Contracts, SumTheorems

-----------------------------------------------------------------------------
(* The invocation stack and the return buffer                              *)

\* While a transaction runs, the buffer is empty unless a frame has returned
\* something; a frame that returned last left it there.
StackInv ==
    /\ invocation_stack \in Seq([addr : Addrs, calldata : {0, 1}, result : Values \cup {0},
                                 spoiled : BOOLEAN, clean : BOOLEAN])
    /\ status \in {"idle", "running", "pushing", "SUCCESS", "FAILURE"}
    /\ status = "idle" => invocation_stack = <<>> /\ return_buf = 0
    /\ status = "running" => Len(invocation_stack) > 0
    /\ \A i, j \in DOMAIN invocation_stack :
         j < i /\ invocation_stack[i].clean => invocation_stack[j].result = 0
    /\ status = "running" =>
         /\ return_buf # 0 => \E i \in DOMAIN invocation_stack : invocation_stack[i].result # 0
         /\ Top.result # 0 /\ ~Top.spoiled => return_buf = Top.result

\* What the storage calls give a contract to see of its key: what was there, or
\* what a delta made of it.
GoodDelta(d) ==
    \/ d.type = "RAW_MEMORY_WRITE" /\ d = Write(d.data)
    \/ /\ d.type = "NONNEGATIVE_INT64_SET_ADD" /\ d = SetAdd(d.set_value, d.delta)
       /\ d.set_value \in MinInt .. MaxInt /\ d.delta \in Int
    \/ d.type = "HASH_SET_INSERT" /\ d = Insert(d.hash) /\ d.hash \in Elements
    \/ d.type = "HASH_SET_INCREASE_LIMIT" /\ d = IncreaseLimit(d.limit_increase) /\ d.limit_increase \in Nat
    \/ d.type = "HASH_SET_CLEAR" /\ d = Clear(d.threshold) /\ d.threshold \in Nat
    \/ d = DeleteLast
Sees(view, v) == v = view \/ \E d : GoodDelta(d) /\ v \in TryApply(view, d)

\* A system call that fails ends the transaction, one that does not leaves the
\* stack as it is, and changes the view of the contract's key at most.
Fails == status = "running" /\ status' = "FAILURE" /\ UNCHANGED <<global, context, calls>>
Works ==
    /\ status = "running" /\ status' = "running"
    /\ UNCHANGED <<global, calls, return_buf>>
    /\ \/ UNCHANGED cache
       \/ \E v : Sees(View(Self), v) /\ Look(Self, v)

\* A storage call that yields only views seen from the last fails or changes the
\* view of its own key at most.
LEMMA StorageWorks ==
  ASSUME NEW views, Storage(views), \A v \in views : Sees(View(Self), v)
  PROVE  Fails \/ Works
BY DEF Storage, consume_gas, HostError, Fails, Works

\* The deltas that the system calls make are of known types, with values in
\* range.
LEMMA GoodDeltas ==
  /\ \A v : GoodDelta(Write(v))
  /\ \A v \in MinInt .. MaxInt, d \in Int : GoodDelta(SetAdd(v, d))
  /\ \A h \in Elements : GoodDelta(Insert(h))
  /\ \A n \in Nat : GoodDelta(IncreaseLimit(n)) /\ GoodDelta(Clear(n))
  /\ GoodDelta(DeleteLast)
BY DEF GoodDelta, Write, SetAdd, Insert, IncreaseLimit, Clear, DeleteLast

\* Every storage call fails the transaction or changes the view of its key at
\* most.
LEMMA StorageCalls ==
  ASSUME StorageCall, BaseValues(View(Self)) \subseteq MinInt .. MaxInt
  PROVE  Fails \/ Works
<1>0. \A x \in SetAdds : x[1] \in MinInt .. MaxInt /\ x[2] \in Int
  BY ExecutionAssumption DEF MinInt
<1>1. ASSUME NEW v, RAW_MEM_SET(v) PROVE Fails \/ Works
  BY <1>1, StorageWorks, GoodDeltas DEF RAW_MEM_SET, raw_memory_write, Sees
<1>2. ASSUME NEW x \in SetAdds, NNINT_SET_ADD(x[1], x[2]) PROVE Fails \/ Works
  BY <1>0, <1>2, StorageWorks, GoodDeltas DEF NNINT_SET_ADD, nonnegative_int64_set_add, Sees
<1>3. ASSUME NEW d \in Adds, NNINT_ADD(d) PROVE Fails \/ Works
  <2>1. \A b \in BaseValues(View(Self)) : GoodDelta(SetAdd(b, d))
    BY GoodDeltas, ExecutionAssumption DEF MinInt
  <2> HIDE DEF NNINT_ADD
  <2>2. \A v \in nonnegative_int64_add(View(Self), d) : Sees(View(Self), v)
    BY <2>1 DEF nonnegative_int64_add, Sees
  <2> QED BY <1>3, <2>2, StorageWorks DEF NNINT_ADD
<1>4. ASSUME NEW h \in Elements, HS_INSERT(h) PROVE Fails \/ Works
  <2>1. GoodDelta(Insert(h))
    BY GoodDeltas
  <2> QED BY <1>4, <2>1, StorageWorks DEF HS_INSERT, HashsetInsert, Sees
<1>5. ASSUME NEW n \in Increases, HS_INC_LIMIT(n) PROVE Fails \/ Works
  <2>1. GoodDelta(IncreaseLimit(n))
    BY ExecutionAssumption, GoodDeltas
  <2>2. \A v \in hashset_increase_limit(View(Self), n) : Sees(View(Self), v)
    BY <2>1 DEF hashset_increase_limit, Sees
  <2> QED BY <1>5, <2>2, StorageWorks DEF HS_INC_LIMIT
<1>6. ASSUME NEW n \in Thresholds, HS_CLEAR(n) PROVE Fails \/ Works
  <2>1. GoodDelta(Clear(n))
    BY ExecutionAssumption, GoodDeltas
  <2> QED BY <1>6, <2>1, StorageWorks DEF HS_CLEAR, HashsetClear, Sees
<1>7. CASE DELETE_KEY_LAST
  BY <1>7, StorageWorks, GoodDeltas DEF DELETE_KEY_LAST, delete_object_last, Sees
<1>8. CASE HAS_KEY \/ RAW_MEM_GET \/ RAW_MEM_GET_LEN \/ NNINT_GET \/ HS_GET_SIZE \/ HS_GET_MAX_SIZE
  <2> USE DEF Read, consume_gas, HostError, Fails, Works, Sees
  <2>1. CASE HAS_KEY
    BY <2>1 DEF HAS_KEY
  <2>2. CASE RAW_MEM_GET
    BY <2>2 DEF RAW_MEM_GET
  <2>3. CASE RAW_MEM_GET_LEN
    BY <2>3 DEF RAW_MEM_GET_LEN
  <2>4. CASE NNINT_GET
    BY <2>4 DEF NNINT_GET
  <2>5. CASE HS_GET_SIZE
    BY <2>5 DEF HS_GET_SIZE
  <2>6. CASE HS_GET_MAX_SIZE
    BY <2>6 DEF HS_GET_MAX_SIZE
  <2> QED BY <1>8, <2>1, <2>2, <2>3, <2>4, <2>5, <2>6
<1>9. ASSUME NEW n \in Indices, HS_GET_INDEX_OF(n) \/ HS_GET_INDEX(n) PROVE Fails \/ Works
  BY <1>9 DEF HS_GET_INDEX_OF, HS_GET_INDEX, Entry, consume_gas, HostError, Fails, Works, Sees
<1> QED BY <1>1, <1>2, <1>3, <1>4, <1>5, <1>6, <1>7, <1>8, <1>9 DEF StorageCall

\* The calls that touch no storage.
LEMMA EnvironmentCalls ==
  ASSUME EnvironmentCall
  PROVE  Fails \/ Works
<1>1. ASSUME NEW fails, NEW v, Pure(fails, v) PROVE Fails \/ Works
  BY <1>1 DEF Pure, consume_gas, HostError, Fails, Works, context
<1>2. CASE LOG
  BY <1>2 DEF LOG, consume_gas, HostError, Fails, Works
<1>3. CASE WRITE \/ WRITE_BYTES
  BY <1>3 DEF WRITE, WRITE_BYTES, Free, Works, context
<1>4. CASE VERIFY_ED25519
  BY <1>1, <1>4 DEF VERIFY_ED25519
<1>5. ASSUME NEW w, WITNESS_GET(w) \/ WITNESS_GET_LEN(w) PROVE Fails \/ Works
  BY <1>1, <1>5 DEF WITNESS_GET, WITNESS_GET_LEN, get_witness
<1>6. CASE \/ GET_SENDER \/ GET_SELF_ADDR \/ GET_SRC_TX_HASH \/ GET_INVOKED_TX_HASH
           \/ GET_BLOCK_NUMBER \/ GET_CALLDATA(0, 1) \/ GET_CALLDATA_LEN
           \/ HASH \/ GAS \/ EnvCall \/ InvalidCall
  BY <1>1, <1>6 DEF GET_SENDER, get_msg_sender, GET_SELF_ADDR, GET_SRC_TX_HASH,
     GET_INVOKED_TX_HASH, GET_BLOCK_NUMBER, GET_CALLDATA, GET_CALLDATA_LEN, HASH, GAS,
     EnvCall, InvalidCall
<1> QED BY <1>2, <1>3, <1>4, <1>5, <1>6 DEF EnvironmentCall

\* Creating and deploying contracts leaves the stack and the buffer as they are.
LEMMA CreateCalls ==
  ASSUME NEW c, CONTRACT_CREATE(c) \/ CONTRACT_DEPLOY(c)
  PROVE  Fails \/ Works
BY DEF CONTRACT_CREATE, CONTRACT_DEPLOY, consume_gas, HostError, Fails, Works

-----------------------------------------------------------------------------
(* The stack                                                               *)

\* The elements of a sequence, and of one with an element replaced.
LEMMA ElementOf ==
  ASSUME NEW S, NEW s \in Seq(S)
  PROVE  \A i \in DOMAIN s : s[i] \in S
OBVIOUS

\* A sequence in which one element is replaced.
LEMMA ExceptElement ==
  ASSUME NEW S, NEW s \in Seq(S), NEW n \in 1 .. Len(s), NEW x \in S
  PROVE  LET t == [s EXCEPT ![n] = x]
         IN  /\ t \in Seq(S) /\ Len(t) = Len(s) /\ DOMAIN t = 1 .. Len(s)
             /\ t[n] = x /\ \A i \in 1 .. Len(s) : i # n => t[i] = s[i]
OBVIOUS

\* The outcomes of a step, as far as the stack, the buffer and the views go.
Pushes(frame) ==
    /\ invocation_stack' = Append(invocation_stack, frame)
    /\ status \in {"idle", "running"} /\ status' = "running"
    /\ UNCHANGED <<deployed, storage, cache, return_buf>>
    /\ \E a \in Addrs, n \in {0, 1} : frame = Frame(a, n)
Ends ==
    /\ status \in {"idle", "running"} /\ status' = "FAILURE"
    /\ UNCHANGED <<deployed, storage, context, calls>>
Puts(v) ==
    /\ status = "running" /\ status' = "running" /\ v \in Values
    /\ return_buf' = v
    /\ invocation_stack' = [invocation_stack EXCEPT ![Len(invocation_stack)].result = v,
                                                    ![Len(invocation_stack)].spoiled = FALSE]
    /\ UNCHANGED <<deployed, storage, cache>>

\* As far as the stack and the return buffer go, a step is one of these.
LEMMA NextCases ==
  ASSUME Next, status = "running" => BaseValues(View(Self)) \subseteq MinInt .. MaxInt
  PROVE  \/ \E frame : Pushes(frame)
         \/ \E v : Puts(v)
         \/ Ends \/ Works \/ FrameReturns \/ RootReturns \/ Push \/ Reset
<1>0. Fails => Ends
  BY DEF Fails, Ends, global
<1>1. ASSUME NEW a \in Addrs, NEW n \in {0, 1}, Execute(a, n) PROVE Ends \/ \E frame : Pushes(frame)
  BY <1>1 DEF Execute, Invoke, push_invocation_stack, Pushes, Ends, context
<1>2. CASE StorageCall
  <2>1. status = "running"
    BY <1>2 DEF StorageCall, RAW_MEM_SET, NNINT_SET_ADD, NNINT_ADD, HS_INSERT, HS_INC_LIMIT,
       HS_CLEAR, DELETE_KEY_LAST, HAS_KEY, RAW_MEM_GET, RAW_MEM_GET_LEN, NNINT_GET, HS_GET_SIZE,
       HS_GET_MAX_SIZE, HS_GET_INDEX_OF, HS_GET_INDEX, Storage, Read, Entry, consume_gas
  <2> QED BY <1>0, <1>2, <2>1, StorageCalls
<1>3. CASE EnvironmentCall
  BY <1>0, <1>3, EnvironmentCalls
<1>4. ASSUME NEW c, CONTRACT_CREATE(c) \/ CONTRACT_DEPLOY(c) PROVE Ends \/ Works
  BY <1>0, <1>4, CreateCalls
<1>5. ASSUME NEW v \in Values, RETURN(v) PROVE Ends \/ Puts(v)
  BY <1>5 DEF RETURN, consume_gas, HostError, Ends, Puts, global
<1>6. ASSUME NEW a \in Addrs, NEW n \in {0, 1}, InvokeCall(a, n)
      PROVE  Ends \/ \E frame : Pushes(frame)
  BY <1>6 DEF InvokeCall, consume_gas, HostError, Invoke, push_invocation_stack, Pushes, Ends,
              context, global
<1>7. CASE ContractCall
  BY <1>4, <1>5, <1>6, <1>7 DEF ContractCall
<1> QED BY <1>1, <1>2, <1>3, <1>7 DEF Next

\* A frame comes to lie on frames that have returned nothing, or it is not clean.
LEMMA PushesStack ==
  ASSUME StackInv, NEW frame, Pushes(frame)
  PROVE  StackInv'
<1> DEFINE S == [addr : Addrs, calldata : {0, 1}, result : Values \cup {0},
                 spoiled : BOOLEAN, clean : BOOLEAN]
           n == Len(invocation_stack)
<1>1. PICK a \in Addrs, m \in {0, 1} : frame = Frame(a, m)
  BY DEF Pushes
<1>2. /\ frame \in S /\ frame.result = 0
      /\ frame.clean => \A i \in DOMAIN invocation_stack : invocation_stack[i].result = 0
  BY <1>1 DEF Frame
<1>3. invocation_stack \in Seq(S) /\ n \in Nat /\ DOMAIN invocation_stack = 1 .. n
  BY DEF StackInv
<1> HIDE DEF S
<1>4. /\ invocation_stack' \in Seq(S) /\ Len(invocation_stack') = n + 1
      /\ DOMAIN invocation_stack' = 1 .. n + 1
      /\ \A i \in 1 .. n : invocation_stack'[i] = invocation_stack[i]
      /\ invocation_stack'[n + 1] = frame
  BY <1>2, <1>3 DEF Pushes
<1>5. Top' = frame
  BY <1>4 DEF Top
<1>6. /\ status' = "running" /\ return_buf' = return_buf
      /\ status \in {"idle", "running"}
  BY DEF Pushes
<1>7. ASSUME NEW i \in 1 .. n + 1, NEW j \in 1 .. n + 1, j < i, invocation_stack'[i].clean
      PROVE  invocation_stack'[j].result = 0
  <2>1. j \in 1 .. n
    BY <1>3, <1>7
  <2>2. CASE i = n + 1
    BY <1>2, <1>3, <1>4, <1>7, <2>1, <2>2
  <2>3. CASE i \in 1 .. n
    BY <1>3, <1>4, <1>7, <2>1, <2>3 DEF StackInv
  <2> QED BY <1>3, <2>2, <2>3
<1>8. return_buf' # 0 => \E i \in 1 .. n + 1 : invocation_stack'[i].result # 0
  <2> SUFFICES ASSUME return_buf # 0 PROVE \E i \in 1 .. n : invocation_stack[i].result # 0
    BY <1>3, <1>4, <1>6
  <2> QED BY <1>3, <1>6 DEF StackInv
<1> QED BY <1>2, <1>3, <1>4, <1>5, <1>6, <1>7, <1>8 DEF StackInv, S

\* RETURN: the frame on top has returned last.
LEMMA PutsStack ==
  ASSUME StackInv, NEW v, Puts(v)
  PROVE  StackInv' /\ Len(invocation_stack') = Len(invocation_stack)
<1> DEFINE S == [addr : Addrs, calldata : {0, 1}, result : Values \cup {0},
                 spoiled : BOOLEAN, clean : BOOLEAN]
           n == Len(invocation_stack)
<1>1. /\ invocation_stack \in Seq(S) /\ n \in Nat /\ n > 0 /\ DOMAIN invocation_stack = 1 .. n
      /\ status' = "running" /\ return_buf' = v /\ v \in Values
  BY DEF StackInv, Puts
<1>2. invocation_stack[n] \in S
  BY <1>1, ElementOf, n \in 1 .. n
<1> DEFINE top == [invocation_stack[n] EXCEPT !.result = v, !.spoiled = FALSE]
<1>3. top \in S /\ top.result = v /\ top.clean = invocation_stack[n].clean
  BY <1>1, <1>2
<1>4. invocation_stack' = [invocation_stack EXCEPT ![n] = top]
  BY <1>1 DEF Puts
<1> HIDE DEF S, top
<1>5. /\ invocation_stack' \in Seq(S) /\ Len(invocation_stack') = n
      /\ DOMAIN invocation_stack' = 1 .. n
      /\ \A i \in 1 .. n - 1 : invocation_stack'[i] = invocation_stack[i]
      /\ invocation_stack'[n] = top
  <2>1. n \in 1 .. n
    BY <1>1
  <2> DEFINE t == [invocation_stack EXCEPT ![n] = top]
  <2>2. /\ t \in Seq(S) /\ Len(t) = n /\ DOMAIN t = 1 .. n
        /\ t[n] = top /\ \A i \in 1 .. n : i # n => t[i] = invocation_stack[i]
    BY <1>1, <1>3, <2>1, ExceptElement, Zenon
  <2> HIDE DEF t
  <2>3. invocation_stack' = t
    BY <1>4 DEF t
  <2> HIDE DEF n
  <2>4. \A i \in 1 .. n - 1 : i \in 1 .. n /\ i # n
    BY <1>1
  <2> QED BY <2>2, <2>3, <2>4, Zenon
<1>6. Top' = top
  BY <1>5 DEF Top
<1>7. ASSUME NEW i \in 1 .. n, NEW j \in 1 .. n, j < i, invocation_stack'[i].clean
      PROVE  invocation_stack'[j].result = 0
  <2>1. j \in 1 .. n - 1 /\ invocation_stack[i].clean
    BY <1>1, <1>3, <1>5, <1>7
  <2> QED BY <1>1, <1>5, <1>7, <2>1 DEF StackInv
<1> QED BY <1>1, <1>3, <1>5, <1>6, <1>7 DEF StackInv, S

\* A step that leaves stack and buffer alone.
LEMMA SameStack ==
  ASSUME StackInv, UNCHANGED <<invocation_stack, return_buf>>,
         status' = status \/ status' = "FAILURE" \/ status' = "SUCCESS"
  PROVE  StackInv'
BY DEF StackInv, Top

\* A frame is gone: the buffer is empty, and the frame below has invoked another.
LEMMA FrameStack ==
  ASSUME StackInv, FrameReturns
  PROVE  /\ StackInv' /\ Len(invocation_stack') = Len(invocation_stack) - 1
<1> DEFINE S == [addr : Addrs, calldata : {0, 1}, result : Values \cup {0},
                 spoiled : BOOLEAN, clean : BOOLEAN]
           n == Len(invocation_stack)
           p == SubSeq(invocation_stack, 1, n - 1)
           t == [p EXCEPT ![n - 1].spoiled = TRUE]
<1>1. /\ invocation_stack \in Seq(S) /\ n \in Nat /\ n > 1 /\ DOMAIN invocation_stack = 1 .. n
      /\ status = "running" /\ status' = "running" /\ return_buf' = 0
      /\ invocation_stack' = t
  BY DEF StackInv, FrameReturns, pop_invocation_stack
<1> HIDE DEF S
<1>2. /\ p \in Seq(S) /\ Len(p) = n - 1 /\ DOMAIN p = 1 .. n - 1
      /\ \A i \in 1 .. n - 1 : p[i] = invocation_stack[i]
  BY <1>1
<1> HIDE DEF p
<1>3. p[n - 1] \in S /\ n - 1 \in 1 .. Len(p)
  BY <1>1, <1>2, ElementOf, n - 1 \in 1 .. n - 1
<1> DEFINE x == [p[n - 1] EXCEPT !.spoiled = TRUE]
<1>4. x \in S /\ x.result = p[n - 1].result /\ x.clean = p[n - 1].clean /\ x.spoiled
  BY <1>3 DEF S
<1>5. t = [p EXCEPT ![n - 1] = x]
  BY <1>1, <1>2
<1> HIDE DEF x
<1> DEFINE u == [p EXCEPT ![n - 1] = x]
<1>6. /\ u \in Seq(S) /\ Len(u) = Len(p) /\ DOMAIN u = 1 .. Len(p)
      /\ u[n - 1] = x /\ \A i \in 1 .. Len(p) : i # n - 1 => u[i] = p[i]
  BY <1>2, <1>3, <1>4, ExceptElement, Zenon
<1> HIDE DEF u, t
<1>7. invocation_stack' = u
  BY <1>1, <1>5 DEF u
<1>8. /\ invocation_stack' \in Seq(S) /\ Len(invocation_stack') = n - 1
      /\ DOMAIN invocation_stack' = 1 .. n - 1
      /\ invocation_stack'[n - 1] = x
      /\ \A i \in 1 .. n - 1 : /\ invocation_stack'[i].result = invocation_stack[i].result
                               /\ invocation_stack'[i].clean = invocation_stack[i].clean
  <2>1. \A i \in 1 .. n - 1 : /\ u[i].result = invocation_stack[i].result
                              /\ u[i].clean = invocation_stack[i].clean
    <3> TAKE i \in 1 .. n - 1
    <3>1. CASE i = n - 1
      BY <1>2, <1>4, <1>6, <3>1
    <3>2. CASE i # n - 1
      BY <1>2, <1>6, <3>2
    <3> QED BY <3>1, <3>2
  <2> QED BY <1>2, <1>6, <1>7, <2>1
<1>9. Top' = x
  BY <1>8 DEF Top
<1>10. ASSUME NEW i \in 1 .. n - 1, NEW j \in 1 .. n - 1, j < i, invocation_stack'[i].clean
       PROVE  invocation_stack'[j].result = 0
  <2>1. i \in 1 .. n /\ j \in 1 .. n
    BY <1>1
  <2> QED BY <1>1, <1>8, <1>10, <2>1 DEF StackInv
<1>11. n - 1 > 0
  BY <1>1
<1> QED BY <1>1, <1>4, <1>8, <1>9, <1>10, <1>11 DEF StackInv, S

\* The return of the root frame keeps the stack's invariant.
LEMMA RootStack ==
  ASSUME StackInv, RootReturns
  PROVE  StackInv'
<1> DEFINE S == [addr : Addrs, calldata : {0, 1}, result : Values \cup {0},
                 spoiled : BOOLEAN, clean : BOOLEAN]
<1>1. /\ invocation_stack \in Seq(S) /\ status' = "pushing" /\ Len(invocation_stack) = 1
      /\ invocation_stack' = SubSeq(invocation_stack, 1, Len(invocation_stack) - 1)
  BY DEF StackInv, RootReturns, pop_invocation_stack
<1> HIDE DEF S
<1>2. invocation_stack' \in Seq(S) /\ Len(invocation_stack') = 0 /\ DOMAIN invocation_stack' = {}
  BY <1>1
<1> QED BY <1>1, <1>2 DEF StackInv, S

\* reset
LEMMA ResetStack ==
  ASSUME StackInv, Reset
  PROVE  StackInv'
BY DEF StackInv, Reset

\* The stack's invariant holds of a transaction that has not begun.
LEMMA StackInit == Init => StackInv
BY DEF Init, StackInv

\* Every step keeps it, if the base of an integer is one.
LEMMA StackStep ==
  ASSUME StackInv, [Next]_vars,
         status = "running" => BaseValues(View(Self)) \subseteq MinInt .. MaxInt
  PROVE  StackInv'
<1>1. CASE Next
  <2>1. CASE \E frame : Pushes(frame)
    BY <2>1, PushesStack
  <2>2. CASE \E v : Puts(v)
    BY <2>2, PutsStack
  <2>3. CASE Ends \/ Works \/ Push
    <3>1. UNCHANGED <<invocation_stack, return_buf>>
      BY <2>3 DEF Ends, Works, Push, context, calls
    <3>2. status' = status \/ status' = "FAILURE" \/ status' = "SUCCESS"
      BY <2>3 DEF Ends, Works, Push
    <3> QED BY <3>1, <3>2, SameStack
  <2>4. CASE FrameReturns
    BY <2>4, FrameStack
  <2>5. CASE RootReturns
    BY <2>5, RootStack
  <2>6. CASE Reset
    BY <2>6, ResetStack
  <2> QED BY <1>1, <2>1, <2>2, <2>3, <2>4, <2>5, <2>6, NextCases
<1>2. CASE UNCHANGED vars
  BY <1>2, SameStack DEF vars
<1> QED BY <1>1, <1>2

\* Only the return of a frame shortens a stack of two or more while the
\* transaction runs.
LEMMA ShorterIsReturn ==
  ASSUME StackInv, Next, status = "running", Len(invocation_stack) > 1,
         Len(invocation_stack') < Len(invocation_stack),
         BaseValues(View(Self)) \subseteq MinInt .. MaxInt
  PROVE  FrameReturns
<1>0. Len(invocation_stack) \in Nat
  BY DEF StackInv
<1>1. ASSUME NEW frame, Pushes(frame) PROVE FALSE
  <2>1. Len(invocation_stack') = Len(invocation_stack) + 1
    <3> DEFINE S == [addr : Addrs, calldata : {0, 1}, result : Values \cup {0},
                     spoiled : BOOLEAN, clean : BOOLEAN]
    <3>1. invocation_stack \in Seq(S) /\ invocation_stack' = Append(invocation_stack, frame)
      BY <1>1 DEF StackInv, Pushes
    <3> HIDE DEF S
    <3> QED BY <3>1
  <2> QED BY <1>0, <2>1
<1>2. ASSUME NEW v, Puts(v) PROVE FALSE
  BY <1>0, <1>2, PutsStack
<1>3. ASSUME Ends \/ Works PROVE FALSE
  BY <1>0, <1>3 DEF Ends, Works, calls
<1>4. ASSUME RootReturns PROVE FALSE
  <2>1. Len(invocation_stack) = 1
    BY <1>4 DEF RootReturns
  <2> QED BY <1>0, <2>1
<1>5. ASSUME Push \/ Reset PROVE FALSE
  BY <1>5 DEF Push, Reset
<1> QED BY <1>1, <1>2, <1>3, <1>4, <1>5, NextCases

\* What the INVOKE below gets when a frame returns.
LEMMA FrameResult ==
  ASSUME StackInv, FrameReturns, Top.clean, ~(Top.spoiled /\ Top.result # 0)
  PROVE  ret' = Top.result
<1> DEFINE n == Len(invocation_stack)
<1>1. /\ n \in Nat /\ n > 1 /\ DOMAIN invocation_stack = 1 .. n /\ status = "running"
      /\ ret' = return_buf /\ Top = invocation_stack[n]
  BY DEF StackInv, FrameReturns, Top
<1> HIDE DEF n
<1>2. CASE Top.result # 0
  BY <1>1, <1>2 DEF StackInv
<1>3. CASE Top.result = 0
  <2>1. \A j \in 1 .. n : invocation_stack[j].result = 0
    <3> TAKE j \in 1 .. n
    <3>1. CASE j = n
      BY <1>1, <1>3, <3>1
    <3>2. CASE j # n
      <4>1. j < n /\ n \in DOMAIN invocation_stack /\ j \in DOMAIN invocation_stack
        BY <1>1, <3>2
      <4> QED BY <1>1, <4>1 DEF StackInv
    <3> QED BY <3>1, <3>2
  <2>2. return_buf = 0
    BY <1>1, <2>1 DEF StackInv
  <2> QED BY <1>1, <1>3, <2>2
<1> QED BY <1>2, <1>3

-----------------------------------------------------------------------------
(* The views                                                               *)

\* A view by what the transaction has done to the key: nothing yet, or one kind
\* of deltas; what is there to see if it has not deleted the object.
NoInts(v) == v.nnint64_delta = {}
NoWrites(v) == v.memory_write = {}
NoHashes(v) == v.hs_size_increase = {} /\ v.new_hashes = <<>> /\ v.hs_clear_threshold = {}
Shows(v, object) == ~v.is_deleted => v.current = object

Untouched(o, v) == NoWrites(v) /\ NoInts(v) /\ NoHashes(v) /\ Shows(v, o)

Written(o, v) ==
    /\ NoInts(v) /\ NoHashes(v)
    /\ o = NoObject \/ o.type = "RAW_MEMORY"
    /\ \E d : v.memory_write = {d} /\ Shows(v, [type |-> "RAW_MEMORY", value |-> d])

Added(o, v) ==
    /\ NoWrites(v) /\ NoHashes(v)
    /\ o = NoObject \/ o.type = "NONNEGATIVE_INT64"
    /\ \E s \in MinInt .. MaxInt, x \in Int :
         /\ v.nnint64_delta = {[set_value |-> s, delta |-> x]}
         /\ x < 0 => s + x >= 0
         /\ Shows(v, [type |-> "NONNEGATIVE_INT64", value |-> Min({MaxInt, s + x})])

\* The elements that were ever in the set, and what is left of them.
Members(o, v) == Hashes(o) \cup Range(v.new_hashes)
Left(o, v) == {h \in Members(o, v) : \A t \in v.hs_clear_threshold : h.index > t}
AtMostOne(S) == S = {} \/ \E n \in Nat : S = {n}

\* Without a clear there is room for what was inserted, and all of it is new.
HasRoom(o, v) ==
    v.hs_clear_threshold = {} =>
      /\ \A i, j \in DOMAIN v.new_hashes : i # j => v.new_hashes[i] # v.new_hashes[j]
      /\ \A i \in DOMAIN v.new_hashes : v.new_hashes[i] \notin Hashes(o)
      /\ Cardinality(Members(o, v)) = Cardinality(Hashes(o)) + Len(v.new_hashes)
      /\ v.new_hashes # <<>> => Cardinality(Hashes(o)) + Len(v.new_hashes) <= SizeLimit(o)

Hashed(o, v) ==
    /\ NoWrites(v) /\ NoInts(v) /\ ~NoHashes(v)
    /\ o = NoObject \/ o.type = "HASH_SET"
    /\ v.new_hashes \in Seq(Elements) /\ IsFiniteSet(Members(o, v))
    /\ AtMostOne(v.hs_size_increase) /\ AtMostOne(v.hs_clear_threshold)
    /\ HasRoom(o, v)
    /\ Shows(v, [type |-> "HASH_SET", hashes |-> Left(o, v), max_size |-> SizeLimit(o)])

Recs(c, m, n, i, h, t, x) ==
    [current : {c}, memory_write : {m}, nnint64_delta : {n}, hs_size_increase : {i},
     new_hashes : {h}, hs_clear_threshold : {t}, delta : {{}}, is_deleted : {x}]
IsRec(v) ==
    v \in Recs(v.current, v.memory_write, v.nnint64_delta, v.hs_size_increase, v.new_hashes,
               v.hs_clear_threshold, v.is_deleted)

ViewOK(o, v) ==
    /\ IsRec(v)
    /\ v.is_deleted \in BOOLEAN
    /\ v.is_deleted => v.current = NoObject
    /\ Untouched(o, v) \/ Written(o, v) \/ Added(o, v) \/ Hashed(o, v)

ViewInv ==
    /\ DOMAIN storage = Addrs /\ \A a \in Addrs : IsObject(storage[a])
    /\ DOMAIN cache \subseteq Addrs
    /\ status = "idle" => cache = <<>>
    /\ status \in {"running", "pushing"} => \A a \in DOMAIN cache : ViewOK(storage[a], cache[a])

\* The inductive invariant of a transaction.
IInv == StackInv /\ ViewInv

\* A set with at most one number has it as its least.
LEMMA MinOne ==
  ASSUME NEW a \in Int
  PROVE  Min({a}) = a
<1>1. a \in {a} /\ \A y \in {a} : a <= y
  OBVIOUS
<1>2. Min({a}) \in {a} /\ \A y \in {a} : Min({a}) <= y
  BY <1>1, Zenon DEF Min
<1> QED BY <1>2

\* What a change of some fields makes of a view.
LEMMA RecExcept ==
  ASSUME NEW v, IsRec(v), NEW c, NEW e
  PROVE  /\ [v EXCEPT !.is_deleted = TRUE, !.current = c] \in
              Recs(c, v.memory_write, v.nnint64_delta, v.hs_size_increase, v.new_hashes,
                   v.hs_clear_threshold, TRUE)
         /\ [v EXCEPT !.memory_write = e, !.current = c] \in
              Recs(c, e, v.nnint64_delta, v.hs_size_increase, v.new_hashes,
                   v.hs_clear_threshold, v.is_deleted)
         /\ [v EXCEPT !.nnint64_delta = e, !.current = c] \in
              Recs(c, v.memory_write, e, v.hs_size_increase, v.new_hashes,
                   v.hs_clear_threshold, v.is_deleted)
         /\ [v EXCEPT !.current = c, !.hs_size_increase = e] \in
              Recs(c, v.memory_write, v.nnint64_delta, e, v.new_hashes,
                   v.hs_clear_threshold, v.is_deleted)
         /\ [v EXCEPT !.current = c, !.new_hashes = e] \in
              Recs(c, v.memory_write, v.nnint64_delta, v.hs_size_increase, e,
                   v.hs_clear_threshold, v.is_deleted)
         /\ [v EXCEPT !.current = c, !.hs_clear_threshold = e] \in
              Recs(c, v.memory_write, v.nnint64_delta, v.hs_size_increase, v.new_hashes,
                   e, v.is_deleted)
<1> DEFINE d == v.current  m == v.memory_write  n == v.nnint64_delta  i == v.hs_size_increase
           h == v.new_hashes  t == v.hs_clear_threshold  x == v.is_deleted
<1>1. v \in Recs(d, m, n, i, h, t, x)
  BY DEF IsRec
<1> HIDE DEF d, m, n, i, h, t, x
<1>2. [v EXCEPT !.is_deleted = TRUE, !.current = c] \in Recs(c, m, n, i, h, t, TRUE)
  BY <1>1 DEF Recs
<1>3. [v EXCEPT !.memory_write = e, !.current = c] \in Recs(c, e, n, i, h, t, x)
  BY <1>1 DEF Recs
<1>4. [v EXCEPT !.nnint64_delta = e, !.current = c] \in Recs(c, m, e, i, h, t, x)
  BY <1>1 DEF Recs
<1>5. [v EXCEPT !.current = c, !.hs_size_increase = e] \in Recs(c, m, n, e, h, t, x)
  BY <1>1 DEF Recs
<1>6. [v EXCEPT !.current = c, !.new_hashes = e] \in Recs(c, m, n, i, e, t, x)
  BY <1>1 DEF Recs
<1>7. [v EXCEPT !.current = c, !.hs_clear_threshold = e] \in Recs(c, m, n, i, h, e, x)
  BY <1>1 DEF Recs
<1> QED BY <1>2, <1>3, <1>4, <1>5, <1>6, <1>7, Zenon DEF d, m, n, i, h, t, x

\* The fields of a view that is given by its parts.
LEMMA RecsFields ==
  ASSUME NEW w, NEW c, NEW m, NEW n, NEW i, NEW h, NEW t, NEW x, w \in Recs(c, m, n, i, h, t, x)
  PROVE  /\ w.current = c /\ w.memory_write = m /\ w.nnint64_delta = n /\ w.hs_size_increase = i
         /\ w.new_hashes = h /\ w.hs_clear_threshold = t /\ w.is_deleted = x /\ IsRec(w)
BY DEF Recs, IsRec

\* A view that nothing was done to is the committed object.
LEMMA FreshView ==
  ASSUME NEW o
  PROVE  ViewOK(o, Fresh(o))
BY DEF ViewOK, Fresh, IsRec, Recs, Untouched, NoWrites, NoInts, NoHashes, Shows

\* try_apply, by the type of the delta.
LEMMA TryApplyIs ==
  ASSUME NEW v, NEW d
  PROVE  /\ d.type = "DELETE_LAST" =>
              TryApply(v, d) = {[v EXCEPT !.is_deleted = TRUE, !.current = NoObject]}
         /\ d.type # "DELETE_LAST" /\ (v.is_deleted \/ ~TypeGuard(v, d)) => TryApply(v, d) = {}
         /\ ~v.is_deleted /\ TypeGuard(v, d) =>
              /\ d.type = "RAW_MEMORY_WRITE" =>
                   TryApply(v, d) =
                     {[v EXCEPT !.memory_write = {d.data},
                                !.current = [type |-> "RAW_MEMORY", value |-> d.data]]}
              /\ d.type = "NONNEGATIVE_INT64_SET_ADD" => TryApply(v, d) = ApplySetAdd(v, d)
              /\ d.type = "HASH_SET_INSERT" => TryApply(v, d) = ApplyInsert(v, d)
              /\ d.type = "HASH_SET_INCREASE_LIMIT" => TryApply(v, d) = ApplyIncreaseLimit(v, d)
              /\ d.type = "HASH_SET_CLEAR" => TryApply(v, d) = ApplyClear(v, d)
<1> DEFINE deleted == [v EXCEPT !.is_deleted = TRUE, !.current = NoObject]
           written == [v EXCEPT !.memory_write = {d.data},
                                !.current = [type |-> "RAW_MEMORY", value |-> d.data]]
<1>1. TryApply(v, d) =
        IF d.type = "DELETE_LAST" THEN {deleted}
        ELSE IF v.is_deleted \/ ~TypeGuard(v, d) THEN {}
        ELSE CASE d.type = "RAW_MEMORY_WRITE" -> {written}
               [] d.type = "NONNEGATIVE_INT64_SET_ADD" -> ApplySetAdd(v, d)
               [] d.type = "HASH_SET_INSERT" -> ApplyInsert(v, d)
               [] d.type = "HASH_SET_INCREASE_LIMIT" -> ApplyIncreaseLimit(v, d)
               [] d.type = "HASH_SET_CLEAR" -> ApplyClear(v, d)
               [] d.type = "ASSET_OBJECT_ADD" -> ApplyAssetAdd(v, d)
  BY Zenon DEF TryApply
<1> HIDE DEF deleted, written
<1>2. /\ d.type = "DELETE_LAST" => TryApply(v, d) = {deleted}
      /\ d.type # "DELETE_LAST" /\ (v.is_deleted \/ ~TypeGuard(v, d)) => TryApply(v, d) = {}
  BY <1>1
<1>3. ~v.is_deleted /\ TypeGuard(v, d) =>
              /\ d.type = "RAW_MEMORY_WRITE" => TryApply(v, d) = {written}
              /\ d.type = "NONNEGATIVE_INT64_SET_ADD" => TryApply(v, d) = ApplySetAdd(v, d)
              /\ d.type = "HASH_SET_INSERT" => TryApply(v, d) = ApplyInsert(v, d)
              /\ d.type = "HASH_SET_INCREASE_LIMIT" => TryApply(v, d) = ApplyIncreaseLimit(v, d)
              /\ d.type = "HASH_SET_CLEAR" => TryApply(v, d) = ApplyClear(v, d)
  BY <1>1
<1> QED BY <1>2, <1>3, Zenon DEF deleted, written

\* delete_object_last
LEMMA DeleteView ==
  ASSUME NEW o, NEW v, ViewOK(o, v), NEW w \in TryApply(v, DeleteLast)
  PROVE  ViewOK(o, w)
<1>1. w = [v EXCEPT !.is_deleted = TRUE, !.current = NoObject]
  <2>1. DeleteLast.type = "DELETE_LAST"
    BY DEF DeleteLast
  <2>2. TryApply(v, DeleteLast) = {[v EXCEPT !.is_deleted = TRUE, !.current = NoObject]}
    BY <2>1, TryApplyIs
  <2> QED BY <2>2
<1>2. /\ w.memory_write = v.memory_write /\ w.nnint64_delta = v.nnint64_delta
      /\ w.hs_size_increase = v.hs_size_increase /\ w.new_hashes = v.new_hashes
      /\ w.hs_clear_threshold = v.hs_clear_threshold
      /\ w.is_deleted = TRUE /\ w.current = NoObject
      /\ IsRec(w)
  <2>1. w \in Recs(NoObject, v.memory_write, v.nnint64_delta, v.hs_size_increase, v.new_hashes,
                v.hs_clear_threshold, TRUE)
    BY <1>1, RecExcept, Zenon DEF ViewOK
  <2>2. w.is_deleted = TRUE /\ w.current = NoObject
    BY <2>1 DEF Recs
  <2>3. IsRec(w)
    BY <2>1 DEF Recs, IsRec
  <2> QED BY <2>1, <2>2, <2>3 DEF Recs
<1>3. CASE Untouched(o, v)
  BY <1>2, <1>3 DEF ViewOK, Untouched, NoWrites, NoInts, NoHashes, Shows
<1>4. CASE Written(o, v)
  BY <1>2, <1>4 DEF ViewOK, Written, NoInts, NoHashes, Shows
<1>5. CASE Added(o, v)
  <2>1. Added(o, w)
    BY <1>2, <1>5 DEF Added, NoWrites, NoHashes, Shows
  <2> QED BY <1>2, <2>1 DEF ViewOK
<1>6. CASE Hashed(o, v)
  <2>1. Hashed(o, w)
    BY <1>2, <1>6 DEF Hashed, NoWrites, NoInts, NoHashes, Shows, Members, HasRoom
  <2> QED BY <1>2, <2>1 DEF ViewOK
<1> QED BY <1>3, <1>4, <1>5, <1>6 DEF ViewOK

\* The type guard: a view that has deltas of a kind shows an object of its type.
LEMMA GuardKind ==
  ASSUME NEW o, NEW v, ViewOK(o, v), ~v.is_deleted
  PROVE  /\ Untouched(o, v) => v.current = o
         /\ Written(o, v) => v.current.type = "RAW_MEMORY" /\ v.current # NoObject
         /\ Added(o, v) => v.current.type = "NONNEGATIVE_INT64" /\ v.current # NoObject
         /\ Hashed(o, v) => v.current.type = "HASH_SET" /\ v.current # NoObject
<1>1. Untouched(o, v) => v.current = o
  BY DEF Untouched, Shows
<1>2. Written(o, v) => v.current.type = "RAW_MEMORY"
  BY DEF Written, Shows
<1>3. Added(o, v) => v.current.type = "NONNEGATIVE_INT64"
  BY DEF Added, Shows
<1>4. Hashed(o, v) => v.current.type = "HASH_SET"
  BY DEF Hashed, Shows
<1> QED BY <1>1, <1>2, <1>3, <1>4 DEF NoObject

\* raw_memory_write
LEMMA WriteView ==
  ASSUME NEW o, NEW v, ViewOK(o, v), NEW x, NEW w \in TryApply(v, Write(x))
  PROVE  ViewOK(o, w)
<1>0. Write(x).type = "RAW_MEMORY_WRITE" /\ Write(x).data = x
  BY DEF Write
<1>1. ~v.is_deleted /\ (v.current = NoObject \/ v.current.type = "RAW_MEMORY")
  <2>1. ~v.is_deleted /\ TypeGuard(v, Write(x))
    BY <1>0, TryApplyIs
  <2> QED BY <1>0, <2>1 DEF TypeGuard, DeltaTypes
<1>2. w = [v EXCEPT !.memory_write = {x}, !.current = [type |-> "RAW_MEMORY", value |-> x]]
  <2>1. TypeGuard(v, Write(x))
    BY <1>0, <1>1 DEF TypeGuard, DeltaTypes
  <2>2. TryApply(v, Write(x)) =
          {[v EXCEPT !.memory_write = {Write(x).data},
                     !.current = [type |-> "RAW_MEMORY", value |-> Write(x).data]]}
    BY <1>0, <1>1, <2>1, TryApplyIs, Zenon
  <2> QED BY <1>0, <2>2, Zenon
<1>3. /\ w.memory_write = {x} /\ w.nnint64_delta = v.nnint64_delta
      /\ w.hs_size_increase = v.hs_size_increase /\ w.new_hashes = v.new_hashes
      /\ w.hs_clear_threshold = v.hs_clear_threshold
      /\ w.is_deleted = FALSE /\ w.current = [type |-> "RAW_MEMORY", value |-> x]
      /\ IsRec(w)
  <2>1. w \in Recs([type |-> "RAW_MEMORY", value |-> x], {x}, v.nnint64_delta, v.hs_size_increase,
                v.new_hashes, v.hs_clear_threshold, v.is_deleted)
    BY <1>2, RecExcept, Zenon DEF ViewOK
  <2>2. v.is_deleted = FALSE
    BY <1>1 DEF ViewOK
  <2> QED BY <2>1, <2>2, RecsFields, SMT
<1>4. ~Added(o, v) /\ ~Hashed(o, v)
  BY <1>1, GuardKind
<1>5. NoInts(v) /\ NoHashes(v) /\ (o = NoObject \/ o.type = "RAW_MEMORY")
  <2>1. CASE Untouched(o, v)
    BY <1>1, <2>1, GuardKind DEF Untouched
  <2>2. CASE Written(o, v)
    BY <2>2 DEF Written
  <2> QED BY <1>4, <2>1, <2>2 DEF ViewOK
<1>6. Written(o, w)
  BY <1>3, <1>5 DEF Written, NoInts, NoHashes, Shows
<1> QED BY <1>3, <1>6 DEF ViewOK

\* make_nnint64_delta: what is left of a base is not negative.
LEMMA MakeDelta ==
  ASSUME NEW base \in Int, NEW old \in Int, NEW new \in Int, old < 0 => base + old >= 0,
         NEW sum \in make_nnint64_delta(base, old, new)
  PROVE  sum \in Int /\ (sum < 0 => base + sum >= 0)
<1>1. CASE new < 0
  BY <1>1 DEF make_nnint64_delta
<1>2. CASE ~(new < 0)
  <2>1. sum = Min({MaxInt, old + new})
    BY <1>2 DEF make_nnint64_delta
  <2>2. sum = IF MaxInt <= old + new THEN MaxInt ELSE old + new
    BY <2>1, MinPair, ExecutionAssumption
  <2> QED BY <1>2, <2>2, ExecutionAssumption
<1> QED BY <1>1, <1>2

\* nonnegative_int64_set_add and nonnegative_int64_add
LEMMA AddView ==
  ASSUME NEW o, NEW v, ViewOK(o, v), NEW s \in MinInt .. MaxInt, NEW y \in Int,
         NEW w \in TryApply(v, SetAdd(s, y))
  PROVE  ViewOK(o, w)
<1> DEFINE d == SetAdd(s, y)
<1>0. d.type = "NONNEGATIVE_INT64_SET_ADD" /\ d.set_value = s /\ d.delta = y
  BY DEF SetAdd
<1> HIDE DEF d
<1>1. ~v.is_deleted /\ (v.current = NoObject \/ v.current.type = "NONNEGATIVE_INT64")
  <2>1. ~v.is_deleted /\ TypeGuard(v, d)
    BY <1>0, TryApplyIs DEF d
  <2> QED BY <1>0, <2>1 DEF TypeGuard, DeltaTypes
<1>2. w \in ApplySetAdd(v, d)
  <2>1. TypeGuard(v, d)
    BY <1>0, <1>1 DEF TypeGuard, DeltaTypes
  <2> QED BY <1>0, <1>1, <2>1, TryApplyIs DEF d
<1>3. s \in Int
  BY ExecutionAssumption DEF MinInt
<1> DEFINE old == {x.delta : x \in v.nnint64_delta}
           base == IF old = {} THEN 0 ELSE Min(old)
<1>4. PICK sum \in make_nnint64_delta(s, base, y) :
        /\ \A x \in v.nnint64_delta : x.set_value = s
        /\ w = [v EXCEPT !.nnint64_delta = {[set_value |-> s, delta |-> sum]},
                         !.current = [type |-> "NONNEGATIVE_INT64", value |-> Min({MaxInt, s + sum})]]
  BY <1>0, <1>2 DEF ApplySetAdd
<1>5. w \in Recs([type |-> "NONNEGATIVE_INT64", value |-> Min({MaxInt, s + sum})], v.memory_write,
                 {[set_value |-> s, delta |-> sum]}, v.hs_size_increase, v.new_hashes,
                 v.hs_clear_threshold, v.is_deleted)
  BY <1>4, RecExcept, Zenon DEF ViewOK
<1>6. ~Written(o, v) /\ ~Hashed(o, v)
  BY <1>1, GuardKind
<1>7. NoWrites(v) /\ NoHashes(v) /\ (o = NoObject \/ o.type = "NONNEGATIVE_INT64")
  <2>1. CASE Untouched(o, v)
    BY <1>1, <2>1, GuardKind DEF Untouched
  <2>2. CASE Added(o, v)
    BY <2>2 DEF Added
  <2> QED BY <1>6, <2>1, <2>2 DEF ViewOK
<1>8. base \in Int /\ (base < 0 => s + base >= 0)
  <2>1. CASE Untouched(o, v)
    <3>1. old = {}
      BY <2>1 DEF Untouched, NoInts
    <3> QED BY <3>1
  <2>2. CASE Added(o, v)
    <3>1. PICK s1 \in MinInt .. MaxInt, x \in Int :
            /\ v.nnint64_delta = {[set_value |-> s1, delta |-> x]}
            /\ x < 0 => s1 + x >= 0
      BY <2>2 DEF Added
    <3>2. old = {x} /\ s1 = s
      BY <1>4, <3>1
    <3>3. base = x
      BY <3>2, MinOne
    <3> QED BY <3>1, <3>2, <3>3
  <2> QED BY <1>6, <2>1, <2>2 DEF ViewOK
<1> HIDE DEF base
<1>9. sum \in Int /\ (sum < 0 => s + sum >= 0)
  BY <1>3, <1>4, <1>8, MakeDelta
<1>10. /\ w.current = [type |-> "NONNEGATIVE_INT64", value |-> Min({MaxInt, s + sum})]
       /\ w.memory_write = v.memory_write
       /\ w.nnint64_delta = {[set_value |-> s, delta |-> sum]}
       /\ w.hs_size_increase = v.hs_size_increase
       /\ w.new_hashes = v.new_hashes /\ w.hs_clear_threshold = v.hs_clear_threshold
       /\ w.is_deleted = v.is_deleted /\ IsRec(w)
  BY <1>5, RecsFields, SMT
<1>11. Added(o, w)
  BY <1>7, <1>9, <1>10 DEF Added, NoWrites, NoHashes, Shows
<1> QED BY <1>1, <1>10, <1>11 DEF ViewOK

\* What a delta on a hash set begins with.
LEMMA HashBase ==
  ASSUME NEW o, IsObject(o), NEW v, ViewOK(o, v), ~v.is_deleted,
         v.current = NoObject \/ v.current.type = "HASH_SET"
  PROVE  /\ NoWrites(v) /\ NoInts(v) /\ (o = NoObject \/ o.type = "HASH_SET")
         /\ v.new_hashes \in Seq(Elements) /\ IsFiniteSet(Members(o, v))
         /\ AtMostOne(v.hs_size_increase) /\ AtMostOne(v.hs_clear_threshold)
         /\ HasRoom(o, v)
         /\ Current(v, "HASH_SET") =
              [type |-> "HASH_SET", hashes |-> Left(o, v), max_size |-> SizeLimit(o)]
<1>1. ~Written(o, v) /\ ~Added(o, v)
  BY GuardKind
<1>2. CASE Hashed(o, v)
  <2>1. v.current = [type |-> "HASH_SET", hashes |-> Left(o, v), max_size |-> SizeLimit(o)]
    BY <1>2 DEF Hashed, Shows
  <2>2. Current(v, "HASH_SET") = v.current
    BY <2>1 DEF Current, NoObject
  <2> QED BY <1>2, <2>1, <2>2 DEF Hashed
<1>3. CASE Untouched(o, v)
  <2>1. /\ v.current = o /\ NoWrites(v) /\ NoInts(v) /\ v.hs_size_increase = {} /\ v.new_hashes = <<>>
        /\ v.hs_clear_threshold = {}
    BY <1>3 DEF Untouched, Shows, NoHashes
  <2>2. Members(o, v) = Hashes(o) /\ Left(o, v) = Hashes(o)
    BY <2>1 DEF Members, Left, Range
  <2>3. IsFiniteSet(Hashes(o)) /\ Cardinality(Hashes(o)) \in Nat
    <3>1. IsFiniteSet(Hashes(o))
      BY FS_EmptySet DEF IsObject, Hashes, NoObject
    <3> QED BY <3>1, FS_CardinalityType
  <2>4. HasRoom(o, v)
    BY <2>1, <2>2, <2>3 DEF HasRoom
  <2>5. Current(v, "HASH_SET") =
          [type |-> "HASH_SET", hashes |-> Hashes(o), max_size |-> SizeLimit(o)]
    <3>1. CASE o = NoObject
      BY <2>1, <3>1 DEF Current, DefaultObject, Hashes, SizeLimit, NoObject
    <3>2. CASE o # NoObject
      <4>1. o.type = "HASH_SET"
        BY <2>1, <3>2
      <4>2. o = [type |-> "HASH_SET", hashes |-> o.hashes, max_size |-> o.max_size]
        BY <4>1, <3>2 DEF IsObject
      <4>3. Current(v, "HASH_SET") = o /\ Hashes(o) = o.hashes /\ SizeLimit(o) = o.max_size
        BY <2>1, <3>2, <4>1 DEF Current, Hashes, SizeLimit
      <4> QED BY <4>2, <4>3
    <3> QED BY <3>1, <3>2
  <2> QED BY <2>1, <2>2, <2>3, <2>4, <2>5 DEF AtMostOne
<1> QED BY <1>1, <1>2, <1>3 DEF ViewOK

\* The limit of a hash set is a number, and elements have an index.
LEMMA HashFacts ==
  ASSUME NEW o, IsObject(o), NEW v, v.new_hashes \in Seq(Elements)
  PROVE  /\ SizeLimit(o) \in Nat /\ IsFiniteSet(Hashes(o)) /\ Cardinality(Hashes(o)) \in Nat
         /\ \A h \in Members(o, v) : h.index \in Nat
<1>1. SizeLimit(o) \in Nat /\ IsFiniteSet(Hashes(o)) /\ \A h \in Hashes(o) : h.index \in Nat
  BY ExecutionAssumption, FS_EmptySet DEF IsObject, SizeLimit, Hashes, NoObject
<1>2. \A h \in Range(v.new_hashes) : h \in Elements
  BY ElementOf DEF Range
<1> QED BY <1>1, <1>2, ExecutionAssumption, FS_CardinalityType DEF Members

\* HashsetInsert
LEMMA InsertView ==
  ASSUME NEW o, IsObject(o), NEW v, ViewOK(o, v), NEW h \in Elements,
         NEW w \in TryApply(v, Insert(h))
  PROVE  ViewOK(o, w)
<1> DEFINE d == Insert(h)
           set == Current(v, "HASH_SET")
           new == Append(v.new_hashes, h)
<1>0. d.type = "HASH_SET_INSERT" /\ d.hash = h
  BY DEF Insert
<1> HIDE DEF d
<1>1. ~v.is_deleted /\ (v.current = NoObject \/ v.current.type = "HASH_SET")
  <2>1. ~v.is_deleted /\ TypeGuard(v, d)
    BY <1>0, TryApplyIs DEF d
  <2> QED BY <1>0, <2>1 DEF TypeGuard, DeltaTypes
<1>2. w \in ApplyInsert(v, d)
  <2>1. TypeGuard(v, d)
    BY <1>0, <1>1 DEF TypeGuard, DeltaTypes
  <2> QED BY <1>0, <1>1, <2>1, TryApplyIs DEF d
<1>3. /\ NoWrites(v) /\ NoInts(v) /\ (o = NoObject \/ o.type = "HASH_SET")
      /\ v.new_hashes \in Seq(Elements) /\ IsFiniteSet(Members(o, v))
      /\ AtMostOne(v.hs_size_increase) /\ AtMostOne(v.hs_clear_threshold)
      /\ HasRoom(o, v)
      /\ set = [type |-> "HASH_SET", hashes |-> Left(o, v), max_size |-> SizeLimit(o)]
  BY <1>1, HashBase, Zenon
<1>4. /\ h \notin set.hashes /\ ~(Cardinality(set.hashes) >= set.max_size)
      /\ \A n \in v.hs_clear_threshold : ~(n >= h.index)
      /\ w = [v EXCEPT !.current = [set EXCEPT !.hashes = @ \cup {h}], !.new_hashes = new]
  <2> DEFINE no == \/ h \in set.hashes \/ Cardinality(set.hashes) >= set.max_size
                   \/ \E n \in v.hs_clear_threshold : n >= h.index
             x == [v EXCEPT !.current = [set EXCEPT !.hashes = @ \cup {h}],
                            !.new_hashes = Append(@, h)]
  <2>1. ApplyInsert(v, d) = IF no THEN {} ELSE {x}
    BY <1>0, Zenon DEF ApplyInsert
  <2>2. ~no /\ w = x
    <3> HIDE DEF no, x
    <3> QED BY <1>2, <2>1
  <2>3. x = [v EXCEPT !.current = [set EXCEPT !.hashes = @ \cup {h}], !.new_hashes = new]
    <3> HIDE DEF set
    <3> QED BY <1>0 DEF ViewOK, IsRec, Recs
  <2> QED BY <2>2, <2>3, Zenon
<1> HIDE DEF set
<1>5. set.hashes = Left(o, v) /\ set.max_size = SizeLimit(o)
      /\ [set EXCEPT !.hashes = @ \cup {h}]
           = [type |-> "HASH_SET", hashes |-> Left(o, v) \cup {h}, max_size |-> SizeLimit(o)]
  <2> DEFINE lim == SizeLimit(o)  left == Left(o, v)
  <2>1. set \in [type : {"HASH_SET"}, hashes : {left}, max_size : {lim}]
    BY <1>3
  <2> HIDE DEF lim, left
  <2>2. [set EXCEPT !.hashes = @ \cup {h}] \in
          [type : {"HASH_SET"}, hashes : {left \cup {h}}, max_size : {lim}]
    BY <2>1
  <2> QED BY <2>1, <2>2 DEF lim, left
<1>6. w \in Recs([type |-> "HASH_SET", hashes |-> Left(o, v) \cup {h}, max_size |-> SizeLimit(o)],
                 v.memory_write, v.nnint64_delta, v.hs_size_increase, new,
                 v.hs_clear_threshold, v.is_deleted)
  <2> DEFINE c == [type |-> "HASH_SET", hashes |-> Left(o, v) \cup {h}, max_size |-> SizeLimit(o)]
  <2>1. w = [v EXCEPT !.current = c, !.new_hashes = new]
    BY <1>4, <1>5
  <2> HIDE DEF c, new
  <2>2. IsRec(v)
    BY DEF ViewOK
  <2>3. w \in Recs(c, v.memory_write, v.nnint64_delta, v.hs_size_increase, new,
                   v.hs_clear_threshold, v.is_deleted)
    BY <2>1, <2>2, RecExcept, Zenon
  <2> QED BY <2>3 DEF c
<1>7. /\ w.current = [type |-> "HASH_SET", hashes |-> Left(o, v) \cup {h}, max_size |-> SizeLimit(o)]
      /\ w.memory_write = v.memory_write /\ w.nnint64_delta = v.nnint64_delta
      /\ w.hs_size_increase = v.hs_size_increase
      /\ w.new_hashes = new /\ w.hs_clear_threshold = v.hs_clear_threshold
      /\ w.is_deleted = v.is_deleted /\ IsRec(w)
  <2> DEFINE c == [type |-> "HASH_SET", hashes |-> Left(o, v) \cup {h}, max_size |-> SizeLimit(o)]
  <2> HIDE DEF c, new
  <2>1. w \in Recs(c, v.memory_write, v.nnint64_delta, v.hs_size_increase, new,
                   v.hs_clear_threshold, v.is_deleted)
    BY <1>6 DEF c
  <2>2. /\ w.current = c /\ w.memory_write = v.memory_write
        /\ w.nnint64_delta = v.nnint64_delta /\ w.hs_size_increase = v.hs_size_increase
        /\ w.new_hashes = new /\ w.hs_clear_threshold = v.hs_clear_threshold
        /\ w.is_deleted = v.is_deleted /\ IsRec(w)
    BY <2>1, RecsFields, SMT
  <2> QED BY <2>2 DEF c
<1>8. /\ new \in Seq(Elements) /\ Len(new) = Len(v.new_hashes) + 1 /\ new # <<>>
      /\ DOMAIN new = 1 .. Len(v.new_hashes) + 1 /\ Len(v.new_hashes) \in Nat
      /\ DOMAIN v.new_hashes = 1 .. Len(v.new_hashes)
      /\ new[Len(v.new_hashes) + 1] = h
      /\ \A i \in 1 .. Len(v.new_hashes) : new[i] = v.new_hashes[i]
  BY <1>3
<1> HIDE DEF new
<1>9. Range(new) = Range(v.new_hashes) \cup {h}
  <2>1. ASSUME NEW x \in Range(new) PROVE x \in Range(v.new_hashes) \cup {h}
    <3>1. PICK i \in 1 .. Len(v.new_hashes) + 1 : x = new[i]
      BY <1>8, <2>1 DEF Range
    <3>2. i \in 1 .. Len(v.new_hashes) \/ i = Len(v.new_hashes) + 1
      BY <1>8
    <3> QED BY <1>8, <3>1, <3>2 DEF Range
  <2>2. ASSUME NEW x \in Range(v.new_hashes) PROVE x \in Range(new)
    <3>1. PICK i \in 1 .. Len(v.new_hashes) : x = v.new_hashes[i]
      BY <1>8, <2>2 DEF Range
    <3>2. i \in DOMAIN new /\ new[i] = x
      BY <1>8, <3>1
    <3> QED BY <3>2 DEF Range
  <2>3. h \in Range(new)
    <3>1. Len(v.new_hashes) + 1 \in DOMAIN new
      BY <1>8
    <3> QED BY <1>8, <3>1 DEF Range
  <2> QED BY <2>1, <2>2, <2>3
<1>10. Members(o, w) = Members(o, v) \cup {h}
  BY <1>7, <1>9 DEF Members
<1>11. \A t \in v.hs_clear_threshold : h.index > t
  <2>1. h.index \in Nat /\ \A t \in v.hs_clear_threshold : t \in Nat
    BY <1>3, ExecutionAssumption DEF AtMostOne
  <2> QED BY <1>4, <2>1
<1>12. Left(o, w) = Left(o, v) \cup {h}
  BY <1>7, <1>10, <1>11 DEF Left
<1>13. HasRoom(o, w)
  <2> SUFFICES ASSUME v.hs_clear_threshold = {} PROVE HasRoom(o, w)
    BY <1>7 DEF HasRoom
  <2>1. Left(o, v) = Members(o, v)
    BY DEF Left
  <2>2. h \notin Members(o, v)
    BY <1>4, <1>5, <2>1
  <2>3. Cardinality(Members(o, w)) = Cardinality(Members(o, v)) + 1
    BY <1>3, <1>10, <2>2, FS_AddElement
  <2>4. /\ Cardinality(Members(o, v)) = Cardinality(Hashes(o)) + Len(v.new_hashes)
        /\ \A i \in 1 .. Len(v.new_hashes) : v.new_hashes[i] \notin Hashes(o)
        /\ \A i, j \in 1 .. Len(v.new_hashes) : i # j => v.new_hashes[i] # v.new_hashes[j]
    BY <1>3, <1>8 DEF HasRoom
  <2>5. /\ SizeLimit(o) \in Nat /\ Cardinality(Hashes(o)) \in Nat
        /\ ~(Cardinality(Members(o, v)) >= SizeLimit(o))
    BY <1>3, <1>4, <1>5, <2>1, HashFacts
  <2>6. Cardinality(Hashes(o)) + Len(new) <= SizeLimit(o)
    BY <1>8, <2>4, <2>5
  <2>7. \A i \in 1 .. Len(v.new_hashes) : v.new_hashes[i] # h
    <3> TAKE i \in 1 .. Len(v.new_hashes)
    <3>1. v.new_hashes[i] \in Members(o, v)
      BY <1>8 DEF Members, Range
    <3> QED BY <2>2, <3>1
  <2>8. \A i, j \in 1 .. Len(v.new_hashes) + 1 : i # j => new[i] # new[j]
    <3> TAKE i, j \in 1 .. Len(v.new_hashes) + 1
    <3>1. /\ i \in 1 .. Len(v.new_hashes) \/ i = Len(v.new_hashes) + 1
          /\ j \in 1 .. Len(v.new_hashes) \/ j = Len(v.new_hashes) + 1
      BY <1>8
    <3> QED BY <1>8, <2>4, <2>7, <3>1
  <2>9. \A i \in 1 .. Len(v.new_hashes) + 1 : new[i] \notin Hashes(o)
    <3> TAKE i \in 1 .. Len(v.new_hashes) + 1
    <3>1. i \in 1 .. Len(v.new_hashes) \/ i = Len(v.new_hashes) + 1
      BY <1>8
    <3> QED BY <1>8, <2>2, <2>4, <3>1 DEF Members
  <2>10. Cardinality(Members(o, w)) = Cardinality(Hashes(o)) + Len(new)
    BY <1>8, <2>3, <2>4, <2>5
  <2> QED BY <1>7, <1>8, <2>6, <2>8, <2>9, <2>10 DEF HasRoom
<1>14. IsFiniteSet(Members(o, w))
  BY <1>3, <1>10, FS_AddElement
<1>15. Hashed(o, w)
  BY <1>3, <1>7, <1>8, <1>12, <1>13, <1>14 DEF Hashed, NoWrites, NoInts, NoHashes, Shows
<1> QED BY <1>1, <1>7, <1>15 DEF ViewOK

\* hashset_increase_limit
LEMMA IncreaseView ==
  ASSUME NEW o, IsObject(o), NEW v, ViewOK(o, v), NEW n \in Nat,
         NEW w \in TryApply(v, IncreaseLimit(n))
  PROVE  ViewOK(o, w)
<1> DEFINE d == IncreaseLimit(n)
           set == Current(v, "HASH_SET")
           old == v.hs_size_increase
           inc == {IF old = {} THEN n ELSE Min(old) + n}
<1>0. d.type = "HASH_SET_INCREASE_LIMIT" /\ d.limit_increase = n
  BY DEF IncreaseLimit
<1> HIDE DEF d
<1>1. ~v.is_deleted /\ (v.current = NoObject \/ v.current.type = "HASH_SET")
  <2>1. ~v.is_deleted /\ TypeGuard(v, d)
    BY <1>0, TryApplyIs DEF d
  <2> QED BY <1>0, <2>1 DEF TypeGuard, DeltaTypes
<1>2. w \in ApplyIncreaseLimit(v, d)
  <2>1. TypeGuard(v, d)
    BY <1>0, <1>1 DEF TypeGuard, DeltaTypes
  <2> QED BY <1>0, <1>1, <2>1, TryApplyIs DEF d
<1>3. /\ NoWrites(v) /\ NoInts(v) /\ (o = NoObject \/ o.type = "HASH_SET")
      /\ v.new_hashes \in Seq(Elements) /\ IsFiniteSet(Members(o, v))
      /\ AtMostOne(v.hs_size_increase) /\ AtMostOne(v.hs_clear_threshold)
      /\ HasRoom(o, v)
      /\ set = [type |-> "HASH_SET", hashes |-> Left(o, v), max_size |-> SizeLimit(o)]
  BY <1>1, HashBase, Zenon
<1>4. AtMostOne(inc) /\ inc # {}
  <2>1. CASE old = {}
    BY <2>1 DEF AtMostOne
  <2>2. ASSUME NEW m \in Nat, old = {m} PROVE AtMostOne(inc)
    <3>1. inc = {m + n} /\ m + n \in Nat
      BY <2>2, MinOne
    <3> QED BY <3>1 DEF AtMostOne
  <2> QED BY <1>3, <2>1, <2>2 DEF AtMostOne
<1>5. w = [v EXCEPT !.current = set, !.hs_size_increase = inc]
  BY <1>0, <1>2 DEF ApplyIncreaseLimit
<1> HIDE DEF set, inc
<1>6. w \in Recs(set, v.memory_write, v.nnint64_delta, inc, v.new_hashes,
                 v.hs_clear_threshold, v.is_deleted)
  BY <1>5, RecExcept, Zenon DEF ViewOK
<1>7. /\ w.current = set
      /\ w.memory_write = v.memory_write /\ w.nnint64_delta = v.nnint64_delta
      /\ w.hs_size_increase = inc
      /\ w.new_hashes = v.new_hashes /\ w.hs_clear_threshold = v.hs_clear_threshold
      /\ w.is_deleted = v.is_deleted /\ IsRec(w)
  BY <1>6, RecsFields, SMT
<1>8. Members(o, w) = Members(o, v) /\ Left(o, w) = Left(o, v) /\ HasRoom(o, w)
  BY <1>3, <1>7 DEF Members, Left, HasRoom
<1>9. Hashed(o, w)
  BY <1>3, <1>4, <1>7, <1>8 DEF Hashed, NoWrites, NoInts, NoHashes, Shows
<1> QED BY <1>1, <1>7, <1>9 DEF ViewOK

\* HashsetClear
LEMMA ClearView ==
  ASSUME NEW o, IsObject(o), NEW v, ViewOK(o, v), NEW n \in Nat,
         NEW w \in TryApply(v, Clear(n))
  PROVE  ViewOK(o, w)
<1> DEFINE d == Clear(n)
           set == Current(v, "HASH_SET")
           top == Max(v.hs_clear_threshold \cup {n})
           rest == {h \in set.hashes : h.index > top}
<1>0. d.type = "HASH_SET_CLEAR" /\ d.threshold = n
  BY DEF Clear
<1> HIDE DEF d
<1>1. ~v.is_deleted /\ (v.current = NoObject \/ v.current.type = "HASH_SET")
  <2>1. ~v.is_deleted /\ TypeGuard(v, d)
    BY <1>0, TryApplyIs DEF d
  <2> QED BY <1>0, <2>1 DEF TypeGuard, DeltaTypes
<1>2. w \in ApplyClear(v, d)
  <2>1. TypeGuard(v, d)
    BY <1>0, <1>1 DEF TypeGuard, DeltaTypes
  <2> QED BY <1>0, <1>1, <2>1, TryApplyIs DEF d
<1>3. /\ NoWrites(v) /\ NoInts(v) /\ (o = NoObject \/ o.type = "HASH_SET")
      /\ v.new_hashes \in Seq(Elements) /\ IsFiniteSet(Members(o, v))
      /\ AtMostOne(v.hs_size_increase) /\ AtMostOne(v.hs_clear_threshold)
      /\ HasRoom(o, v)
      /\ set = [type |-> "HASH_SET", hashes |-> Left(o, v), max_size |-> SizeLimit(o)]
  BY <1>1, HashBase, Zenon
<1>4. w = [v EXCEPT !.current = [set EXCEPT !.hashes = rest], !.hs_clear_threshold = {top}]
  <2> DEFINE y == [v EXCEPT !.current = [set EXCEPT !.hashes = {h \in @ : h.index > top}],
                            !.hs_clear_threshold = {top}]
  <2>1. ApplyClear(v, d) = {y}
    BY <1>0, Zenon DEF ApplyClear
  <2>2. w = y
    <3> HIDE DEF y
    <3> QED BY <1>2, <2>1
  <2>3. [set EXCEPT !.hashes = {h \in @ : h.index > top}] = [set EXCEPT !.hashes = rest]
    <3> HIDE DEF set
    <3> QED BY <1>3
  <2> QED BY <2>2, <2>3, Zenon
<1>5. /\ top \in Nat /\ top >= n /\ \A t \in v.hs_clear_threshold : t \in Nat /\ top >= t
      /\ \A x : (\A t \in v.hs_clear_threshold : x > t) /\ x > n => x > top
  <2>1. CASE v.hs_clear_threshold = {}
    <3>1. v.hs_clear_threshold \cup {n} = {n, n}
      BY <2>1
    <3>2. top = n
      BY <3>1, MaxPair
    <3> QED BY <2>1, <3>2
  <2>2. ASSUME NEW m \in Nat, v.hs_clear_threshold = {m}
        PROVE  /\ top \in Nat /\ top >= n /\ top >= m /\ (top = n \/ top = m)
    <3>1. v.hs_clear_threshold \cup {n} = {m, n}
      BY <2>2
    <3>2. top = IF m <= n THEN n ELSE m
      BY <3>1, MaxPair
    <3> QED BY <3>2
  <2> HIDE DEF top
  <2> QED BY <1>3, <2>1, <2>2 DEF AtMostOne
<1> HIDE DEF top
<1>6. [set EXCEPT !.hashes = rest]
        = [type |-> "HASH_SET", hashes |-> rest, max_size |-> SizeLimit(o)]
  <2> DEFINE lim == SizeLimit(o)  left == Left(o, v)  r == rest
  <2>1. set \in [type : {"HASH_SET"}, hashes : {left}, max_size : {lim}]
    BY <1>3
  <2> HIDE DEF lim, left, set, r
  <2>2. [set EXCEPT !.hashes = r] \in [type : {"HASH_SET"}, hashes : {r}, max_size : {lim}]
    BY <2>1
  <2>3. [set EXCEPT !.hashes = r] = [type |-> "HASH_SET", hashes |-> r, max_size |-> lim]
    BY <2>2
  <2> QED BY <2>3, Zenon DEF lim, r
<1>7. set.hashes = Left(o, v)
  BY <1>3
<1> DEFINE c == [type |-> "HASH_SET", hashes |-> rest, max_size |-> SizeLimit(o)]
           thr == {top}
<1>8. w = [v EXCEPT !.current = c, !.hs_clear_threshold = thr]
  BY <1>4, <1>6, Zenon
<1> HIDE DEF c, thr, rest, set
<1>9. w \in Recs(c, v.memory_write, v.nnint64_delta, v.hs_size_increase, v.new_hashes,
                 thr, v.is_deleted)
  BY <1>8, RecExcept, Zenon DEF ViewOK
<1>10. /\ w.current = c
       /\ w.memory_write = v.memory_write /\ w.nnint64_delta = v.nnint64_delta
       /\ w.hs_size_increase = v.hs_size_increase
       /\ w.new_hashes = v.new_hashes /\ w.hs_clear_threshold = thr
       /\ w.is_deleted = v.is_deleted /\ IsRec(w)
  BY <1>9, RecsFields, SMT
<1>11. Members(o, w) = Members(o, v)
  BY <1>10 DEF Members
<1>12. Left(o, w) = rest
  <2>1. \A h \in Members(o, v) : h.index \in Nat
    BY <1>3, HashFacts
  <2>2. \A h \in Members(o, v) :
          (h.index > top) <=> (h.index > top /\ \A t \in v.hs_clear_threshold : h.index > t)
    BY <1>5, <2>1
  <2>3. Left(o, w) = {h \in Members(o, v) : h.index > top}
    BY <1>10, <1>11 DEF Left, thr
  <2>4. rest = {h \in Members(o, v) : h.index > top}
    BY <1>7, <2>2 DEF rest, Left
  <2> QED BY <2>3, <2>4
<1>13. AtMostOne(thr) /\ thr # {}
  BY <1>5 DEF AtMostOne, thr
<1>14. HasRoom(o, w)
  BY <1>10, <1>13 DEF HasRoom
<1>15. Hashed(o, w)
  BY <1>3, <1>10, <1>11, <1>12, <1>13, <1>14
     DEF Hashed, NoWrites, NoInts, NoHashes, Shows, c
<1> QED BY <1>1, <1>10, <1>15 DEF ViewOK

\* Every storage call keeps the view.
LEMMA SeenView ==
  ASSUME NEW o, IsObject(o), NEW v, ViewOK(o, v), NEW w, Sees(v, w)
  PROVE  ViewOK(o, w)
<1>1. SUFFICES ASSUME NEW d, GoodDelta(d), w \in TryApply(v, d) PROVE ViewOK(o, w)
  BY DEF Sees
<1>2. CASE d.type = "RAW_MEMORY_WRITE" /\ d = Write(d.data)
  BY <1>1, <1>2, WriteView
<1>3. CASE /\ d.type = "NONNEGATIVE_INT64_SET_ADD" /\ d = SetAdd(d.set_value, d.delta)
           /\ d.set_value \in MinInt .. MaxInt /\ d.delta \in Int
  BY <1>1, <1>3, AddView
<1>4. CASE d.type = "HASH_SET_INSERT" /\ d = Insert(d.hash) /\ d.hash \in Elements
  BY <1>1, <1>4, InsertView
<1>5. CASE /\ d.type = "HASH_SET_INCREASE_LIMIT" /\ d = IncreaseLimit(d.limit_increase)
           /\ d.limit_increase \in Nat
  BY <1>1, <1>5, IncreaseView
<1>6. CASE d.type = "HASH_SET_CLEAR" /\ d = Clear(d.threshold) /\ d.threshold \in Nat
  BY <1>1, <1>6, ClearView
<1>7. CASE d = DeleteLast
  BY <1>1, <1>7, DeleteView
<1> QED BY <1>1, <1>2, <1>3, <1>4, <1>5, <1>6, <1>7 DEF GoodDelta

-----------------------------------------------------------------------------
(* The deltas of a view                                                    *)

\* The set of deltas of a kind that was not used makes no delta.
LEMMA SeqOfNone == SetToSeq({}) = <<>>
<1>1. Cardinality({}) = 0
  BY FS_EmptySet
<1>2. <<>> \in [1 .. 0 -> {}] /\ IsInjective(<<>>)
  BY DEF IsInjective
<1>3. SetToSeq({}) \in [1 .. 0 -> {}]
  BY <1>1, <1>2, Zenon DEF SetToSeq
<1> QED BY <1>3

\* A set of one element makes a sequence of one.
LEMMA SeqOfOne == ASSUME NEW x PROVE SetToSeq({x}) = <<x>>
<1>1. Cardinality({x}) = 1
  BY FS_Singleton
<1>2. <<x>> \in [1 .. 1 -> {x}] /\ IsInjective(<<x>>)
  BY DEF IsInjective
<1>3. SetToSeq({x}) \in [1 .. 1 -> {x}]
  BY <1>1, <1>2, Zenon DEF SetToSeq
<1> QED BY <1>3

\* The segments of get_deltas.
Deleting(v) == IF v.is_deleted THEN <<DeleteLast>> ELSE <<>>
Writing(v) == SetToSeq({Write(x) : x \in v.memory_write})
Adding(v) == SetToSeq({SetAdd(x.set_value, x.delta) : x \in v.nnint64_delta})
Increasing(v) == SetToSeq({IncreaseLimit(Min({n, MaxSize})) : n \in v.hs_size_increase})
Inserting(v) == [i \in DOMAIN v.new_hashes |-> Insert(v.new_hashes[i])]
Clearing(v) == SetToSeq({Clear(x) : x \in v.hs_clear_threshold})

\* get_deltas joins the deltas of each kind in a fixed order, the deletion last.
LEMMA Segments ==
  ASSUME NEW v, v.delta = {}
  PROVE  GetDeltas(v) = IF ~v.is_deleted /\ v.current = NoObject THEN <<>>
                        ELSE Writing(v) \o Adding(v) \o Increasing(v) \o Inserting(v)
                               \o Clearing(v) \o <<>> \o Deleting(v)
<1>1. SetToSeq({AssetAdd(x) : x \in v.delta}) = <<>>
  <2>1. {AssetAdd(x) : x \in v.delta} = {}
    OBVIOUS
  <2> QED BY <2>1, SeqOfNone
<1> QED BY <1>1, Zenon DEF GetDeltas, Writing, Adding, Increasing, Inserting, Clearing, Deleting

LEMMA NoSegment ==
  ASSUME NEW S, NEW s \in Seq(S)
  PROVE  <<>> \o s = s /\ s \o <<>> = s
OBVIOUS

LEMMA Joined ==
  ASSUME NEW S, NEW s \in Seq(S), NEW t \in Seq(S)
  PROVE  /\ s \o t \in Seq(S) /\ Len(s \o t) = Len(s) + Len(t)
         /\ DOMAIN (s \o t) = 1 .. Len(s) + Len(t)
         /\ \A i \in 1 .. Len(s) : (s \o t)[i] = s[i]
         /\ \A i \in 1 .. Len(t) : (s \o t)[Len(s) + i] = t[i]
OBVIOUS

\* No system call makes a delta of the last kind, so its field is empty.
LEMMA Deltaless ==
  ASSUME NEW v, IsRec(v)
  PROVE  v.delta = {}
BY DEF IsRec, Recs

\* A kind of which the view has no delta adds nothing to its deltas.
LEMMA NoneOf ==
  ASSUME NEW v
  PROVE  /\ NoWrites(v) => Writing(v) = <<>>
         /\ NoInts(v) => Adding(v) = <<>>
         /\ v.hs_size_increase = {} => Increasing(v) = <<>>
         /\ v.new_hashes = <<>> => Inserting(v) = <<>>
         /\ v.hs_clear_threshold = {} => Clearing(v) = <<>>
<1>1. NoWrites(v) => {Write(x) : x \in v.memory_write} = {}
  BY DEF NoWrites
<1>2. NoInts(v) => {SetAdd(x.set_value, x.delta) : x \in v.nnint64_delta} = {}
  BY DEF NoInts
<1>3. v.hs_size_increase = {} => {IncreaseLimit(Min({n, MaxSize})) : n \in v.hs_size_increase} = {}
  OBVIOUS
<1>4. v.new_hashes = <<>> => Inserting(v) = <<>>
  BY DEF Inserting
<1>5. v.hs_clear_threshold = {} => {Clear(x) : x \in v.hs_clear_threshold} = {}
  OBVIOUS
<1> QED BY <1>1, <1>2, <1>3, <1>4, <1>5, SeqOfNone DEF Writing, Adding, Increasing, Clearing

\* One delta, and a deletion if there is one.
Begins(D, x, v) == D = <<x>> \o Deleting(v)

\* Nothing, or a delta of one write or addition, before the deletion.
LEMMA FewDeltas ==
  ASSUME NEW o, NEW v, ViewOK(o, v)
  PROVE  /\ Untouched(o, v) => GetDeltas(v) = Deleting(v)
         /\ \A d : NoInts(v) /\ NoHashes(v) /\ v.memory_write = {d}
                     /\ Shows(v, [type |-> "RAW_MEMORY", value |-> d])
              => Begins(GetDeltas(v), Write(d), v)
         /\ \A s, x : NoWrites(v) /\ NoHashes(v) /\ v.nnint64_delta = {[set_value |-> s, delta |-> x]}
                        /\ ~(~v.is_deleted /\ v.current = NoObject)
              => Begins(GetDeltas(v), SetAdd(s, x), v)
<1> DEFINE gone == ~v.is_deleted /\ v.current = NoObject
<1>0. /\ v.delta = {}
      /\ Deleting(v) \in Seq({DeleteLast})
  <2>1. v.delta = {}
    BY Deltaless DEF ViewOK
  <2>2. <<DeleteLast>> \in Seq({DeleteLast}) /\ <<>> \in Seq({DeleteLast})
    OBVIOUS
  <2> QED BY <2>1, <2>2, Zenon DEF Deleting
<1>1. ASSUME Untouched(o, v) PROVE GetDeltas(v) = Deleting(v)
  <2>1. /\ Writing(v) = <<>> /\ Adding(v) = <<>> /\ Increasing(v) = <<>> /\ Inserting(v) = <<>>
        /\ Clearing(v) = <<>>
    BY <1>1, NoneOf DEF Untouched, NoHashes
  <2>2. gone => Deleting(v) = <<>>
    BY DEF Deleting
  <2>3. GetDeltas(v) = IF gone THEN <<>> ELSE <<>> \o <<>> \o <<>> \o <<>> \o <<>> \o <<>> \o Deleting(v)
    BY <1>0, <2>1, Segments
  <2>4. <<>> \o <<>> \o <<>> \o <<>> \o <<>> \o <<>> \o Deleting(v) = Deleting(v)
    BY <1>0, NoSegment
  <2> QED BY <2>2, <2>3, <2>4
<1>2. ASSUME NEW d, NoInts(v), NoHashes(v), v.memory_write = {d},
             Shows(v, [type |-> "RAW_MEMORY", value |-> d])
      PROVE  Begins(GetDeltas(v), Write(d), v)
  <2>1. /\ Adding(v) = <<>> /\ Increasing(v) = <<>> /\ Inserting(v) = <<>> /\ Clearing(v) = <<>>
    BY <1>2, NoneOf DEF NoHashes
  <2>2. Writing(v) = <<Write(d)>>
    <3>1. {Write(x) : x \in v.memory_write} = {Write(d)}
      BY <1>2
    <3> QED BY <3>1, SeqOfOne DEF Writing
  <2>3. ~gone
    BY <1>2 DEF Shows, NoObject
  <2>4. GetDeltas(v) = <<Write(d)>> \o <<>> \o <<>> \o <<>> \o <<>> \o <<>> \o Deleting(v)
    BY <1>0, <2>1, <2>2, <2>3, Segments
  <2>5. <<Write(d)>> \o <<>> = <<Write(d)>>
    BY NoSegment, <<Write(d)>> \in Seq({Write(d)})
  <2> QED BY <2>4, <2>5 DEF Begins
<1>3. ASSUME NEW s, NEW x, NoWrites(v), NoHashes(v), ~gone,
             v.nnint64_delta = {[set_value |-> s, delta |-> x]}
      PROVE  Begins(GetDeltas(v), SetAdd(s, x), v)
  <2>1. /\ Writing(v) = <<>> /\ Increasing(v) = <<>> /\ Inserting(v) = <<>> /\ Clearing(v) = <<>>
    BY <1>3, NoneOf DEF NoHashes
  <2>2. Adding(v) = <<SetAdd(s, x)>>
    <3>1. {SetAdd(y.set_value, y.delta) : y \in v.nnint64_delta} = {SetAdd(s, x)}
      BY <1>3
    <3> QED BY <3>1, SeqOfOne DEF Adding
  <2>4. GetDeltas(v) = <<>> \o <<SetAdd(s, x)>> \o <<>> \o <<>> \o <<>> \o <<>> \o Deleting(v)
    BY <1>0, <1>3, <2>1, <2>2, Segments
  <2>5. <<SetAdd(s, x)>> \o <<>> = <<SetAdd(s, x)>> /\ <<>> \o <<SetAdd(s, x)>> = <<SetAdd(s, x)>>
    BY NoSegment, <<SetAdd(s, x)>> \in Seq({SetAdd(s, x)})
  <2> QED BY <2>4, <2>5 DEF Begins
<1> QED BY <1>1, <1>2, <1>3

\* The deltas on a hash set: the insertions lie in a row.
HashDeltas(v, D) ==
    /\ Len(D) \in Nat /\ DOMAIN D = 1 .. Len(D)
    /\ \E k \in Nat :
         /\ \A i \in DOMAIN D :
              \/ D[i].type = "HASH_SET_INCREASE_LIMIT" /\ D[i].limit_increase \in Nat
              \/ i - k \in DOMAIN v.new_hashes /\ D[i] = Insert(v.new_hashes[i - k])
              \/ \E t \in v.hs_clear_threshold : D[i] = Clear(t)
              \/ v.is_deleted /\ D[i] = DeleteLast
         /\ \A j \in DOMAIN v.new_hashes : j + k \in DOMAIN D /\ D[j + k] = Insert(v.new_hashes[j])
    /\ \A t \in v.hs_clear_threshold : \E i \in DOMAIN D : D[i] = Clear(t)
    /\ v.is_deleted => \E i \in DOMAIN D : D[i] = DeleteLast
    /\ Len(D) > 0

\* The deltas of a view of a hash set: a limit, insertions, a clear, a deletion.
LEMMA HashDeltasOf ==
  ASSUME NEW o, NEW v, ViewOK(o, v), Hashed(o, v)
  PROVE  HashDeltas(v, GetDeltas(v))
<1> DEFINE new == v.new_hashes
           A == Increasing(v)
           B == Inserting(v)
           C == Clearing(v)
           E == Deleting(v)
           Inc(d) == d.type = "HASH_SET_INCREASE_LIMIT" /\ d.limit_increase \in Nat
           N == {d \in {A[i] : i \in DOMAIN A} : Inc(d)}
           S == N \cup {Insert(h) : h \in Elements} \cup {Clear(t) : t \in v.hs_clear_threshold}
                  \cup {DeleteLast}
<1>0. /\ v.delta = {} /\ ~(~v.is_deleted /\ v.current = NoObject)
      /\ new \in Seq(Elements) /\ Len(new) \in Nat /\ DOMAIN new = 1 .. Len(new)
      /\ AtMostOne(v.hs_size_increase) /\ AtMostOne(v.hs_clear_threshold)
      /\ v.hs_size_increase # {} \/ new # <<>> \/ v.hs_clear_threshold # {}
  <2>1. v.delta = {}
    BY Deltaless DEF ViewOK
  <2>2. ~(~v.is_deleted /\ v.current = NoObject)
    BY DEF Hashed, Shows, NoObject
  <2>3. new \in Seq(Elements)
    BY DEF Hashed
  <2>4. Len(new) \in Nat /\ DOMAIN new = 1 .. Len(new)
    BY <2>3
  <2> QED BY <2>1, <2>2, <2>3, <2>4 DEF Hashed, NoHashes
<1>1. A \in Seq(N) /\ (v.hs_size_increase # {} => Len(A) > 0)
  <2>1. CASE v.hs_size_increase = {}
    <3>1. A = <<>>
      BY <2>1, NoneOf
    <3> QED BY <2>1, <3>1
  <2>2. ASSUME NEW n \in Nat, v.hs_size_increase = {n} PROVE A \in Seq(N) /\ Len(A) > 0
    <3> DEFINE d == IncreaseLimit(Min({n, MaxSize}))
    <3>1. {IncreaseLimit(Min({m, MaxSize})) : m \in v.hs_size_increase} = {d}
      BY <2>2
    <3>2. A = <<d>>
      BY <3>1, SeqOfOne DEF Increasing
    <3>3. Min({n, MaxSize}) = IF n <= MaxSize THEN n ELSE MaxSize
      BY MinPair, ExecutionAssumption
    <3>4. Min({n, MaxSize}) \in Nat
      BY <3>3, ExecutionAssumption
    <3>5. Inc(d)
      BY <3>4 DEF IncreaseLimit
    <3> HIDE DEF d, A, Inc
    <3>6. d \in N
      <4>1. 1 \in DOMAIN A /\ A[1] = d
        BY <3>2
      <4> QED BY <3>5, <4>1
    <3> HIDE DEF N
    <3> QED BY <3>2, <3>6
  <2> QED BY <1>0, <2>1, <2>2 DEF AtMostOne
<1>2. /\ B \in Seq({Insert(h) : h \in Elements}) /\ Len(B) = Len(new)
      /\ \A j \in 1 .. Len(new) : B[j] = Insert(new[j])
  <2>1. B = [i \in 1 .. Len(new) |-> Insert(new[i])]
    BY <1>0 DEF Inserting
  <2>2. \A i \in 1 .. Len(new) : Insert(new[i]) \in {Insert(h) : h \in Elements}
    BY <1>0, ElementOf
  <2> HIDE DEF B, new
  <2> QED BY <1>0, <2>1, <2>2
<1>3. /\ C \in Seq({Clear(t) : t \in v.hs_clear_threshold})
      /\ \A t \in v.hs_clear_threshold : 1 \in DOMAIN C /\ C[1] = Clear(t)
  <2>1. CASE v.hs_clear_threshold = {}
    <3>1. C = <<>>
      BY <2>1, NoneOf
    <3> QED BY <2>1, <3>1
  <2>2. ASSUME NEW n \in Nat, v.hs_clear_threshold = {n}
        PROVE  /\ C \in Seq({Clear(t) : t \in v.hs_clear_threshold})
               /\ \A t \in v.hs_clear_threshold : 1 \in DOMAIN C /\ C[1] = Clear(t)
    <3>1. {Clear(t) : t \in v.hs_clear_threshold} = {Clear(n)}
      BY <2>2
    <3>2. C = <<Clear(n)>>
      BY <3>1, SeqOfOne DEF Clearing
    <3> HIDE DEF C
    <3> QED BY <2>2, <3>1, <3>2
  <2> QED BY <1>0, <2>1, <2>2 DEF AtMostOne
<1>4. /\ E \in Seq({DeleteLast})
      /\ v.is_deleted => 1 \in DOMAIN E /\ E[1] = DeleteLast
      /\ ~v.is_deleted => E = <<>>
  <2>1. <<DeleteLast>> \in Seq({DeleteLast}) /\ <<>> \in Seq({DeleteLast})
    OBVIOUS
  <2>2. 1 \in DOMAIN <<DeleteLast>> /\ <<DeleteLast>>[1] = DeleteLast
    OBVIOUS
  <2> QED BY <2>1, <2>2, Zenon DEF Deleting
<1>5. GetDeltas(v) = ((A \o B) \o C) \o E
  <2>1. Writing(v) = <<>> /\ Adding(v) = <<>>
    BY NoneOf DEF Hashed
  <2>2. GetDeltas(v) = <<>> \o <<>> \o A \o B \o C \o <<>> \o E
    BY <1>0, <2>1, Segments
  <2> HIDE DEF A, B, C, E
  <2>3. A \in Seq(S) /\ B \in Seq(S) /\ C \in Seq(S) /\ E \in Seq(S)
    <3> HIDE DEF N
    <3> QED BY <1>1, <1>2, <1>3, <1>4
  <2> HIDE DEF S
  <2>4. <<>> \o <<>> = <<>> /\ <<>> \o A = A /\ (A \o B) \o C \in Seq(S)
    BY <2>3, NoSegment, Joined
  <2>5. ((A \o B) \o C) \o <<>> = (A \o B) \o C
    BY <2>4, NoSegment
  <2> QED BY <2>2, <2>4, <2>5
<1> DEFINE D == GetDeltas(v)
           a == Len(A)  b == Len(new)  c == Len(C)  e == Len(E)
<1>6. /\ a \in Nat /\ b \in Nat /\ c \in Nat /\ e \in Nat
      /\ A \in Seq(S) /\ B \in Seq(S) /\ C \in Seq(S) /\ E \in Seq(S)
      /\ DOMAIN A = 1 .. a /\ DOMAIN B = 1 .. b /\ DOMAIN C = 1 .. c /\ DOMAIN E = 1 .. e
      /\ \A i \in 1 .. a : Inc(A[i])
      /\ \A i \in 1 .. c : \E t \in v.hs_clear_threshold : C[i] = Clear(t)
      /\ \A i \in 1 .. e : v.is_deleted /\ E[i] = DeleteLast
  <2> HIDE DEF A, B, C, E
  <2>1. a \in Nat /\ DOMAIN A = 1 .. a /\ \A i \in 1 .. a : A[i] \in N
    <3> HIDE DEF N
    <3> QED BY <1>1
  <2>2. \A i \in 1 .. a : Inc(A[i])
    BY <2>1
  <2>3. A \in Seq(S) /\ B \in Seq(S) /\ C \in Seq(S) /\ E \in Seq(S)
    <3> HIDE DEF N
    <3> QED BY <1>1, <1>2, <1>3, <1>4
  <2>4. /\ c \in Nat /\ DOMAIN C = 1 .. c
        /\ \A i \in 1 .. c : C[i] \in {Clear(t) : t \in v.hs_clear_threshold}
    BY <1>3
  <2>5. e \in Nat /\ DOMAIN E = 1 .. e /\ \A i \in 1 .. e : E[i] = DeleteLast /\ v.is_deleted
    BY <1>4
  <2>6. b \in Nat /\ DOMAIN B = 1 .. b
    BY <1>0, <1>2
  <2> HIDE DEF S, Inc, N, a, b, c, e
  <2> QED BY <2>1, <2>2, <2>3, <2>4, <2>5, <2>6
<1> HIDE DEF A, B, C, E, S
<1>7. /\ Len(A \o B) = a + b /\ A \o B \in Seq(S)
      /\ \A i \in 1 .. a : (A \o B)[i] = A[i]
      /\ \A i \in 1 .. b : (A \o B)[a + i] = B[i]
  <2>1. /\ A \o B \in Seq(S) /\ Len(A \o B) = Len(A) + Len(B)
        /\ \A i \in 1 .. Len(A) : (A \o B)[i] = A[i]
        /\ \A i \in 1 .. Len(B) : (A \o B)[Len(A) + i] = B[i]
    <3>1. A \in Seq(S) /\ B \in Seq(S)
      BY <1>6
    <3> HIDE DEF a, b, c, e, D, Inc, N
    <3> QED BY <3>1, Joined
  <2> QED BY <1>2, <2>1
<1>8. /\ Len((A \o B) \o C) = a + b + c /\ (A \o B) \o C \in Seq(S)
      /\ \A i \in 1 .. a + b : ((A \o B) \o C)[i] = (A \o B)[i]
      /\ \A i \in 1 .. c : ((A \o B) \o C)[a + b + i] = C[i]
  <2> DEFINE F == A \o B
  <2> HIDE DEF F
  <2>1. F \in Seq(S) /\ Len(F) = a + b
    BY <1>7 DEF F
  <2>2. /\ F \o C \in Seq(S) /\ Len(F \o C) = Len(F) + Len(C)
        /\ \A i \in 1 .. Len(F) : (F \o C)[i] = F[i]
        /\ \A i \in 1 .. Len(C) : (F \o C)[Len(F) + i] = C[i]
    <3>1. F \in Seq(S) /\ C \in Seq(S)
      BY <1>6, <2>1
    <3> HIDE DEF a, b, c, e, D, Inc, N
    <3> QED BY <3>1, Joined
  <2> QED BY <2>1, <2>2 DEF F
<1>9. /\ Len(D) = a + b + c + e /\ DOMAIN D = 1 .. a + b + c + e
      /\ \A i \in 1 .. a + b + c : D[i] = ((A \o B) \o C)[i]
      /\ \A i \in 1 .. e : D[a + b + c + i] = E[i]
  <2> DEFINE F == (A \o B) \o C
  <2> HIDE DEF F
  <2>1. F \in Seq(S) /\ Len(F) = a + b + c /\ D = F \o E
    BY <1>5, <1>8 DEF F
  <2> HIDE DEF D
  <2>2. /\ DOMAIN (F \o E) = 1 .. Len(F) + Len(E) /\ Len(F \o E) = Len(F) + Len(E)
        /\ \A i \in 1 .. Len(F) : (F \o E)[i] = F[i]
        /\ \A i \in 1 .. Len(E) : (F \o E)[Len(F) + i] = E[i]
    <3>1. F \in Seq(S) /\ E \in Seq(S)
      BY <1>6, <2>1
    <3> HIDE DEF a, b, c, e, D, Inc, N
    <3> QED BY <3>1, Joined
  <2> QED BY <2>1, <2>2 DEF F
<1> HIDE DEF D, a, b, c, e, Inc, N
<1>10. /\ \A i \in 1 .. a : D[i] = A[i]
       /\ \A i \in 1 .. b : D[a + i] = B[i]
       /\ \A i \in 1 .. c : D[a + b + i] = C[i]
  <2>1. ASSUME NEW i \in 1 .. a PROVE D[i] = A[i]
    <3>1. i \in 1 .. a + b /\ i \in 1 .. a + b + c
      BY <1>6
    <3> QED BY <1>7, <1>8, <1>9, <3>1
  <2>2. ASSUME NEW i \in 1 .. b PROVE D[a + i] = B[i]
    <3>1. a + i \in 1 .. a + b /\ a + i \in 1 .. a + b + c
      BY <1>6
    <3> QED BY <1>7, <1>8, <1>9, <3>1
  <2>3. ASSUME NEW i \in 1 .. c PROVE D[a + b + i] = C[i]
    <3>1. a + b + i \in 1 .. a + b + c
      BY <1>6
    <3> QED BY <1>8, <1>9, <3>1
  <2> QED BY <2>1, <2>2, <2>3
<1>11. ASSUME NEW i \in DOMAIN D
       PROVE  \/ Inc(D[i])
              \/ i - a \in DOMAIN new /\ D[i] = Insert(new[i - a])
              \/ \E t \in v.hs_clear_threshold : D[i] = Clear(t)
              \/ v.is_deleted /\ D[i] = DeleteLast
  <2>1. i \in 1 .. a + b + c + e
    BY <1>9
  <2>2. CASE i \in 1 .. a
    BY <1>6, <1>10, <2>2
  <2>3. CASE i - a \in 1 .. b
    <3>1. a + (i - a) = i
      BY <1>6, <2>1
    <3>2. D[i] = B[i - a]
      BY <1>10, <2>3, <3>1
    <3> QED BY <1>0, <1>2, <2>3, <3>2 DEF b
  <2>4. CASE i - (a + b) \in 1 .. c
    <3>1. a + b + (i - (a + b)) = i
      BY <1>6, <2>1
    <3>2. D[i] = C[i - (a + b)]
      BY <1>10, <2>4, <3>1
    <3> QED BY <1>6, <2>4, <3>2
  <2>5. CASE i - (a + b + c) \in 1 .. e
    <3>1. a + b + c + (i - (a + b + c)) = i
      BY <1>6, <2>1
    <3>2. D[i] = E[i - (a + b + c)]
      BY <1>9, <2>5, <3>1
    <3> QED BY <1>6, <2>5, <3>2
  <2>6. \/ i \in 1 .. a \/ i - a \in 1 .. b \/ i - (a + b) \in 1 .. c
        \/ i - (a + b + c) \in 1 .. e
    BY <1>6, <2>1
  <2> QED BY <2>2, <2>3, <2>4, <2>5, <2>6
<1>12. ASSUME NEW j \in DOMAIN new PROVE j + a \in DOMAIN D /\ D[j + a] = Insert(new[j])
  <2>1. j \in 1 .. b
    BY <1>0 DEF b
  <2>2. a + j = j + a /\ a + j \in 1 .. a + b + c + e
    BY <1>6, <2>1
  <2>3. D[a + j] = B[j] /\ B[j] = Insert(new[j])
    BY <1>2, <1>10, <2>1 DEF b
  <2> QED BY <1>9, <2>2, <2>3
<1>13. ASSUME NEW t \in v.hs_clear_threshold PROVE \E i \in DOMAIN D : D[i] = Clear(t)
  <2>1. 1 \in 1 .. c /\ C[1] = Clear(t)
    BY <1>3, <1>6
  <2>2. a + b + 1 \in 1 .. a + b + c + e
    BY <1>6, <2>1
  <2> QED BY <1>9, <1>10, <2>1, <2>2
<1>14. ASSUME v.is_deleted PROVE \E i \in DOMAIN D : D[i] = DeleteLast
  <2>1. 1 \in 1 .. e /\ E[1] = DeleteLast
    BY <1>4, <1>6, <1>14
  <2>2. a + b + c + 1 \in 1 .. a + b + c + e
    BY <1>6, <2>1
  <2> QED BY <1>9, <2>1, <2>2
<1>15. Len(D) \in Nat /\ Len(D) > 0
  <2>1. a > 0 \/ b > 0 \/ c > 0
    <3>1. v.hs_size_increase # {} => a > 0
      BY <1>1 DEF a
    <3>2. new # <<>> => b > 0
      BY <1>0 DEF b
    <3>3. v.hs_clear_threshold # {} => c > 0
      <4>1. v.hs_clear_threshold # {} => 1 \in 1 .. c
        BY <1>3, <1>6
      <4> QED BY <1>6, <4>1
    <3> QED BY <1>0, <3>1, <3>2, <3>3
  <2> QED BY <1>6, <1>9, <2>1
<1>16. DOMAIN D = 1 .. Len(D)
  BY <1>9
<1>17. HashDeltas(v, D)
  <2> HIDE DEF new
  <2>1. \E k \in Nat :
          /\ \A i \in DOMAIN D :
               \/ Inc(D[i])
               \/ i - k \in DOMAIN new /\ D[i] = Insert(new[i - k])
               \/ \E t \in v.hs_clear_threshold : D[i] = Clear(t)
               \/ v.is_deleted /\ D[i] = DeleteLast
          /\ \A j \in DOMAIN new : j + k \in DOMAIN D /\ D[j + k] = Insert(new[j])
    BY <1>6, <1>11, <1>12, Zenon
  <2> QED BY <1>13, <1>14, <1>15, <1>16, <2>1, Zenon DEF HashDeltas, Inc, new
<1> QED BY <1>17 DEF D

-----------------------------------------------------------------------------
(* What the deltas of a view do when the transaction is alone              *)

\* ProxyApplicator::get on a view.
Visible(v) == IF v.is_deleted THEN NoObject ELSE v.current

\* A deletion that is last, and what is before it.
LEMMA LastOf ==
  ASSUME NEW v, NEW x, NEW D, Begins(D, x, v)
  PROVE  /\ ~v.is_deleted => D = <<x>> /\ DOMAIN D = {1} /\ D[1] = x
         /\ v.is_deleted => DOMAIN D = {1, 2} /\ D[1] = x /\ D[2] = DeleteLast
<1>1. ~v.is_deleted => D = <<x>>
  BY NoSegment, <<x>> \in Seq({x}) DEF Deleting, Begins
<1>2. DOMAIN <<x>> = {1} /\ <<x>>[1] = x
  OBVIOUS
<1>3. ASSUME v.is_deleted PROVE DOMAIN D = {1, 2} /\ D[1] = x /\ D[2] = DeleteLast
  <2> DEFINE s == <<x>>  t == <<DeleteLast>>  S == {x, DeleteLast}
  <2>1. s \in Seq(S) /\ t \in Seq(S) /\ Len(s) = 1 /\ Len(t) = 1
        /\ s[1] = x /\ t[1] = DeleteLast
    OBVIOUS
  <2>2. D = s \o t
    BY <1>3 DEF Deleting, Begins
  <2> HIDE DEF s, t, S
  <2>3. /\ DOMAIN (s \o t) = 1 .. Len(s) + Len(t)
        /\ \A i \in 1 .. Len(s) : (s \o t)[i] = s[i]
        /\ \A i \in 1 .. Len(t) : (s \o t)[Len(s) + i] = t[i]
    <3>1. s \in Seq(S) /\ t \in Seq(S)
      BY <2>1
    <3> QED BY <3>1, Joined
  <2> QED BY <2>1, <2>2, <2>3
<1> QED BY <1>1, <1>2, <1>3

\* A view with one delta before a possible deletion makes that delta first.
LEMMA LastForm ==
  ASSUME NEW v, NEW x, NEW D, Begins(D, x, v)
  PROVE  /\ DOMAIN D = 1 .. Len(D) /\ Len(D) \in Nat
         /\ \A j \in DOMAIN D : D[j] = DeleteLast \/ (j = 1 /\ D[j] = x)
<1> DEFINE y == DeleteLast  S == {x, y}
<1> HIDE DEF y
<1>1. <<x>> \in Seq(S) /\ <<y>> \in Seq(S) /\ <<>> \in Seq(S)
  OBVIOUS
<1>2. Deleting(v) \in Seq(S)
  BY <1>1, Zenon DEF Deleting, y
<1> HIDE DEF S
<1>3. D \in Seq(S)
  <2>1. <<x>> \o Deleting(v) \in Seq(S)
    BY <1>1, <1>2
  <2> QED BY <2>1 DEF Begins
<1>4. DOMAIN D = 1 .. Len(D) /\ Len(D) \in Nat
  BY <1>3
<1>5. v.is_deleted => DOMAIN D = {1, 2} /\ D[1] = x /\ D[2] = DeleteLast
  BY LastOf, Zenon
<1>6. ~v.is_deleted => DOMAIN D = {1} /\ D[1] = x
  BY LastOf, Zenon
<1>7. \A j \in DOMAIN D : D[j] = DeleteLast \/ (j = 1 /\ D[j] = x)
  <2>1. CASE v.is_deleted
    BY <1>5, <2>1
  <2>2. CASE ~v.is_deleted
    BY <1>6, <2>2
  <2> QED BY <2>1, <2>2
<1> QED BY <1>4, <1>7

\* A deletion among the deltas leaves no object.
LEMMA DeletedOutcome ==
  ASSUME NEW o, NEW D, NEW i \in DOMAIN D, D[i] = DeleteLast
  PROVE  Outcome(o, D, DOMAIN D) = NoObject
<1>1. D[i].type = "DELETE_LAST"
  BY DEF DeleteLast
<1>2. Touching(D, DOMAIN D) # DOMAIN D /\ DOMAIN D # {}
  BY <1>1 DEF Touching
<1> QED BY <1>2, Zenon DEF Outcome

\* A key that was deleted last has no object, whatever was done before.
LEMMA DeletedLast ==
  ASSUME NEW o, NEW v, ViewOK(o, v), v.is_deleted
  PROVE  Outcome(o, GetDeltas(v), DOMAIN GetDeltas(v)) = NoObject
<1> DEFINE D == GetDeltas(v)
<1>1. \E i \in DOMAIN D : D[i] = DeleteLast
  <2>1. CASE Untouched(o, v)
    <3>1. D = <<DeleteLast>>
      BY <2>1, FewDeltas DEF Deleting
    <3> QED BY <3>1
  <2>2. CASE Written(o, v)
    <3>1. PICK d : Begins(D, Write(d), v)
      BY <2>2, FewDeltas DEF Written
    <3> HIDE DEF D
    <3>2. DOMAIN D = {1, 2} /\ D[2] = DeleteLast
      BY <3>1, LastOf
    <3> QED BY <3>2
  <2>3. CASE Added(o, v)
    <3>1. PICK s, x : Begins(D, SetAdd(s, x), v)
      BY <2>3, FewDeltas DEF Added
    <3> HIDE DEF D
    <3>2. DOMAIN D = {1, 2} /\ D[2] = DeleteLast
      BY <3>1, LastOf
    <3> QED BY <3>2
  <2>4. CASE Hashed(o, v)
    BY <2>4, HashDeltasOf DEF HashDeltas
  <2> QED BY <2>1, <2>2, <2>3, <2>4 DEF ViewOK
<1> QED BY <1>1, DeletedOutcome

\* One write or addition.
LEMMA OneOutcome ==
  ASSUME NEW o, NEW d, d.type # "DELETE_LAST"
  PROVE  /\ DeltaClass(d).type = "RAW_MEMORY" => Outcome(o, <<d>>, {1}) = DeltaClass(d)
         /\ DeltaClass(d).type = "NONNEGATIVE_INT64" =>
              Outcome(o, <<d>>, {1}) =
                [DeltaClass(d) EXCEPT !.value = Min({MaxInt, @ + Total(<<d>>, {1})})]
<1> DEFINE D == <<d>>
<1>1. (CHOOSE i \in {1} : TRUE) = 1 /\ D[1] = d
  OBVIOUS
<1>2. Touching(D, {1}) = {1} /\ {1} # {}
  BY <1>1 DEF Touching
<1> HIDE DEF D
<1>3. Outcome(o, D, {1}) =
        CASE DeltaClass(d).type = "NONNEGATIVE_INT64" ->
               [DeltaClass(d) EXCEPT !.value = Min({MaxInt, @ + Total(D, {1})})]
          [] DeltaClass(d).type = "RAW_MEMORY" -> DeltaClass(d)
          [] DeltaClass(d).type = "KNOWN_SUPPLY_ASSET" ->
               [DeltaClass(d) EXCEPT !.value = Supply(o) + Total(D, {1})]
          [] DeltaClass(d).type = "HASH_SET" ->
               [type |-> "HASH_SET",
                max_size |-> Min({MaxSize, SizeLimit(o)
                                    + Increase(D, OfType(D, {1}, "HASH_SET_INCREASE_LIMIT"))}),
                hashes |-> {h \in Hashes(o) \cup {D[p].hash : p \in OfType(D, {1}, "HASH_SET_INSERT")} :
                              \A p \in OfType(D, {1}, "HASH_SET_CLEAR") : h.index > D[p].threshold}]
  BY <1>1, <1>2, Zenon DEF Outcome
<1>4. DeltaClass(d).type = "RAW_MEMORY" => Outcome(o, D, {1}) = DeltaClass(d)
  BY <1>3
<1>5. DeltaClass(d).type = "NONNEGATIVE_INT64" =>
        Outcome(o, D, {1}) = [DeltaClass(d) EXCEPT !.value = Min({MaxInt, @ + Total(D, {1})})]
  BY <1>3
<1> QED BY <1>4, <1>5 DEF D

\* What a write leaves.
LEMMA WriteOutcome ==
  ASSUME NEW o, NEW d
  PROVE  Outcome(o, <<Write(d)>>, {1}) = [type |-> "RAW_MEMORY", value |-> d]
<1>1. DeltaClass(Write(d)) = [type |-> "RAW_MEMORY", value |-> d] /\ Write(d).type # "DELETE_LAST"
  BY DEF Write, DeltaClass
<1>2. DeltaClass(Write(d)).type = "RAW_MEMORY"
  BY <1>1
<1> QED BY <1>1, <1>2, OneOutcome, Zenon

\* What an addition leaves: the sum, saturated.
LEMMA AddOutcome ==
  ASSUME NEW o, NEW s \in Int, NEW x \in Int
  PROVE  Outcome(o, <<SetAdd(s, x)>>, {1}) =
           [type |-> "NONNEGATIVE_INT64", value |-> Min({MaxInt, s + x})]
<1> DEFINE d == SetAdd(s, x)
           D == <<d>>
           f == [i \in {1} |-> Amount(D[i])]
<1>1. d.type = "NONNEGATIVE_INT64_SET_ADD" /\ d.set_value = s /\ d.delta = x /\ D[1] = d
  BY DEF SetAdd
<1> HIDE DEF d
<1>2. DeltaClass(d) = [type |-> "NONNEGATIVE_INT64", value |-> s]
  BY <1>1 DEF DeltaClass
<1>3. f[1] = x
  BY <1>1 DEF Amount
<1>4. Total(D, {1}) = x
  <2>1. SumFunctionOnSet(f, {1}) = f[1]
    <3> HIDE DEF f
    <3> QED BY <1>3, SumOne
  <2> QED BY <1>3, <2>1 DEF Total
<1>5. Outcome(o, D, {1}) = [DeltaClass(d) EXCEPT !.value = Min({MaxInt, @ + Total(D, {1})})]
  BY <1>1, <1>2, OneOutcome
<1> HIDE DEF D
<1>6. [DeltaClass(d) EXCEPT !.value = Min({MaxInt, @ + Total(D, {1})})]
        = [type |-> "NONNEGATIVE_INT64", value |-> Min({MaxInt, s + x})]
  <2> DEFINE r == DeltaClass(d)  t == Total(D, {1})
  <2>1. r \in [type : {"NONNEGATIVE_INT64"}, value : {s}] /\ t = x
    BY <1>2, <1>4
  <2> HIDE DEF r, t
  <2>2. [r EXCEPT !.value = Min({MaxInt, @ + t})] = [r EXCEPT !.value = Min({MaxInt, s + x})]
    BY <2>1
  <2> DEFINE m == Min({MaxInt, s + x})
  <2> HIDE DEF m
  <2>3. [r EXCEPT !.value = m] \in [type : {"NONNEGATIVE_INT64"}, value : {m}]
    BY <2>1
  <2>4. [r EXCEPT !.value = m] = [type |-> "NONNEGATIVE_INT64", value |-> m]
    BY <2>3
  <2> QED BY <2>2, <2>4, Zenon DEF r, t, m
<1> QED BY <1>5, <1>6 DEF D, d

\* A sum of naturals is a natural.
LEMMA SumNat ==
  ASSUME NEW f, NEW S, IsFiniteSet(S), \A x \in S : f[x] \in Nat
  PROVE  SumFunctionOnSet(f, S) \in Nat
<1> DEFINE z == [x \in S |-> 0]
<1>1. SumFunctionOnSet(z, S) = 0
  BY SumZero
<1>2. SumFunctionOnSet(z, S) <= SumFunctionOnSet(f, S)
  <2>1. \A x \in S : z[x] \in Int /\ f[x] \in Int /\ z[x] <= f[x]
    OBVIOUS
  <2> HIDE DEF z
  <2> QED BY <2>1, SumLe
<1>3. SumFunctionOnSet(f, S) \in Int
  <2>1. \A x \in S : f[x] \in Int
    OBVIOUS
  <2> QED BY <2>1, SumInt
<1> QED BY <1>1, <1>2, <1>3

\* The deltas on a hash set by their types.
LEMMA HashTypes ==
  ASSUME NEW v, NEW D, HashDeltas(v, D), NEW i \in DOMAIN D
  PROVE  /\ D[i].type \in {"HASH_SET_INCREASE_LIMIT", "HASH_SET_INSERT", "HASH_SET_CLEAR",
                           "DELETE_LAST"}
         /\ D[i].type = "HASH_SET_INCREASE_LIMIT" => D[i].limit_increase \in Nat
         /\ D[i].type = "HASH_SET_INSERT" =>
              \E j \in DOMAIN v.new_hashes : D[i].hash = v.new_hashes[j]
         /\ D[i].type = "HASH_SET_CLEAR" => D[i].threshold \in v.hs_clear_threshold
         /\ D[i].type = "DELETE_LAST" => v.is_deleted
         /\ D[i].type # "DELETE_LAST" => DeltaClass(D[i]) = [type |-> "HASH_SET", value |-> 0]
<1>1. /\ \A h : Insert(h).type = "HASH_SET_INSERT" /\ Insert(h).hash = h
      /\ \A t : Clear(t).type = "HASH_SET_CLEAR" /\ Clear(t).threshold = t
      /\ DeleteLast.type = "DELETE_LAST"
  BY DEF Insert, Clear, DeleteLast
<1>2. PICK k : \A j \in DOMAIN D :
              \/ D[j].type = "HASH_SET_INCREASE_LIMIT" /\ D[j].limit_increase \in Nat
              \/ j - k \in DOMAIN v.new_hashes /\ D[j] = Insert(v.new_hashes[j - k])
              \/ \E t \in v.hs_clear_threshold : D[j] = Clear(t)
              \/ v.is_deleted /\ D[j] = DeleteLast
  BY DEF HashDeltas
<1>3. \/ D[i].type = "HASH_SET_INCREASE_LIMIT" /\ D[i].limit_increase \in Nat
      \/ /\ D[i].type = "HASH_SET_INSERT"
         /\ \E j \in DOMAIN v.new_hashes : D[i].hash = v.new_hashes[j]
      \/ D[i].type = "HASH_SET_CLEAR" /\ D[i].threshold \in v.hs_clear_threshold
      \/ D[i].type = "DELETE_LAST" /\ v.is_deleted
  <2>1. CASE i - k \in DOMAIN v.new_hashes /\ D[i] = Insert(v.new_hashes[i - k])
    BY <1>1, <2>1
  <2>2. CASE \E t \in v.hs_clear_threshold : D[i] = Clear(t)
    BY <1>1, <2>2
  <2>3. CASE v.is_deleted /\ D[i] = DeleteLast
    BY <1>1, <2>3
  <2> QED BY <1>2, <2>1, <2>2, <2>3
<1>4. D[i].type \in {"HASH_SET_INCREASE_LIMIT", "HASH_SET_INSERT", "HASH_SET_CLEAR"} =>
        DeltaClass(D[i]) = [type |-> "HASH_SET", value |-> 0]
  BY DEF DeltaClass
<1> QED BY <1>3, <1>4

\* What the deltas on a hash set leave are the elements above the threshold.
LEMMA HashOutcome ==
  ASSUME NEW o, IsObject(o), NEW v, ViewOK(o, v), Hashed(o, v), ~v.is_deleted
  PROVE  \E m \in Nat : Outcome(o, GetDeltas(v), DOMAIN GetDeltas(v)) =
                          [type |-> "HASH_SET", max_size |-> m, hashes |-> Left(o, v)]
<1> DEFINE D == GetDeltas(v)
           C == DOMAIN D
           first == CHOOSE i \in C : TRUE
           clears == OfType(D, C, "HASH_SET_CLEAR")
           increases == OfType(D, C, "HASH_SET_INCREASE_LIMIT")
           inserted == {D[i].hash : i \in OfType(D, C, "HASH_SET_INSERT")}
           size == Min({MaxSize, SizeLimit(o) + Increase(D, increases)})
           rest == {h \in Hashes(o) \cup inserted : \A i \in clears : h.index > D[i].threshold}
<1>1. HashDeltas(v, D)
  BY HashDeltasOf
<1> HIDE DEF D
<1>2. C # {} /\ C = 1 .. Len(D) /\ Len(D) \in Nat
  <2>1. DOMAIN D = 1 .. Len(D) /\ Len(D) \in Nat /\ Len(D) > 0
    BY <1>1 DEF HashDeltas
  <2>2. 1 \in 1 .. Len(D)
    BY <2>1
  <2> QED BY <2>1, <2>2
<1>3. first \in C
  BY <1>2
<1>4. Touching(D, C) = C /\ DeltaClass(D[first]).type = "HASH_SET"
  <2>1. \A i \in C : D[i].type # "DELETE_LAST"
    BY <1>1, HashTypes
  <2>2. DeltaClass(D[first]) = [type |-> "HASH_SET", value |-> 0]
    BY <1>1, <1>3, <2>1, HashTypes
  <2> QED BY <2>1, <2>2 DEF Touching
<1>5. Outcome(o, D, C) = [type |-> "HASH_SET", max_size |-> size, hashes |-> rest]
  <2>1. Outcome(o, D, C) =
          CASE DeltaClass(D[first]).type = "NONNEGATIVE_INT64" ->
                 [DeltaClass(D[first]) EXCEPT !.value = Min({MaxInt, @ + Total(D, C)})]
            [] DeltaClass(D[first]).type = "RAW_MEMORY" -> DeltaClass(D[first])
            [] DeltaClass(D[first]).type = "KNOWN_SUPPLY_ASSET" ->
                 [DeltaClass(D[first]) EXCEPT !.value = Supply(o) + Total(D, C)]
            [] DeltaClass(D[first]).type = "HASH_SET" ->
                 [type |-> "HASH_SET", max_size |-> size, hashes |-> rest]
    BY <1>2, <1>4, Zenon DEF Outcome
  <2> HIDE DEF size, rest, first, C
  <2> QED BY <1>4, <2>1
<1>6. inserted = Range(v.new_hashes)
  <2>1. ASSUME NEW i \in OfType(D, C, "HASH_SET_INSERT") PROVE D[i].hash \in Range(v.new_hashes)
    <3>1. i \in DOMAIN D /\ D[i].type = "HASH_SET_INSERT"
      BY <2>1 DEF OfType
    <3>2. PICK j \in DOMAIN v.new_hashes : D[i].hash = v.new_hashes[j]
      BY <1>1, <3>1, HashTypes
    <3> QED BY <3>2 DEF Range
  <2>2. ASSUME NEW x \in Range(v.new_hashes) PROVE x \in inserted
    <3>1. PICK j \in DOMAIN v.new_hashes : x = v.new_hashes[j]
      BY <2>2 DEF Range
    <3>2. PICK i \in DOMAIN D : D[i] = Insert(x)
      BY <1>1, <3>1 DEF HashDeltas
    <3>3. D[i].type = "HASH_SET_INSERT" /\ D[i].hash = x
      BY <3>2 DEF Insert
    <3> QED BY <3>3 DEF OfType
  <2> QED BY <2>1, <2>2
<1>7. {D[i].threshold : i \in clears} = v.hs_clear_threshold
  <2>1. \A i \in clears : D[i].threshold \in v.hs_clear_threshold
    BY <1>1, HashTypes DEF OfType
  <2>2. ASSUME NEW t \in v.hs_clear_threshold PROVE t \in {D[i].threshold : i \in clears}
    <3>1. PICK i \in DOMAIN D : D[i] = Clear(t)
      BY <1>1 DEF HashDeltas
    <3>2. D[i].type = "HASH_SET_CLEAR" /\ D[i].threshold = t
      BY <3>1 DEF Clear
    <3> QED BY <3>2 DEF OfType
  <2> QED BY <2>1, <2>2
<1>8. rest = Left(o, v)
  <2>1. \A h : (\A i \in clears : h.index > D[i].threshold)
                 <=> \A t \in {D[i].threshold : i \in clears} : h.index > t
    OBVIOUS
  <2>2. rest = {h \in Members(o, v) : \A t \in v.hs_clear_threshold : h.index > t}
    <3> HIDE DEF clears, inserted
    <3> QED BY <1>6, <1>7, <2>1 DEF Members
  <2> QED BY <2>2 DEF Left
<1>9. size \in Nat
  <2> DEFINE f == [i \in increases |-> D[i].limit_increase]
  <2>1. \A i \in increases : f[i] \in Nat
    BY <1>1, HashTypes DEF OfType
  <2>2. IsFiniteSet(increases)
    <3>1. IsFiniteSet(1 .. Len(D))
      BY <1>2, FS_Interval
    <3> QED BY <1>2, <3>1, FS_Subset DEF OfType
  <2>3. Increase(D, increases) \in Nat
    <3>1. SumFunctionOnSet(f, increases) \in Nat
      <4> HIDE DEF f, increases
      <4> QED BY <2>1, <2>2, SumNat
    <3> QED BY <3>1 DEF Increase
  <2>4. SizeLimit(o) \in Nat
    BY HashFacts DEF Hashed
  <2> DEFINE n == SizeLimit(o) + Increase(D, increases)
  <2>5. n \in Nat
    BY <2>3, <2>4
  <2> HIDE DEF n
  <2>6. Min({MaxSize, n}) = IF MaxSize <= n THEN MaxSize ELSE n
    BY <2>5, ExecutionAssumption, MinPair
  <2>7. Min({MaxSize, n}) \in Nat
    BY <2>5, <2>6, ExecutionAssumption
  <2> QED BY <2>7 DEF n
<1> HIDE DEF size, rest
<1> QED BY <1>5, <1>8, <1>9 DEF D

\* What a transaction sees of a key is what it would leave there, alone.
LEMMA ViewOutcome ==
  ASSUME NEW o, IsObject(o), NEW v, ViewOK(o, v)
  PROVE  LET after == Outcome(o, GetDeltas(v), DOMAIN GetDeltas(v))
         IN  /\ IsObject(after)
             /\ IF after.type = "HASH_SET" THEN Visible(v).hashes = after.hashes
                ELSE Visible(v) = after
<1> DEFINE D == GetDeltas(v)
           after == Outcome(o, D, DOMAIN D)
<1>1. CASE v.is_deleted
  <2>1. after = NoObject /\ Visible(v) = NoObject
    BY <1>1, DeletedLast DEF Visible
  <2> HIDE DEF after
  <2>2. after.type # "HASH_SET"
    BY <2>1 DEF NoObject
  <2> QED BY <2>1, <2>2 DEF IsObject, after
<1>2. CASE ~v.is_deleted
  <2>0. Visible(v) = v.current
    BY <1>2 DEF Visible
  <2>1. CASE Untouched(o, v)
    <3>1. D = <<>>
      BY <1>2, <2>1, FewDeltas DEF Deleting
    <3>2. after = o
      <4>1. DOMAIN D = {}
        BY <3>1
      <4> HIDE DEF D
      <4> QED BY <4>1, Zenon DEF Outcome
    <3>3. v.current = o
      BY <1>2, <2>1 DEF Untouched, Shows
    <3> HIDE DEF after
    <3> QED BY <2>0, <3>2, <3>3 DEF after
  <2>2. CASE Written(o, v)
    <3>1. PICK d : /\ Begins(D, Write(d), v)
                   /\ v.current = [type |-> "RAW_MEMORY", value |-> d]
      BY <1>2, <2>2, FewDeltas DEF Written, Shows
    <3>2. D = <<Write(d)>> /\ DOMAIN D = {1}
      <4> HIDE DEF D
      <4> QED BY <1>2, <3>1, LastOf
    <3>3. after = [type |-> "RAW_MEMORY", value |-> d]
      BY <3>2, WriteOutcome
    <3> HIDE DEF after
    <3>4. after.type = "RAW_MEMORY" /\ after = v.current
      BY <3>1, <3>3
    <3> QED BY <2>0, <3>4 DEF IsObject, after
  <2>3. CASE Added(o, v)
    <3>1. PICK s \in MinInt .. MaxInt, x \in Int :
            /\ v.nnint64_delta = {[set_value |-> s, delta |-> x]}
            /\ x < 0 => s + x >= 0
            /\ v.current = [type |-> "NONNEGATIVE_INT64", value |-> Min({MaxInt, s + x})]
      BY <1>2, <2>3 DEF Added, Shows
    <3>2. v.current # NoObject
      BY <3>1 DEF NoObject
    <3>3. Begins(D, SetAdd(s, x), v)
      BY <2>3, <3>1, <3>2, FewDeltas DEF Added
    <3>4. D = <<SetAdd(s, x)>> /\ DOMAIN D = {1}
      <4> HIDE DEF D
      <4> QED BY <1>2, <3>3, LastOf
    <3>5. s \in Int /\ s >= MinInt /\ MinInt = -MaxInt - 1 /\ MaxInt \in Nat
      BY ExecutionAssumption DEF MinInt
    <3>6. after = [type |-> "NONNEGATIVE_INT64", value |-> Min({MaxInt, s + x})]
      <4>1. Outcome(o, <<SetAdd(s, x)>>, {1}) =
              [type |-> "NONNEGATIVE_INT64", value |-> Min({MaxInt, s + x})]
        BY <3>5, AddOutcome
      <4> HIDE DEF D
      <4> QED BY <3>4, <4>1, Zenon
    <3>7. Min({MaxInt, s + x}) \in MinInt .. MaxInt
      <4>1. Min({MaxInt, s + x}) = IF MaxInt <= s + x THEN MaxInt ELSE s + x
        BY <3>5, MinPair
      <4>2. s + x >= MinInt
        BY <3>1, <3>5
      <4> QED BY <3>5, <4>1, <4>2
    <3> HIDE DEF after
    <3>8. after.type = "NONNEGATIVE_INT64" /\ after = v.current /\ after.value \in MinInt .. MaxInt
      BY <3>1, <3>6, <3>7
    <3> QED BY <2>0, <3>8 DEF IsObject, after
  <2>4. CASE Hashed(o, v)
    <3>1. PICK m \in Nat : after = [type |-> "HASH_SET", max_size |-> m, hashes |-> Left(o, v)]
      BY <1>2, <2>4, HashOutcome
    <3>2. v.current = [type |-> "HASH_SET", hashes |-> Left(o, v), max_size |-> SizeLimit(o)]
      BY <1>2, <2>4 DEF Hashed, Shows
    <3>3. IsFiniteSet(Left(o, v))
      <4>1. IsFiniteSet(Members(o, v))
        BY <2>4 DEF Hashed
      <4> QED BY <4>1, FS_Subset DEF Left
    <3>4. \A h \in Left(o, v) : h.index \in Nat
      BY <2>4, HashFacts DEF Hashed, Left
    <3> HIDE DEF after
    <3>5. /\ after = [type |-> "HASH_SET", hashes |-> after.hashes, max_size |-> after.max_size]
          /\ after.hashes = Left(o, v) /\ after.max_size = m /\ after.type = "HASH_SET"
      BY <3>1
    <3>6. IsObject(after)
      BY <3>3, <3>4, <3>5 DEF IsObject
    <3>7. Visible(v).hashes = after.hashes
      BY <2>0, <3>2, <3>5
    <3> QED BY <3>5, <3>6, <3>7 DEF after
  <2> QED BY <2>1, <2>2, <2>3, <2>4 DEF ViewOK
<1> QED BY <1>1, <1>2 DEF ViewOK

\* A write or an addition, and a deletion: every choice of them is legal.
LEMMA FewLegal ==
  ASSUME NEW o, IsObject(o), NEW D, NEW C, NEW d,
         \A i \in C : D[i] = DeleteLast \/ (i = 1 /\ D[i] = d),
         \/ d.type = "RAW_MEMORY_WRITE"
         \/ /\ d.type = "NONNEGATIVE_INT64_SET_ADD" /\ d.set_value \in Int /\ d.delta \in Int
            /\ d.delta < 0 => d.set_value + d.delta >= 0
         \/ d = DeleteLast,
         d # DeleteLast => TypeAllowed(o, DeltaClass(d))
  PROVE  Legal(o, D, C)
<1>0. DeleteLast.type = "DELETE_LAST"
  BY DEF DeleteLast
<1>1. \A i \in C : D[i].type # "DELETE_LAST" => i = 1 /\ D[i] = d
  BY <1>0
<1> DEFINE ints == OfType(D, C, "NONNEGATIVE_INT64_SET_ADD")
           assets == OfType(D, C, "ASSET_OBJECT_ADD")
           inserts == OfType(D, C, "HASH_SET_INSERT")
<1>2. assets = {} /\ inserts = {}
  BY <1>0, <1>1 DEF OfType
<1>3. \A i \in Touching(D, C) : D[i] = d /\ d # DeleteLast
  BY <1>0, <1>1 DEF Touching
<1>4. \A i \in ints : D[i].set_value >= 0 => D[i].set_value + Total(D, ints) >= 0
  <2> TAKE i \in ints
  <2>1. i = 1 /\ i \in C /\ D[i] = d /\ d.type = "NONNEGATIVE_INT64_SET_ADD"
    BY <1>1 DEF OfType
  <2>2. ints = {1}
    BY <1>1, <2>1 DEF OfType
  <2> DEFINE f == [j \in {1} |-> Amount(D[j])]
  <2>3. f[1] = d.delta
    BY <2>1 DEF Amount
  <2>4. /\ d.set_value \in Int /\ d.delta \in Int
        /\ d.delta < 0 => d.set_value + d.delta >= 0
    BY <1>0, <2>1
  <2>5. Total(D, {1}) = d.delta
    <3>1. SumFunctionOnSet(f, {1}) = f[1]
      <4>1. f[1] \in Int
        BY <2>3, <2>4
      <4> HIDE DEF f
      <4> QED BY <4>1, SumOne
    <3> QED BY <2>3, <3>1 DEF Total
  <2>6. Total(D, ints) = d.delta
    <3> HIDE DEF ints
    <3> QED BY <2>2, <2>5
  <2> HIDE DEF ints
  <2> QED BY <2>1, <2>4, <2>6
<1>5. Supply(o) + Total(D, assets) \in 0 .. MaxUint
  <2>1. Total(D, {}) = 0
    BY SumEmpty DEF Total
  <2>2. Supply(o) \in 0 .. MaxUint
    BY ExecutionAssumption DEF Supply, IsObject, NoObject, MaxUint
  <2>3. Total(D, assets) = 0
    <3> HIDE DEF assets
    <3> QED BY <1>2, <2>1
  <2> QED BY <2>2, <2>3, ExecutionAssumption DEF MaxUint
<1>6. /\ \A i, j \in Touching(D, C) : DeltaClass(D[i]) = DeltaClass(D[j])
      /\ \A i \in Touching(D, C) : TypeAllowed(o, DeltaClass(D[i]))
  BY <1>3
<1> HIDE DEF ints, assets, inserts
<1> QED BY <1>2, <1>4, <1>5, <1>6 DEF Legal, ints, assets, inserts

\* A hash set that nobody clears: what the transaction inserted is new, differs
\* and has room.
LEMMA HashLegal ==
  ASSUME NEW o, IsObject(o), NEW v, ViewOK(o, v), Hashed(o, v), v.hs_clear_threshold = {},
         NEW C \in SUBSET DOMAIN GetDeltas(v)
  PROVE  Legal(o, GetDeltas(v), C)
<1> DEFINE D == GetDeltas(v)
           new == v.new_hashes
           ints == OfType(D, C, "NONNEGATIVE_INT64_SET_ADD")
           assets == OfType(D, C, "ASSET_OBJECT_ADD")
           inserts == OfType(D, C, "HASH_SET_INSERT")
<1>1. HashDeltas(v, D)
  BY HashDeltasOf
<1>2. C \subseteq DOMAIN D
  OBVIOUS
<1> HIDE DEF D
<1>3. ints = {} /\ assets = {}
  BY <1>1, <1>2, HashTypes DEF OfType
<1>4. \A i \in Touching(D, C) : DeltaClass(D[i]) = [type |-> "HASH_SET", value |-> 0]
  BY <1>1, <1>2, HashTypes DEF Touching
<1>5. /\ \A i, j \in Touching(D, C) : DeltaClass(D[i]) = DeltaClass(D[j])
      /\ \A i \in Touching(D, C) : TypeAllowed(o, DeltaClass(D[i]))
  BY <1>4 DEF Hashed, TypeAllowed
<1>6. Supply(o) + Total(D, assets) \in 0 .. MaxUint
  <2>1. Total(D, {}) = 0
    BY SumEmpty DEF Total
  <2>2. Supply(o) \in 0 .. MaxUint
    BY ExecutionAssumption DEF Supply, IsObject, NoObject, MaxUint
  <2>3. Total(D, assets) = 0
    <3> HIDE DEF assets
    <3> QED BY <1>3, <2>1
  <2> QED BY <2>2, <2>3, ExecutionAssumption DEF MaxUint
<1>7. PICK k \in Nat : \A i \in DOMAIN D :
              \/ D[i].type = "HASH_SET_INCREASE_LIMIT" /\ D[i].limit_increase \in Nat
              \/ i - k \in DOMAIN new /\ D[i] = Insert(new[i - k])
              \/ \E t \in v.hs_clear_threshold : D[i] = Clear(t)
              \/ v.is_deleted /\ D[i] = DeleteLast
  BY <1>1, Zenon DEF HashDeltas
<1>8. \A h : Insert(h).hash = h
  BY DEF Insert
<1>9. /\ new \in Seq(Elements) /\ Len(new) \in Nat /\ DOMAIN new = 1 .. Len(new)
      /\ \A i \in DOMAIN D : i \in Nat
  <2>1. new \in Seq(Elements)
    BY DEF Hashed
  <2>2. \A i \in DOMAIN D : i \in Nat
    BY <1>1 DEF HashDeltas
  <2> HIDE DEF new
  <2> QED BY <2>1, <2>2
<1>10. \A i \in inserts : i \in Nat /\ i - k \in DOMAIN new /\ D[i].hash = new[i - k]
  <2> TAKE i \in inserts
  <2>1. i \in DOMAIN D /\ D[i].type = "HASH_SET_INSERT"
    BY <1>2 DEF OfType
  <2>2. D[i] # DeleteLast
    BY <2>1 DEF DeleteLast
  <2>3. i - k \in DOMAIN new /\ D[i] = Insert(new[i - k])
    BY <1>7, <2>1, <2>2
  <2> QED BY <1>8, <1>9, <2>1, <2>3
<1>11. /\ \A i, j \in DOMAIN new : i # j => new[i] # new[j]
       /\ \A i \in DOMAIN new : new[i] \notin Hashes(o)
       /\ new # <<>> => Cardinality(Hashes(o)) + Len(new) <= SizeLimit(o)
  BY DEF Hashed, HasRoom
<1> HIDE DEF new
<1>12. \A i, j \in inserts : i # j => D[i].hash # D[j].hash
  <2> SUFFICES ASSUME NEW i \in inserts, NEW j \in inserts, i # j PROVE D[i].hash # D[j].hash
    OBVIOUS
  <2>1. i - k # j - k
    BY <1>10
  <2> HIDE DEF inserts
  <2> QED BY <1>10, <1>11, <2>1
<1>13. \A i \in inserts : D[i].hash \notin Hashes(o)
  BY <1>10, <1>11
<1>14. inserts # {} => Cardinality(Hashes(o)) + Cardinality(inserts) <= SizeLimit(o)
  <2> SUFFICES ASSUME inserts # {} PROVE Cardinality(Hashes(o)) + Cardinality(inserts) <= SizeLimit(o)
    OBVIOUS
  <2> DEFINE R == k + 1 .. k + Len(new)
  <2> HIDE DEF inserts
  <2>1. inserts \subseteq R
    BY <1>9, <1>10
  <2>2. IsFiniteSet(R) /\ Cardinality(R) = Len(new)
    <3>1. k + 1 \in Int /\ k + Len(new) \in Int
      BY <1>9
    <3>2. IsFiniteSet(R) /\ Cardinality(R) = IF k + 1 > k + Len(new) THEN 0 ELSE k + Len(new) - (k + 1) + 1
      BY <3>1, FS_Interval
    <3> HIDE DEF R
    <3> QED BY <1>9, <3>2
  <2> HIDE DEF R
  <2>3. Cardinality(inserts) <= Len(new) /\ Cardinality(inserts) \in Nat
    BY <2>1, <2>2, FS_Subset, FS_CardinalityType
  <2>4. new # <<>>
    <3>1. PICK i \in inserts : TRUE
      OBVIOUS
    <3>2. DOMAIN new # {}
      BY <1>10, <3>1
    <3> QED BY <3>2
  <2>5. Cardinality(Hashes(o)) \in Nat /\ SizeLimit(o) \in Nat
    BY HashFacts DEF Hashed
  <2> QED BY <1>9, <1>11, <2>3, <2>4, <2>5
<1> HIDE DEF ints, assets, inserts
<1> QED BY <1>3, <1>5, <1>6, <1>12, <1>13, <1>14 DEF Legal, ints, assets, inserts, D

\* Without a clear the deltas of a transaction are admitted one after the other.
LEMMA AloneAdmits ==
  ASSUME NEW o, IsObject(o), NEW v, ViewOK(o, v), v.hs_clear_threshold = {},
         NEW i \in DOMAIN GetDeltas(v)
  PROVE  Admits(o, GetDeltas(v), 1 .. i - 1, {}, i)
<1> DEFINE D == GetDeltas(v)
<1>1. /\ DOMAIN D = 1 .. Len(D) /\ Len(D) \in Nat
      /\ \A C \in SUBSET DOMAIN D : Legal(o, D, C)
      /\ D[i].type = "NONNEGATIVE_INT64_SET_ADD" /\ D[i].delta < 0 => D[i].set_value >= 0
  <2>0. DeleteLast.type = "DELETE_LAST"
    BY DEF DeleteLast
  <2>1. CASE Untouched(o, v)
    <3>1. D = Deleting(v)
      BY <2>1, FewDeltas
    <3>2. DOMAIN D = 1 .. Len(D) /\ Len(D) \in Nat /\ \A j \in DOMAIN D : D[j] = DeleteLast
      <4>1. v.is_deleted => D = <<DeleteLast>>
        BY <3>1 DEF Deleting
      <4>2. ~v.is_deleted => D = <<>>
        BY <3>1 DEF Deleting
      <4> HIDE DEF D
      <4> QED BY <4>1, <4>2
    <3>3. \A C \in SUBSET DOMAIN D : Legal(o, D, C)
      <4> TAKE C \in SUBSET DOMAIN D
      <4>1. \A j \in C : D[j] = DeleteLast
        BY <3>2
      <4> HIDE DEF D
      <4> QED BY <4>1, FewLegal
    <3> QED BY <2>0, <3>2, <3>3
  <2>2. CASE Written(o, v)
    <3>1. PICK y : /\ Begins(D, y, v) /\ y.type = "RAW_MEMORY_WRITE"
                   /\ TypeAllowed(o, DeltaClass(y))
      <4>1. PICK d : Begins(D, Write(d), v)
        BY <2>2, FewDeltas DEF Written
      <4>2. Write(d).type = "RAW_MEMORY_WRITE" /\ TypeAllowed(o, DeltaClass(Write(d)))
        BY <2>2 DEF Write, DeltaClass, TypeAllowed, Written
      <4> QED BY <4>1, <4>2
    <3> HIDE DEF D
    <3>3. /\ DOMAIN D = 1 .. Len(D) /\ Len(D) \in Nat
          /\ \A j \in DOMAIN D : D[j] = DeleteLast \/ (j = 1 /\ D[j] = y)
      BY <3>1, LastForm
    <3>4. \A C \in SUBSET DOMAIN D : Legal(o, D, C)
      <4> TAKE C \in SUBSET DOMAIN D
      <4>1. \A j \in C : D[j] = DeleteLast \/ (j = 1 /\ D[j] = y)
        BY <3>3
      <4> QED BY <3>1, <4>1, FewLegal
    <3>5. D[i].type # "NONNEGATIVE_INT64_SET_ADD"
      <4>1. i \in DOMAIN D
        BY DEF D
      <4> QED BY <2>0, <3>1, <3>3, <4>1
    <3> QED BY <3>3, <3>4, <3>5 DEF D
  <2>3. CASE Added(o, v)
    <3>1. PICK s \in MinInt .. MaxInt, x \in Int :
            /\ v.nnint64_delta = {[set_value |-> s, delta |-> x]}
            /\ x < 0 => s + x >= 0
            /\ Shows(v, [type |-> "NONNEGATIVE_INT64", value |-> Min({MaxInt, s + x})])
      BY <2>3 DEF Added
    <3>2. ~(~v.is_deleted /\ v.current = NoObject)
      BY <3>1 DEF Shows, NoObject
    <3>3. Begins(D, SetAdd(s, x), v)
      BY <2>3, <3>1, <3>2, FewDeltas DEF Added
    <3> DEFINE d == SetAdd(s, x)
    <3>4. /\ d.type = "NONNEGATIVE_INT64_SET_ADD" /\ d.set_value = s /\ d.delta = x
          /\ TypeAllowed(o, DeltaClass(d))
      BY <2>3 DEF SetAdd, DeltaClass, TypeAllowed, Added
    <3>5. s \in Int
      BY ExecutionAssumption DEF MinInt
    <3> HIDE DEF D, d
    <3>6. Begins(D, d, v)
      BY <3>3 DEF d
    <3>7. /\ DOMAIN D = 1 .. Len(D) /\ Len(D) \in Nat
          /\ \A j \in DOMAIN D : D[j] = DeleteLast \/ (j = 1 /\ D[j] = d)
      BY <3>6, LastForm
    <3>8. \A C \in SUBSET DOMAIN D : Legal(o, D, C)
      <4> TAKE C \in SUBSET DOMAIN D
      <4>1. \A j \in C : D[j] = DeleteLast \/ (j = 1 /\ D[j] = d)
        BY <3>7
      <4> QED BY <3>1, <3>4, <3>5, <4>1, FewLegal
    <3>9. D[i].type = "NONNEGATIVE_INT64_SET_ADD" /\ D[i].delta < 0 => D[i].set_value >= 0
      <4> SUFFICES ASSUME D[i].type = "NONNEGATIVE_INT64_SET_ADD", D[i].delta < 0
                   PROVE  D[i].set_value >= 0
        OBVIOUS
      <4>1. D[i] = d
        <5>1. i \in DOMAIN D
          BY DEF D
        <5> QED BY <2>0, <3>7, <5>1
      <4> QED BY <3>1, <3>4, <3>5, <4>1
    <3> QED BY <3>7, <3>8, <3>9 DEF D
  <2>4. CASE Hashed(o, v)
    <3>1. HashDeltas(v, D)
      BY <2>4, HashDeltasOf
    <3>2. \A C \in SUBSET DOMAIN D : Legal(o, D, C)
      BY <2>4, HashLegal
    <3> HIDE DEF D
    <3>3. D[i].type # "NONNEGATIVE_INT64_SET_ADD"
      <4>1. i \in DOMAIN D
        BY DEF D
      <4> QED BY <3>1, <4>1, HashTypes
    <3>4. DOMAIN D = 1 .. Len(D) /\ Len(D) \in Nat
      BY <3>1 DEF HashDeltas
    <3> QED BY <3>2, <3>3, <3>4 DEF D
  <2> QED BY <2>1, <2>2, <2>3, <2>4 DEF ViewOK
<1>2. i \in DOMAIN D
  OBVIOUS
<1> HIDE DEF D
<1>3. 1 .. i - 1 \subseteq DOMAIN D
  BY <1>1, <1>2
<1>4. \A S \in SUBSET (1 .. i - 1) : Legal(o, D, {} \cup S \cup {i})
  <2> TAKE S \in SUBSET (1 .. i - 1)
  <2>1. {} \cup S \cup {i} \in SUBSET DOMAIN D
    BY <1>2, <1>3
  <2> QED BY <1>1, <2>1
<1>5. \A S \in SUBSET ((1 .. i - 1) \cup {}) : Legal(o, D, S \cup {i})
  <2> TAKE S \in SUBSET ((1 .. i - 1) \cup {})
  <2>1. S \cup {i} \in SUBSET DOMAIN D
    BY <1>2, <1>3
  <2> QED BY <1>1, <2>1
<1> QED BY <1>1, <1>4, <1>5 DEF Admits, D

-----------------------------------------------------------------------------
(* The invariant                                                           *)

\* The base that nonnegative_int64_add takes from a view is an int64.
LEMMA BaseInRange ==
  ASSUME NEW o, IsObject(o), NEW v, ViewOK(o, v)
  PROVE  BaseValues(v) \subseteq MinInt .. MaxInt
<1>1. 0 \in MinInt .. MaxInt
  BY ExecutionAssumption DEF MinInt
<1>2. CASE v.nnint64_delta # {}
  <2>1. PICK s \in MinInt .. MaxInt, x \in Int : v.nnint64_delta = {[set_value |-> s, delta |-> x]}
    BY <1>2 DEF ViewOK, Untouched, Written, Added, Hashed, NoInts
  <2> QED BY <1>2, <2>1 DEF BaseValues
<1>3. CASE v.nnint64_delta = {} /\ v.current # NoObject /\ v.current.type = "NONNEGATIVE_INT64"
  <2>1. ~v.is_deleted
    BY <1>3 DEF ViewOK
  <2>2. Untouched(o, v)
    BY <1>3, <2>1, GuardKind DEF ViewOK, Added
  <2>3. v.current = o
    BY <2>1, <2>2, GuardKind
  <2>4. v.current.value \in MinInt .. MaxInt
    BY <1>3, <2>3 DEF IsObject
  <2> QED BY <1>3, <2>4 DEF BaseValues
<1> QED BY <1>1, <1>2, <1>3 DEF BaseValues

\* A running frame is of an address of the system.
LEMMA SelfInAddrs ==
  ASSUME StackInv, status = "running"
  PROVE  Self \in Addrs
<1> DEFINE S == [addr : Addrs, calldata : {0, 1}, result : Values \cup {0},
                 spoiled : BOOLEAN, clean : BOOLEAN]
<1>1. invocation_stack \in Seq(S) /\ Len(invocation_stack) \in Nat /\ Len(invocation_stack) > 0
  BY DEF StackInv
<1>2. Top \in S
  <2>1. Len(invocation_stack) \in DOMAIN invocation_stack
    BY <1>1
  <2> HIDE DEF S
  <2> QED BY <1>1, <2>1, ElementOf DEF Top
<1> QED BY <1>2 DEF Self

\* The running contract sees a view that satisfies the invariant.
LEMMA SelfView ==
  ASSUME IInv, status = "running"
  PROVE  /\ Self \in Addrs /\ ViewOK(storage[Self], View(Self))
         /\ BaseValues(View(Self)) \subseteq MinInt .. MaxInt
<1>1. Self \in Addrs
  BY SelfInAddrs DEF IInv
<1>2. ViewOK(storage[Self], View(Self))
  BY FreshView DEF IInv, ViewInv, View
<1> QED BY <1>1, <1>2, BaseInRange DEF IInv, ViewInv

\* A system call changes the view of one key, as TryApply does.
LEMMA WorksViews ==
  ASSUME IInv, Works
  PROVE  ViewInv'
<1>1. /\ status = "running" /\ status' = "running" /\ storage' = storage
  BY DEF Works, global
<1>2. CASE UNCHANGED cache
  BY <1>1, <1>2 DEF IInv, ViewInv
<1>3. ASSUME NEW v, Sees(View(Self), v), Look(Self, v) PROVE ViewInv'
  <2>1. Self \in Addrs /\ ViewOK(storage[Self], View(Self)) /\ IsObject(storage[Self])
    BY <1>1, SelfView DEF IInv, ViewInv
  <2>2. ViewOK(storage[Self], v)
    BY <1>3, <2>1, SeenView
  <2>3. /\ DOMAIN cache' = DOMAIN cache \cup {Self}
        /\ \A x \in DOMAIN cache' : cache'[x] = IF x = Self THEN v ELSE cache[x]
    BY <1>3 DEF Look
  <2>4. \A x \in DOMAIN cache' : ViewOK(storage[x], cache'[x])
    <3> TAKE x \in DOMAIN cache'
    <3>1. CASE x = Self
      BY <2>2, <2>3, <3>1
    <3>2. CASE x # Self
      BY <1>1, <2>3, <3>2 DEF IInv, ViewInv
    <3> QED BY <3>1, <3>2
  <2> QED BY <1>1, <2>1, <2>3, <2>4 DEF IInv, ViewInv
<1> QED BY <1>2, <1>3 DEF Works

\* The deltas that a transaction pushes: none for a key that it has not looked at.
LEMMA PushedOutcome ==
  ASSUME IInv, status = "pushing", NEW a \in Addrs
  PROVE  IsObject(Outcome(storage[a], ViewDeltas(a), Numbered(a)))
<1>1. CASE a \in DOMAIN cache
  <2>1. IsObject(storage[a]) /\ ViewOK(storage[a], cache[a])
    BY <1>1 DEF IInv, ViewInv
  <2> QED BY <1>1, <2>1, ViewOutcome DEF ViewDeltas, Numbered
<1>2. CASE a \notin DOMAIN cache
  <2>1. ViewDeltas(a) = <<>> /\ Numbered(a) = {}
    BY <1>2 DEF ViewDeltas, Numbered
  <2>2. Outcome(storage[a], ViewDeltas(a), Numbered(a)) = storage[a]
    BY <2>1, Zenon DEF Outcome
  <2> QED BY <2>2 DEF IInv, ViewInv
<1> QED BY <1>1, <1>2

\* Pushing the deltas to the database leaves objects in range.
LEMMA PushViews ==
  ASSUME IInv, Push
  PROVE  ViewInv'
<1>1. status = "pushing" /\ status' \in {"SUCCESS", "FAILURE"} /\ UNCHANGED cache
  BY DEF Push, context
<1>2. DOMAIN storage' = Addrs /\ \A a \in Addrs : IsObject(storage'[a])
  <2>1. CASE UNCHANGED storage
    BY <2>1 DEF IInv, ViewInv
  <2>2. CASE storage' = [a \in Addrs |-> Outcome(storage[a], ViewDeltas(a), Numbered(a))]
    BY <1>1, <2>2, PushedOutcome
  <2> QED BY <2>1, <2>2 DEF Push
<1> QED BY <1>1, <1>2 DEF IInv, ViewInv

\* The inductive invariant of a transaction holds initially.
LEMMA InvInit == Init => IInv
<1> SUFFICES ASSUME Init PROVE ViewInv
  BY StackInit DEF IInv
<1>1. DOMAIN storage = Addrs /\ \A a \in Addrs : storage[a] \in Objects
  BY DEF Init
<1>2. DOMAIN cache = {} /\ cache = <<>> /\ status = "idle"
  BY DEF Init
<1> QED BY <1>1, <1>2, ExecutionAssumption DEF ViewInv

\* Every step of a transaction keeps it.
LEMMA InvStep ==
  ASSUME IInv, [Next]_vars
  PROVE  IInv'
<1>1. StackInv'
  BY StackStep, SelfView DEF IInv
<1> SUFFICES ViewInv'
  BY <1>1 DEF IInv
<1>2. CASE Next
  <2>1. ASSUME NEW frame, Pushes(frame) PROVE ViewInv'
    <3>1. /\ status \in {"idle", "running"} /\ status' = "running"
          /\ storage' = storage /\ cache' = cache
      BY <2>1 DEF Pushes
    <3>2. status = "idle" => DOMAIN cache = {}
      BY DEF IInv, ViewInv
    <3> QED BY <3>1, <3>2 DEF IInv, ViewInv
  <2>2. ASSUME NEW v, Puts(v) PROVE ViewInv'
    BY <2>2 DEF Puts, IInv, ViewInv
  <2>3. CASE Ends
    BY <2>3 DEF Ends, context, IInv, ViewInv
  <2>4. CASE Works
    BY <2>4, WorksViews
  <2>5. CASE FrameReturns
    BY <2>5 DEF FrameReturns, global, IInv, ViewInv
  <2>6. CASE RootReturns
    BY <2>6 DEF RootReturns, global, context, IInv, ViewInv
  <2>7. CASE Push
    BY <2>7, PushViews
  <2>8. CASE Reset
    <3>1. storage' = storage /\ cache' = <<>> /\ status' = "idle" /\ DOMAIN cache' = {}
      BY <2>8 DEF Reset, global
    <3> QED BY <3>1 DEF IInv, ViewInv
  <2> QED BY <1>2, <2>1, <2>2, <2>3, <2>4, <2>5, <2>6, <2>7, <2>8, NextCases, SelfView DEF IInv
<1>3. CASE UNCHANGED vars
  BY <1>3 DEF vars, IInv, ViewInv
<1> QED BY <1>1, <1>2, <1>3 DEF IInv

\* It holds in every state.
LEMMA InvAlways == Spec => []IInv
BY InvInit, InvStep, PTL DEF Spec

-----------------------------------------------------------------------------
(* Theorems                                                                *)

\* A transaction reads its own writes: at every moment it sees of a key what its
\* deltas, applied in no order, would leave there.
THEOREM ReadsOwnWrites == Spec => []ViewIsOutcome
<1>1. IInv => ViewIsOutcome
  <2> SUFFICES ASSUME IInv, NEW a \in DOMAIN cache, status \in {"running", "pushing"}
               PROVE  LET after == Outcome(storage[a], ViewDeltas(a), Numbered(a))
                      IN  IF after.type = "HASH_SET" THEN Get(a).hashes = after.hashes
                          ELSE Get(a) = after
    BY Zenon DEF ViewIsOutcome
  <2>1. IsObject(storage[a]) /\ ViewOK(storage[a], cache[a])
    BY DEF IInv, ViewInv
  <2>2. /\ View(a) = cache[a] /\ ViewDeltas(a) = GetDeltas(cache[a])
        /\ Numbered(a) = DOMAIN GetDeltas(cache[a])
    BY DEF View, ViewDeltas, Numbered
  <2>3. Get(a) = Visible(cache[a])
    BY <2>2 DEF Get, Visible
  <2> QED BY <2>1, <2>2, <2>3, ViewOutcome
<1> QED BY <1>1, InvAlways, PTL

\* A transaction that is alone is admitted, unless it cleared a hash set.
THEOREM AloneCommits == Spec => []AloneIsAdmitted
<1>1. IInv => AloneIsAdmitted
  <2> SUFFICES ASSUME IInv, status = "pushing", NEW a \in DOMAIN cache,
                      cache[a].hs_clear_threshold = {}, NEW i \in Numbered(a)
               PROVE  Admits(storage[a], ViewDeltas(a), 1 .. i - 1, {}, i)
    BY DEF AloneIsAdmitted, Admitted
  <2>1. IsObject(storage[a]) /\ ViewOK(storage[a], cache[a])
    BY DEF IInv, ViewInv
  <2>2. ViewDeltas(a) = GetDeltas(cache[a]) /\ i \in DOMAIN GetDeltas(cache[a])
    BY DEF ViewDeltas, Numbered
  <2> QED BY <2>1, <2>2, AloneAdmits
<1> QED BY <1>1, InvAlways, PTL

\* INVOKE gets what the contract it called returned last.
THEOREM CalleeAnswers == Spec => InvokeReturns
<1>1. IInv /\ [Next]_vars =>
        [LET callee == Top
         IN  Len(invocation_stack') < Len(invocation_stack) /\ Len(invocation_stack) > 1
               /\ callee.clean /\ ~(callee.spoiled /\ callee.result # 0)
               /\ status = "running"
             => ret' = callee.result]_vars
  <2> SUFFICES ASSUME IInv, Next, Len(invocation_stack') < Len(invocation_stack),
                      Len(invocation_stack) > 1, Top.clean, ~(Top.spoiled /\ Top.result # 0),
                      status = "running"
               PROVE  ret' = Top.result
    BY DEF vars
  <2>1. FrameReturns
    BY ShorterIsReturn, SelfView DEF IInv
  <2> QED BY <2>1, FrameResult DEF IInv
<1> QED BY <1>1, InvAlways, PTL DEF Spec, InvokeReturns



-----------------------------------------------------------------------------
(* Contexts                                                                *)

\* A hash set is finite, a view has one delta of each kind at most but for the
\* insertions, which are a sequence.
Sound(o) ==
    o.type = "HASH_SET" =>
      /\ o = [type |-> "HASH_SET", hashes |-> o.hashes, max_size |-> o.max_size]
      /\ IsFiniteSet(o.hashes)
One(S) == S = {} \/ \E x : S = {x}
TameView(v) ==
    /\ IsRec(v) /\ Sound(v.current)
    /\ One(v.memory_write) /\ One(v.nnint64_delta) /\ One(v.hs_size_increase)
    /\ One(v.hs_clear_threshold)
    /\ \E S : v.new_hashes \in Seq(S)

\* A view that nothing was done to is tame.
LEMMA TameFresh == ASSUME NEW o, Sound(o) PROVE TameView(Fresh(o))
<1>1. IsRec(Fresh(o))
  BY DEF IsRec, Recs, Fresh
<1>2. <<>> \in Seq({})
  OBVIOUS
<1>3. Fresh(o).current = o /\ Fresh(o).memory_write = {} /\ Fresh(o).nnint64_delta = {} /\ Fresh(o).hs_size_increase = {}
      /\ Fresh(o).hs_clear_threshold = {} /\ Fresh(o).new_hashes = <<>>
  BY DEF Fresh
<1> QED BY <1>1, <1>2, <1>3, Zenon DEF TameView, One

\* The hash set that a tame view works on is a finite set with a limit.
LEMMA SoundSet ==
  ASSUME NEW v, TameView(v), v.current = NoObject \/ v.current.type = "HASH_SET"
  PROVE  LET set == Current(v, "HASH_SET")
         IN  /\ set = [type |-> "HASH_SET", hashes |-> set.hashes, max_size |-> set.max_size]
             /\ IsFiniteSet(set.hashes)
<1>1. CASE v.current = NoObject
  <2>1. Current(v, "HASH_SET") = [type |-> "HASH_SET", hashes |-> {}, max_size |-> StartSize]
    BY <1>1 DEF Current, DefaultObject
  <2> QED BY <2>1, FS_EmptySet
<1>2. CASE v.current # NoObject
  <2>1. Current(v, "HASH_SET") = v.current
    BY <1>2 DEF Current
  <2> QED BY <1>2, <2>1 DEF TameView, Sound
<1> QED BY <1>1, <1>2

\* What try_apply does with a delta of each type, once its guards let it through.
LEMMA TameGuard ==
  ASSUME NEW v, NEW d, d.type \in DOMAIN DeltaTypes, NEW w \in TryApply(v, d)
  PROVE  /\ ~v.is_deleted
         /\ v.current = NoObject \/ v.current.type = DeltaTypes[d.type]
         /\ d.type = "RAW_MEMORY_WRITE" =>
              w = [v EXCEPT !.memory_write = {d.data},
                            !.current = [type |-> "RAW_MEMORY", value |-> d.data]]
         /\ d.type = "NONNEGATIVE_INT64_SET_ADD" => w \in ApplySetAdd(v, d)
         /\ d.type = "HASH_SET_INSERT" => w \in ApplyInsert(v, d)
         /\ d.type = "HASH_SET_INCREASE_LIMIT" => w \in ApplyIncreaseLimit(v, d)
         /\ d.type = "HASH_SET_CLEAR" => w \in ApplyClear(v, d)
<1>1. d.type # "DELETE_LAST"
  BY DEF DeltaTypes
<1>2. ~v.is_deleted /\ TypeGuard(v, d)
  BY <1>1, TryApplyIs
<1>3. d.type = "RAW_MEMORY_WRITE" =>
        TryApply(v, d) = {[v EXCEPT !.memory_write = {d.data},
                                    !.current = [type |-> "RAW_MEMORY", value |-> d.data]]}
  BY <1>2, TryApplyIs, Zenon
<1>4. /\ d.type = "NONNEGATIVE_INT64_SET_ADD" => TryApply(v, d) = ApplySetAdd(v, d)
      /\ d.type = "HASH_SET_INSERT" => TryApply(v, d) = ApplyInsert(v, d)
      /\ d.type = "HASH_SET_INCREASE_LIMIT" => TryApply(v, d) = ApplyIncreaseLimit(v, d)
      /\ d.type = "HASH_SET_CLEAR" => TryApply(v, d) = ApplyClear(v, d)
  BY <1>2, TryApplyIs, Zenon
<1>5. v.current = NoObject \/ v.current.type = DeltaTypes[d.type]
  BY <1>2 DEF TypeGuard
<1> QED BY <1>2, <1>3, <1>4, <1>5, Zenon

\* A delta of the SDK keeps a view tame.
LEMMA TameApply ==
  ASSUME NEW v, TameView(v), NEW d,
         \/ d = DeleteLast
         \/ \E x : d = Write(x) \/ d = Insert(x) \/ d = IncreaseLimit(x) \/ d = Clear(x)
         \/ \E x, y : d = SetAdd(x, y),
         NEW w \in TryApply(v, d)
  PROVE  TameView(w)
<1>0. IsRec(v)
  BY DEF TameView
<1>1. ASSUME NEW c, NEW m, NEW n, NEW i, NEW h, NEW t, NEW x, w \in Recs(c, m, n, i, h, t, x),
             Sound(c), One(m), One(n), One(i), One(t), NEW S, h \in Seq(S)
      PROVE  TameView(w)
  <2>1. /\ w.current = c /\ w.memory_write = m /\ w.nnint64_delta = n /\ w.hs_size_increase = i
        /\ w.new_hashes = h /\ w.hs_clear_threshold = t /\ IsRec(w)
    BY <1>1, RecsFields
  <2> QED BY <1>1, <2>1 DEF TameView
<1>2. \A x : One({x})
  BY DEF One
<1>3. PICK S : v.new_hashes \in Seq(S)
  BY DEF TameView
<1>4. /\ One(v.memory_write) /\ One(v.nnint64_delta) /\ One(v.hs_size_increase)
      /\ One(v.hs_clear_threshold)
  BY DEF TameView
<1>5. CASE d = DeleteLast
  <2>1. d.type = "DELETE_LAST"
    BY <1>5 DEF DeleteLast
  <2>2. TryApply(v, d) = {[v EXCEPT !.is_deleted = TRUE, !.current = NoObject]}
    BY <2>1, TryApplyIs, Zenon
  <2>3. w = [v EXCEPT !.is_deleted = TRUE, !.current = NoObject]
    BY <2>2
  <2>4. w \in Recs(NoObject, v.memory_write, v.nnint64_delta, v.hs_size_increase, v.new_hashes,
                   v.hs_clear_threshold, TRUE)
    BY <1>0, <2>3, RecExcept, Zenon
  <2>5. Sound(NoObject)
    BY DEF Sound, NoObject
  <2> QED BY <1>1, <1>3, <1>4, <2>4, <2>5
<1>6. ASSUME NEW x, d = Write(x) PROVE TameView(w)
  <2>1. d.type = "RAW_MEMORY_WRITE" /\ d.type \in DOMAIN DeltaTypes
    BY <1>6 DEF Write, DeltaTypes
  <2> DEFINE c == [type |-> "RAW_MEMORY", value |-> d.data]
  <2>2. w = [v EXCEPT !.memory_write = {d.data}, !.current = c]
    <3>1. w \in TryApply(v, d)
      OBVIOUS
    <3>2. d.type = "RAW_MEMORY_WRITE" => w = [v EXCEPT !.memory_write = {d.data}, !.current = c]
      BY ONLY <2>1, <3>1, TameGuard, ZenonT(40)
    <3> QED BY ONLY <2>1, <3>2
  <2>3. Sound(c)
    BY DEF Sound
  <2> HIDE DEF c
  <2>4. w \in Recs(c, {d.data}, v.nnint64_delta, v.hs_size_increase, v.new_hashes,
                   v.hs_clear_threshold, v.is_deleted)
    BY <1>0, <2>2, RecExcept, Zenon
  <2> QED BY <1>1, <1>2, <1>3, <1>4, <2>3, <2>4
<1>7. ASSUME NEW x, NEW y, d = SetAdd(x, y) PROVE TameView(w)
  <2>1. d.type = "NONNEGATIVE_INT64_SET_ADD" /\ d.type \in DOMAIN DeltaTypes
    BY <1>7 DEF SetAdd, DeltaTypes
  <2>2. w \in ApplySetAdd(v, d)
    BY <2>1, TameGuard
  <2>3. PICK sum : w = [v EXCEPT !.nnint64_delta = {[set_value |-> d.set_value, delta |-> sum]},
                                 !.current = [type |-> "NONNEGATIVE_INT64",
                                              value |-> Min({MaxInt, d.set_value + sum})]]
    BY <2>2 DEF ApplySetAdd
  <2> DEFINE c == [type |-> "NONNEGATIVE_INT64", value |-> Min({MaxInt, d.set_value + sum})]
             n == {[set_value |-> d.set_value, delta |-> sum]}
  <2>4. Sound(c) /\ One(n)
    BY <1>2 DEF Sound
  <2>5. w = [v EXCEPT !.nnint64_delta = n, !.current = c]
    BY <2>3
  <2> HIDE DEF c, n
  <2>6. w \in Recs(c, v.memory_write, n, v.hs_size_increase, v.new_hashes,
                   v.hs_clear_threshold, v.is_deleted)
    BY <1>0, <2>5, RecExcept, Zenon
  <2> QED BY <1>1, <1>3, <1>4, <2>4, <2>6
<1> DEFINE set == Current(v, "HASH_SET")
<1>8. ASSUME v.current = NoObject \/ v.current.type = "HASH_SET"
      PROVE  /\ set = [type |-> "HASH_SET", hashes |-> set.hashes, max_size |-> set.max_size]
             /\ IsFiniteSet(set.hashes) /\ Sound(set)
             /\ \A T : IsFiniteSet(T) => Sound([set EXCEPT !.hashes = T])
  <2>1. /\ set = [type |-> "HASH_SET", hashes |-> set.hashes, max_size |-> set.max_size]
        /\ IsFiniteSet(set.hashes)
    BY <1>8, SoundSet
  <2> HIDE DEF set
  <2>2. ASSUME NEW T, IsFiniteSet(T) PROVE Sound([set EXCEPT !.hashes = T])
    <3>1. [set EXCEPT !.hashes = T] = [type |-> "HASH_SET", hashes |-> T, max_size |-> set.max_size]
      BY <2>1
    <3> QED BY <2>2, <3>1 DEF Sound
  <2> QED BY <2>1, <2>2 DEF Sound
<1> HIDE DEF set
<1>9. ASSUME NEW x, d = Insert(x) PROVE TameView(w)
  <2>1. d.type = "HASH_SET_INSERT" /\ d.type \in DOMAIN DeltaTypes /\ DeltaTypes[d.type] = "HASH_SET"
    BY <1>9 DEF Insert, DeltaTypes
  <2>2. w \in ApplyInsert(v, d) /\ (v.current = NoObject \/ v.current.type = "HASH_SET")
    BY <2>1, TameGuard
  <2> DEFINE c == [set EXCEPT !.hashes = @ \cup {d.hash}]
             h == Append(v.new_hashes, d.hash)
  <2>3. w = [v EXCEPT !.current = c, !.new_hashes = h]
    BY <2>2 DEF ApplyInsert, set
  <2>4. Sound(c)
    BY <1>8, <2>2, FS_AddElement
  <2>5. h \in Seq(S \cup {d.hash})
    BY <1>3
  <2> HIDE DEF c, h
  <2>6. w \in Recs(c, v.memory_write, v.nnint64_delta, v.hs_size_increase, h,
                   v.hs_clear_threshold, v.is_deleted)
    BY <1>0, <2>3, RecExcept, Zenon
  <2> QED BY <1>1, <1>4, <2>4, <2>5, <2>6
<1>10. ASSUME NEW x, d = IncreaseLimit(x) PROVE TameView(w)
  <2>1. d.type = "HASH_SET_INCREASE_LIMIT" /\ d.type \in DOMAIN DeltaTypes /\ DeltaTypes[d.type] = "HASH_SET"
    BY <1>10 DEF IncreaseLimit, DeltaTypes
  <2>2. w \in ApplyIncreaseLimit(v, d) /\ (v.current = NoObject \/ v.current.type = "HASH_SET")
    BY <2>1, TameGuard
  <2> DEFINE i == {IF v.hs_size_increase = {} THEN d.limit_increase
                   ELSE Min(v.hs_size_increase) + d.limit_increase}
  <2>3. w = [v EXCEPT !.current = set, !.hs_size_increase = i]
    BY <2>2 DEF ApplyIncreaseLimit, set
  <2>4. One(i)
    BY <1>2
  <2> HIDE DEF i
  <2>6. w \in Recs(set, v.memory_write, v.nnint64_delta, i, v.new_hashes,
                   v.hs_clear_threshold, v.is_deleted)
    BY <1>0, <2>3, RecExcept, Zenon
  <2> QED BY <1>1, <1>3, <1>4, <1>8, <2>2, <2>4, <2>6
<1>11. ASSUME NEW x, d = Clear(x) PROVE TameView(w)
  <2>1. d.type = "HASH_SET_CLEAR" /\ d.type \in DOMAIN DeltaTypes /\ DeltaTypes[d.type] = "HASH_SET"
    BY <1>11 DEF Clear, DeltaTypes
  <2>2. w \in ApplyClear(v, d) /\ (v.current = NoObject \/ v.current.type = "HASH_SET")
    BY <2>1, TameGuard
  <2> DEFINE top == Max(v.hs_clear_threshold \cup {d.threshold})
             c == [set EXCEPT !.hashes = {h \in @ : h.index > top}]
  <2>3. w = [v EXCEPT !.current = c, !.hs_clear_threshold = {top}]
    BY <2>2 DEF ApplyClear, set
  <2>4. Sound(c)
    <3> DEFINE T == {h \in set.hashes : h.index > top}
    <3>1. T \subseteq set.hashes /\ IsFiniteSet(set.hashes)
      BY <1>8, <2>2
    <3>2. IsFiniteSet(T)
      <4> HIDE DEF T
      <4> QED BY <3>1, FS_Subset
    <3> QED BY <1>8, <2>2, <3>2
  <2> HIDE DEF c, top
  <2>6. w \in Recs(c, v.memory_write, v.nnint64_delta, v.hs_size_increase, v.new_hashes,
                   {top}, v.is_deleted)
    BY <1>0, <2>3, RecExcept, Zenon
  <2>7. One({top})
    BY <1>2
  <2> QED BY <1>1, <1>3, <1>4, <2>4, <2>6, <2>7
<1> QED BY <1>5, <1>6, <1>7, <1>9, <1>10, <1>11

\* So long as the committed objects are sound, the views of a context are.
StateSound == \A key \in DOMAIN committed : Sound(committed[key])
Tame(c) == StateSound => \A key \in DOMAIN c : TameView(c[key])

\* The contexts in C come from those in B, and have the same view of K.
Same(C, B, K) ==
    \A c \in C : \E b \in B : /\ K \in DOMAIN c <=> K \in DOMAIN b
                              /\ K \in DOMAIN c => c[K] = b[K]
                              /\ Tame(b) => Tame(c)

\* Contexts that are dropped change no view.
LEMMA SameSub == ASSUME NEW A, NEW B, NEW K, A \subseteq B PROVE Same(A, B, K)
BY DEF Same

\* What neither of two steps changes, both together do not.
LEMMA SameTrans ==
  ASSUME NEW A, NEW B, NEW C, NEW K, Same(A, B, K), Same(B, C, K)
  PROVE  Same(A, C, K)
BY Zenon DEF Same

\* A system call puts the view of its key.
LEMMA PutView ==
  ASSUME NEW c, NEW key, NEW v
  PROVE  key \in DOMAIN Put(c, key, v) /\ Put(c, key, v)[key] = v
BY DEF Put

\* A system call changes the view of no other key.
LEMMA SamePut ==
  ASSUME NEW c, NEW key, NEW v, NEW K, key # K
  PROVE  /\ K \in DOMAIN Put(c, key, v) <=> K \in DOMAIN c
         /\ K \in DOMAIN Put(c, key, v) => Put(c, key, v)[K] = c[K]
BY DEF Put

\* A delta on the view of a key.
SdkDelta(d) ==
    \/ d = DeleteLast
    \/ \E x : d = Write(x) \/ d = Insert(x) \/ d = IncreaseLimit(x) \/ d = Clear(x)
    \/ \E x, y : d = SetAdd(x, y)

\* A system call of the SDK keeps a context tame.
LEMMA TamePut ==
  ASSUME NEW c, Tame(c), NEW key, NEW d, SdkDelta(d), NEW w \in TryApply(ViewOf(c, key), d)
  PROVE  Tame(Put(c, key, w))
<1>1. SUFFICES ASSUME StateSound, NEW k \in DOMAIN Put(c, key, w) PROVE TameView(Put(c, key, w)[k])
  BY DEF Tame
<1>2. CASE k = key
  <2>1. TameView(ViewOf(c, key))
    <3>1. CASE key \in DOMAIN c
      BY <1>1, <3>1 DEF Tame, ViewOf
    <3>2. CASE key \notin DOMAIN c
      <4>1. Sound(At(key))
        BY <1>1 DEF StateSound, At, Sound, NoObject
      <4> QED BY <3>2, <4>1, TameFresh DEF ViewOf
    <3> QED BY <3>1, <3>2
  <2>2. TameView(w)
    BY <2>1, TameApply DEF SdkDelta
  <2> QED BY <1>2, <2>2, PutView
<1>3. CASE k # key
  BY <1>1, <1>3 DEF Tame, Put
<1> QED BY <1>2, <1>3

\* The contexts of X come from those of C by a delta on the view of a key.
FromPut(X, C, key) ==
    \A x \in X : \E c \in C : \E d, w :
      SdkDelta(d) /\ w \in TryApply(ViewOf(c, key), d) /\ x = Put(c, key, w)

\* So do those that the storage calls leave.
LEMMA SdkPut ==
  ASSUME NEW C, NEW key
  PROVE  /\ \A d : FromPut(int64_add(C, key, d), C, key)
         /\ \A n, d : FromPut(int64_set_add(C, key, n, d), C, key)
         /\ \A w : FromPut(set_raw_memory(C, key, w), C, key)
         /\ \A h, n : FromPut(hashset_insert(C, key, h, n), C, key)
         /\ \A n : FromPut(hashset_increase(C, key, n), C, key)
         /\ \A n : FromPut(hashset_clear(C, key, n), C, key)
         /\ FromPut(delete_last(C, key), C, key)
<1>0. /\ \A x : SdkDelta(Write(x)) /\ SdkDelta(Insert(x)) /\ SdkDelta(IncreaseLimit(x)) /\ SdkDelta(Clear(x))
      /\ \A x, y : SdkDelta(SetAdd(x, y))
      /\ SdkDelta(DeleteLast)
  BY DEF SdkDelta
<1>1. ASSUME NEW y, NEW x \in int64_add(C, key, y)
      PROVE  \E c \in C : \E d, w : SdkDelta(d) /\ w \in TryApply(ViewOf(c, key), d) /\ x = Put(c, key, w)
  <2>1. PICK c, w : c \in C /\ w \in nonnegative_int64_add(ViewOf(c, key), y) /\ x = Put(c, key, w)
    BY <1>1 DEF int64_add, Syscall
  <2>2. PICK b : w \in TryApply(ViewOf(c, key), SetAdd(b, y))
    BY <2>1 DEF nonnegative_int64_add
  <2> QED BY <1>0, <2>1, <2>2
<1>2. ASSUME NEW n, NEW x \in hashset_increase(C, key, n)
      PROVE  \E c \in C : \E d, w : SdkDelta(d) /\ w \in TryApply(ViewOf(c, key), d) /\ x = Put(c, key, w)
  <2>1. PICK c, w : c \in C /\ w \in hashset_increase_limit(ViewOf(c, key), n) /\ x = Put(c, key, w)
    BY <1>2 DEF hashset_increase, Syscall
  <2>2. w \in TryApply(ViewOf(c, key), IncreaseLimit(n))
    BY <2>1 DEF hashset_increase_limit
  <2> QED BY <1>0, <2>1, <2>2
<1>3. ASSUME NEW n, NEW d PROVE FromPut(int64_set_add(C, key, n, d), C, key)
  BY <1>0 DEF FromPut, int64_set_add, Syscall
<1>4. ASSUME NEW w PROVE FromPut(set_raw_memory(C, key, w), C, key)
  BY <1>0 DEF FromPut, set_raw_memory, Syscall
<1>5. ASSUME NEW h, NEW n PROVE FromPut(hashset_insert(C, key, h, n), C, key)
  BY <1>0 DEF FromPut, hashset_insert, Syscall
<1>6. ASSUME NEW n PROVE FromPut(hashset_clear(C, key, n), C, key)
  BY <1>0 DEF FromPut, hashset_clear, Syscall
<1>7. FromPut(delete_last(C, key), C, key)
  BY <1>0 DEF FromPut, delete_last, Syscall
<1>8. ASSUME NEW d PROVE FromPut(int64_add(C, key, d), C, key)
  BY <1>1 DEF FromPut
<1>9. ASSUME NEW n PROVE FromPut(hashset_increase(C, key, n), C, key)
  BY <1>2 DEF FromPut
<1> QED BY <1>3, <1>4, <1>5, <1>6, <1>7, <1>8, <1>9

\* A storage call on another key.
LEMMA SameCalls ==
  ASSUME NEW C, NEW key, NEW K, key # K
  PROVE  /\ \A d : Same(int64_add(C, key, d), C, K)
         /\ \A n, d : Same(int64_set_add(C, key, n, d), C, K)
         /\ \A w : Same(set_raw_memory(C, key, w), C, K)
         /\ \A h, n : Same(hashset_insert(C, key, h, n), C, K)
         /\ \A n : Same(hashset_increase(C, key, n), C, K)
         /\ \A n : Same(hashset_clear(C, key, n), C, K)
         /\ Same(delete_last(C, key), C, K)
<1>1. ASSUME NEW X, FromPut(X, C, key) PROVE Same(X, C, K)
  <2>1. SUFFICES ASSUME NEW x \in X
                 PROVE  \E b \in C : /\ K \in DOMAIN x <=> K \in DOMAIN b
                                     /\ K \in DOMAIN x => x[K] = b[K]
                                     /\ Tame(b) => Tame(x)
    BY DEF Same
  <2>2. PICK c, d, w : c \in C /\ SdkDelta(d) /\ w \in TryApply(ViewOf(c, key), d) /\ x = Put(c, key, w)
    BY <1>1, <2>1 DEF FromPut
  <2>3. Tame(c) => Tame(x)
    BY <2>2, TamePut
  <2> QED BY <2>2, <2>3, SamePut
<1> QED BY <1>1, SdkPut

\* The keys that the properties are about: of semaphores, flags and replay caches.
Aside(K) == K[2] \in {"replay_cache", "semaphore", "init", "claimed", "closed", "initialized"}

\* An abort changes no view, nor does doing nothing.
LEMMA SameNone == ASSUME NEW C, NEW K PROVE Same({}, C, K) /\ Same(C, C, K)
BY DEF Same

\* Contexts may be compared one by one.
LEMMA SameOne ==
  ASSUME NEW A, NEW C, NEW K, \A x \in A : \E c \in C : Same({x}, {c}, K)
  PROVE  Same(A, C, K)
BY DEF Same

\* Each context may come from a step of its own.
LEMMA SameEach ==
  ASSUME NEW A, NEW C, NEW K, \A x \in A : \E c \in C : \E B : x \in B /\ Same(B, {c}, K)
  PROVE  Same(A, C, K)
BY DEF Same

\* The methods of the token change no view apart from the token's.
LEMMA SameToken ==
  ASSUME NEW C, NEW K, Aside(K), NEW token
  PROVE  /\ \A from, to, amount : Same(transfer(C, token, from, to, amount), C, K)
         /\ \A owner, auth, amount : Same(allowance_delta(C, token, owner, auth, amount), C, K)
         /\ \A sender, from, to, amount :
              Same(transferFrom(C, token, sender, from, to, amount), C, K)
         /\ \A to, amount : Same(mint(C, token, to, amount), C, K)
<1>1. ASSUME NEW a PROVE Balance(token, a) # K
  BY DEF Aside, Balance
<1>2. ASSUME NEW a, NEW b PROVE Allowance(token, a, b) # K
  BY DEF Aside, Allowance
<1>3. TotalSupply(token) # K
  BY DEF Aside, TotalSupply
<1>4. ASSUME NEW B, NEW from, NEW to, NEW amount PROVE Same(transfer(B, token, from, to, amount), B, K)
  <2> DEFINE paid == int64_add(B, Balance(token, from), -amount)
  <2>1. Same(paid, B, K)
    BY <1>1, SameCalls
  <2>2. Same(int64_add(paid, Balance(token, to), amount), paid, K)
    BY <1>1, SameCalls
  <2>3. Same(int64_add(paid, Balance(token, to), amount), B, K)
    BY <2>1, <2>2, SameTrans
  <2> QED BY <2>3, SameNone DEF transfer
<1>5. ASSUME NEW owner, NEW auth, NEW amount
      PROVE  Same(allowance_delta(C, token, owner, auth, amount), C, K)
  BY <1>2, SameCalls DEF allowance_delta
<1>6. ASSUME NEW sender, NEW from, NEW to, NEW amount
      PROVE  Same(transferFrom(C, token, sender, from, to, amount), C, K)
  <2> DEFINE B == IF sender = from /\ ~needs_allowance THEN C
                  ELSE allowance_delta(C, token, from, sender, -amount)
  <2>1. Same(B, C, K)
    BY <1>5, SameNone
  <2>2. Same(transfer(B, token, from, to, amount), B, K)
    BY <1>4
  <2>3. Same(transfer(B, token, from, to, amount), C, K)
    BY <2>1, <2>2, SameTrans
  <2> QED BY <2>3 DEF transferFrom
<1>7. ASSUME NEW to, NEW amount PROVE Same(mint(C, token, to, amount), C, K)
  <2> DEFINE given == int64_add(C, Balance(token, to), amount)
  <2>1. Same(given, C, K)
    BY <1>1, SameCalls
  <2>2. Same(int64_add(given, TotalSupply(token), amount), given, K)
    BY <1>3, SameCalls
  <2>3. Same(int64_add(given, TotalSupply(token), amount), C, K)
    BY <2>1, <2>2, SameTrans
  <2> QED BY <2>3, SameNone DEF mint
<1> QED BY <1>4, <1>5, <1>6, <1>7

-----------------------------------------------------------------------------
(* Semaphores and flags                                                    *)

\* What a semaphore or a flag of one looks like to the call that took it.
Taken(v) == /\ \E o : ViewOK(o, v)
            /\ v.nnint64_delta = {[set_value |-> 1, delta |-> -1]}

Unseen(C, K) == \A c \in C : K \notin DOMAIN c
Takes(C, K) == \A c \in C : K \in DOMAIN c /\ Taken(c[K])

\* A key apart stays unseen, or taken, through steps that do not change it.
LEMMA SameFree ==
  ASSUME NEW A, NEW B, NEW K, Same(A, B, K)
  PROVE  /\ Unseen(B, K) => Unseen(A, K)
         /\ Takes(B, K) => Takes(A, K)
BY DEF Same, Unseen, Takes

\* Taking a semaphore or a flag changes no view but its own.
LEMMA AcquireSame ==
  ASSUME NEW C, NEW key, NEW K, key # K
  PROVE  /\ \A n : Same(acquire_semaphore(C, key, n), C, K)
         /\ Same(acquire_transient(C, key), C, K)
         /\ Same(acquire_flag(C, key), C, K)
<1>1. ASSUME NEW n PROVE Same(acquire_semaphore(C, key, n), C, K)
  BY SameCalls DEF acquire_semaphore
<1>2. Same(acquire_transient(C, key), C, K)
  <2>1. Same(delete_last(acquire_semaphore(C, key, 1), key), acquire_semaphore(C, key, 1), K)
    BY SameCalls
  <2> QED BY <1>1, <2>1, SameTrans DEF acquire_transient
<1>3. Same(acquire_flag(C, key), C, K)
  <2> DEFINE B == UNION {IF has_key(c, key) THEN {c} ELSE int64_set_add({c}, key, 1, 0) : c \in C}
  <2>1. ASSUME NEW x \in B PROVE \E c \in C : \E A : x \in A /\ Same(A, {c}, K)
    <3>1. PICK c \in C : x \in IF has_key(c, key) THEN {c} ELSE int64_set_add({c}, key, 1, 0)
      OBVIOUS
    <3>2. Same(int64_set_add({c}, key, 1, 0), {c}, K) /\ Same({c}, {c}, K)
      BY SameCalls, SameNone
    <3> QED BY <3>1, <3>2
  <2>2. Same(B, C, K)
    <3> HIDE DEF B
    <3> QED BY <2>1, SameEach
  <2>3. Same(int64_set_add(B, key, 1, -1), B, K)
    BY SameCalls
  <2> QED BY <2>2, <2>3, SameTrans DEF acquire_flag
<1> QED BY <1>1, <1>2, <1>3

\* nonnegative_int64_set_add on a view that has at most one addition.
LEMMA AddOnce ==
  ASSUME NEW o, NEW v, ViewOK(o, v), NEW old \in {-1, 0}, NEW d \in {-1, 0},
         \/ v.nnint64_delta = {} /\ old = 0
         \/ v.nnint64_delta = {[set_value |-> 1, delta |-> old]},
         NEW w \in TryApply(v, SetAdd(1, d))
  PROVE  /\ ViewOK(o, w)
         /\ w.nnint64_delta = {[set_value |-> 1, delta |-> old + d]}
         /\ d = -1 => old = 0
<1>0. MaxInt \in Nat /\ MaxInt # 0 /\ 1 \in MinInt .. MaxInt /\ MinInt = -MaxInt - 1 /\ d \in Int
  BY ContractsAssumption DEF MinInt
<1>1. ViewOK(o, w)
  BY <1>0, AddView
<1> DEFINE x == SetAdd(1, d)
<1>2. x.type = "NONNEGATIVE_INT64_SET_ADD" /\ x.set_value = 1 /\ x.delta = d
  BY DEF SetAdd
<1>3. w \in ApplySetAdd(v, x)
  <2> HIDE DEF x
  <2>1. ~v.is_deleted /\ TypeGuard(v, x)
    BY <1>2, TryApplyIs DEF x
  <2> QED BY <1>2, <2>1, TryApplyIs DEF x
<1> DEFINE olds == {y.delta : y \in v.nnint64_delta}
           base == IF olds = {} THEN 0 ELSE Min(olds)
<1>4. base = old
  <2>1. CASE v.nnint64_delta = {} /\ old = 0
    BY <2>1
  <2>2. CASE v.nnint64_delta = {[set_value |-> 1, delta |-> old]}
    <3>1. olds = {old}
      BY <2>2
    <3>2. Min({old}) = old
      BY MinOne
    <3> HIDE DEF olds
    <3> QED BY <3>1, <3>2
  <2> QED BY <2>1, <2>2
<1> HIDE DEF x
<1>5. PICK sum \in make_nnint64_delta(1, base, d) :
        w = [v EXCEPT !.nnint64_delta = {[set_value |-> 1, delta |-> sum]},
                      !.current = [type |-> "NONNEGATIVE_INT64", value |-> Min({MaxInt, 1 + sum})]]
  BY <1>2, <1>3 DEF ApplySetAdd
<1> HIDE DEF base
<1>6. sum = old + d /\ (d = -1 => old = 0)
  <2>1. CASE d < 0
    BY <1>0, <1>4, <1>5, <2>1 DEF make_nnint64_delta
  <2>2. CASE ~(d < 0)
    <3>1. sum = Min({MaxInt, old + d})
      BY <1>4, <1>5, <2>2 DEF make_nnint64_delta
    <3>2. sum = IF MaxInt <= old + d THEN MaxInt ELSE old + d
      BY <1>0, <3>1, MinPair
    <3> QED BY <1>0, <3>2, <2>2
  <2> QED BY <2>1, <2>2
<1>7. w \in Recs([type |-> "NONNEGATIVE_INT64", value |-> Min({MaxInt, 1 + sum})], v.memory_write,
                 {[set_value |-> 1, delta |-> sum]}, v.hs_size_increase, v.new_hashes,
                 v.hs_clear_threshold, v.is_deleted)
  BY <1>5, RecExcept, Zenon DEF ViewOK
<1>8. w.nnint64_delta = {[set_value |-> 1, delta |-> sum]}
  BY <1>7, RecsFields, SMT
<1> QED BY <1>1, <1>6, <1>8

\* Taking a semaphore of one, or a flag, leaves a taken view.
LEMMA AcquireTakes ==
  ASSUME NEW C, NEW K, \A c \in C : K \notin DOMAIN c \/ Taken(c[K])
  PROVE  /\ Takes(acquire_semaphore(C, K, 1), K)
         /\ Takes(acquire_transient(C, K), K)
         /\ Unseen(C, K) => Takes(acquire_flag(C, K), K)
<1>0. ASSUME NEW c, K \notin DOMAIN c
      PROVE  /\ ViewOK(At(K), ViewOf(c, K)) /\ ViewOf(c, K).nnint64_delta = {}
  BY <1>0, FreshView DEF ViewOf, Fresh
<1>1. ASSUME NEW B, \A c \in B : K \notin DOMAIN c \/ Taken(c[K])
      PROVE  Takes(acquire_semaphore(B, K, 1), K)
  <2>1. SUFFICES ASSUME NEW x \in acquire_semaphore(B, K, 1) PROVE K \in DOMAIN x /\ Taken(x[K])
    BY DEF Takes
  <2>2. PICK c, w : c \in B /\ w \in TryApply(ViewOf(c, K), SetAdd(1, -1)) /\ x = Put(c, K, w)
    BY <2>1 DEF acquire_semaphore, int64_set_add, Syscall
  <2>3. CASE K \notin DOMAIN c
    <3>1. ViewOK(At(K), w) /\ w.nnint64_delta = {[set_value |-> 1, delta |-> 0 + -1]}
      <4> DEFINE v == ViewOf(c, K)
      <4>1. ViewOK(At(K), v) /\ v.nnint64_delta = {}
        BY <1>0, <2>3
      <4>2. w \in TryApply(v, SetAdd(1, -1))
        BY <2>2
      <4> HIDE DEF v
      <4> QED BY <4>1, <4>2, AddOnce
    <3> QED BY <2>2, <3>1, PutView DEF Taken
  <2>4. CASE K \in DOMAIN c
    <3>1. Taken(c[K]) /\ ViewOf(c, K) = c[K]
      BY <1>1, <2>2, <2>4 DEF ViewOf
    <3>2. PICK o : ViewOK(o, c[K])
      BY <3>1 DEF Taken
    <3>3. FALSE
      <4> DEFINE v == c[K]
      <4>1. ViewOK(o, v) /\ v.nnint64_delta = {[set_value |-> 1, delta |-> -1]}
        BY <3>1, <3>2 DEF Taken
      <4>2. w \in TryApply(v, SetAdd(1, -1))
        BY <2>2, <3>1
      <4> HIDE DEF v
      <4> QED BY <4>1, <4>2, AddOnce
    <3> QED BY <3>3
  <2> QED BY <2>3, <2>4
<1>2. Takes(acquire_transient(C, K), K)
  <2> DEFINE B == acquire_semaphore(C, K, 1)
  <2>0. Takes(B, K)
    BY <1>1
  <2>1. SUFFICES ASSUME NEW x \in acquire_transient(C, K) PROVE K \in DOMAIN x /\ Taken(x[K])
    BY DEF Takes
  <2>2. PICK c, w : c \in B /\ w \in TryApply(ViewOf(c, K), DeleteLast) /\ x = Put(c, K, w)
    BY <2>1 DEF acquire_transient, delete_last, Syscall
  <2>3. Taken(c[K]) /\ ViewOf(c, K) = c[K]
    BY <2>0, <2>2 DEF Takes, ViewOf
  <2>4. PICK o : ViewOK(o, c[K])
    BY <2>3 DEF Taken
  <2>5. ViewOK(o, w)
    BY <2>2, <2>3, <2>4, DeleteView
  <2>6. w.nnint64_delta = c[K].nnint64_delta
    <3> DEFINE v == c[K]
    <3>1. DeleteLast.type = "DELETE_LAST"
      BY DEF DeleteLast
    <3>a. w \in TryApply(v, DeleteLast)
      BY <2>2, <2>3
    <3>b. IsRec(v)
      BY <2>4 DEF ViewOK
    <3> HIDE DEF v
    <3>2. w = [v EXCEPT !.is_deleted = TRUE, !.current = NoObject]
      <4>1. TryApply(v, DeleteLast) = {[v EXCEPT !.is_deleted = TRUE, !.current = NoObject]}
        BY <3>1, TryApplyIs
      <4> QED BY <3>a, <4>1
    <3>3. w \in Recs(NoObject, v.memory_write, v.nnint64_delta, v.hs_size_increase, v.new_hashes,
                     v.hs_clear_threshold, TRUE)
      BY <3>b, <3>2, RecExcept, Zenon
    <3>4. w.nnint64_delta = v.nnint64_delta
      BY <3>3 DEF Recs
    <3> QED BY <3>4 DEF v
  <2> QED BY <2>2, <2>3, <2>5, <2>6, PutView DEF Taken
<1>3. ASSUME Unseen(C, K) PROVE Takes(acquire_flag(C, K), K)
  <2> DEFINE B == UNION {IF has_key(c, K) THEN {c} ELSE int64_set_add({c}, K, 1, 0) : c \in C}
  <2>0. ASSUME NEW b \in B
        PROVE  \E o : /\ ViewOK(o, ViewOf(b, K))
                      /\ \/ ViewOf(b, K).nnint64_delta = {}
                         \/ ViewOf(b, K).nnint64_delta = {[set_value |-> 1, delta |-> 0]}
    <3>1. PICK c \in C : b \in IF has_key(c, K) THEN {c} ELSE int64_set_add({c}, K, 1, 0)
      BY <2>0
    <3>2. K \notin DOMAIN c
      BY <1>3 DEF Unseen
    <3>3. CASE b = c
      BY <1>0, <3>2, <3>3
    <3>4. CASE b \in int64_set_add({c}, K, 1, 0)
      <4>1. PICK w \in TryApply(ViewOf(c, K), SetAdd(1, 0)) : b = Put(c, K, w)
        BY <3>4 DEF int64_set_add, Syscall
      <4> DEFINE v == ViewOf(c, K)
      <4>2. ViewOK(At(K), v) /\ v.nnint64_delta = {}
        BY <1>0, <3>2
      <4>3. w \in TryApply(v, SetAdd(1, 0))
        BY <4>1
      <4> HIDE DEF v
      <4>4. ViewOK(At(K), w) /\ w.nnint64_delta = {[set_value |-> 1, delta |-> 0 + 0]}
        BY <4>2, <4>3, AddOnce
      <4>5. ViewOf(b, K) = w
        BY <4>1, PutView DEF ViewOf
      <4> QED BY <4>4, <4>5
    <3> QED BY <3>1, <3>3, <3>4
  <2>1. SUFFICES ASSUME NEW x \in acquire_flag(C, K) PROVE K \in DOMAIN x /\ Taken(x[K])
    BY DEF Takes
  <2>2. PICK b, w : b \in B /\ w \in TryApply(ViewOf(b, K), SetAdd(1, -1)) /\ x = Put(b, K, w)
    BY <2>1 DEF acquire_flag, int64_set_add, Syscall
  <2> DEFINE v == ViewOf(b, K)
  <2>3. PICK o : /\ ViewOK(o, v)
                 /\ v.nnint64_delta = {} \/ v.nnint64_delta = {[set_value |-> 1, delta |-> 0]}
    BY <2>0, <2>2
  <2>4. w \in TryApply(v, SetAdd(1, -1))
    BY <2>2
  <2> HIDE DEF v
  <2>5. ViewOK(o, w) /\ w.nnint64_delta = {[set_value |-> 1, delta |-> 0 + -1]}
    BY <2>3, <2>4, AddOnce
  <2> QED BY <2>2, <2>5, PutView DEF Taken
<1> QED BY <1>1, <1>2, <1>3

-----------------------------------------------------------------------------
(* The methods                                                             *)

\* What holds of a step on one context holds of it as one of several.
LEMMA SamePicked ==
  ASSUME NEW A, NEW C, NEW K, NEW c \in C, Same(A, {c}, K)
  PROVE  Same(A, C, K)
BY DEF Same

LEMMA FreePart ==
  ASSUME NEW C, NEW K, Unseen(C, K), NEW c \in C
  PROVE  Unseen({c}, K)
BY DEF Unseen

\* The token takes no semaphore and no flag.
LEMMA TokenSame ==
  ASSUME NEW C, NEW K, Aside(K), NEW call
  PROVE  Same(RunToken(C, call), C, K)
<1>0. ASSUME NEW token PROVE <<token, "owner">> # K /\ <<token, "metadata">> # K
  BY DEF Aside
<1>1. ASSUME NEW token, NEW owner PROVE Same(initialize_token(C, token, owner), C, K)
  BY <1>0, SameCalls DEF initialize_token
<1>2. ASSUME NEW token, NEW sender, NEW metadata
      PROVE  Same(set_metadata(C, token, sender, metadata), C, K)
  <2>1. SUFFICES ASSUME NEW x \in set_metadata(C, token, sender, metadata)
                 PROVE  \E c \in C : \E B : x \in B /\ Same(B, {c}, K)
    BY SameEach
  <2>2. PICK c \in C : x \in set_raw_memory({c}, <<token, "metadata">>, metadata)
    BY <2>1 DEF set_metadata, get_raw_memory, Require
  <2>3. Same(set_raw_memory({c}, <<token, "metadata">>, metadata), {c}, K)
    BY <1>0, SameCalls
  <2> QED BY <2>2, <2>3
<1> QED BY <1>1, <1>2, SameToken, SameNone, Zenon DEF RunToken

NftSemaphore == <<"nft", "semaphore">>

\* transferFrom of the object takes its semaphore and leaves the others.
LEMMA TransferNft ==
  ASSUME NEW C, NEW sender, NEW from, NEW to
  PROVE  /\ \A K : Aside(K) /\ K # NftSemaphore => Same(transferFrom_nft(C, sender, from, to), C, K)
         /\ Unseen(C, NftSemaphore) => Takes(transferFrom_nft(C, sender, from, to), NftSemaphore)
<1> DEFINE moved(B) == delete_last(set_raw_memory(B, OwnerKey, to), ApprovalKey)
<1>1. ASSUME NEW x \in transferFrom_nft(C, sender, from, to)
      PROVE  \E c \in C : \E B : B \subseteq {c} /\ x \in acquire_transient(moved(B), NftSemaphore)
  <2> DEFINE Valid(c, owner) == {d \in {c} : /\ owner = from
                                            /\ \/ int64_get(d, OperatorKey(owner, sender)) # 0
                                               \/ owner = sender}
  <2>1. \E c \in C : x \in acquire_transient(moved(Valid(c, Object(c, OwnerKey).value)), NftSemaphore)
    BY <1>1 DEF transferFrom_nft, get_raw_memory, Require, NftSemaphore
  <2>2. \A c, owner : Valid(c, owner) \subseteq {c}
    OBVIOUS
  <2> HIDE DEF Valid, moved
  <2> QED BY <2>1, <2>2
<1>2. ASSUME NEW B, NEW c, B \subseteq {c}, NEW K, Aside(K) PROVE Same(moved(B), {c}, K)
  <2>1. OwnerKey # K /\ ApprovalKey # K
    BY <1>2 DEF Aside, OwnerKey, ApprovalKey
  <2> DEFINE A == set_raw_memory(B, OwnerKey, to)
  <2>2. Same(B, {c}, K)
    BY <1>2, SameSub
  <2>3. Same(A, B, K)
    BY <2>1, SameCalls
  <2>4. Same(delete_last(A, ApprovalKey), A, K)
    BY <2>1, SameCalls
  <2> HIDE DEF A
  <2>5. Same(A, {c}, K)
    BY <2>2, <2>3, SameTrans
  <2>6. Same(delete_last(A, ApprovalKey), {c}, K)
    BY <2>4, <2>5, SameTrans
  <2> QED BY <2>6 DEF A
<1>3. Aside(NftSemaphore)
  BY DEF Aside, NftSemaphore
<1> HIDE DEF moved
<1>4. ASSUME NEW K, Aside(K), K # NftSemaphore
      PROVE  Same(transferFrom_nft(C, sender, from, to), C, K)
  <2>1. ASSUME NEW x \in transferFrom_nft(C, sender, from, to)
        PROVE  \E c \in C : \E B : x \in B /\ Same(B, {c}, K)
    <3>1. PICK c, B : c \in C /\ B \subseteq {c} /\ x \in acquire_transient(moved(B), NftSemaphore)
      BY <1>1, <2>1
    <3>2. Same(acquire_transient(moved(B), NftSemaphore), moved(B), K)
      BY <1>4, AcquireSame
    <3>3. Same(acquire_transient(moved(B), NftSemaphore), {c}, K)
      BY <1>2, <1>4, <3>1, <3>2, SameTrans
    <3> QED BY <3>1, <3>3
  <2> QED BY <2>1, SameEach
<1>5. ASSUME Unseen(C, NftSemaphore), NEW x \in transferFrom_nft(C, sender, from, to)
      PROVE  NftSemaphore \in DOMAIN x /\ Taken(x[NftSemaphore])
  <2>1. PICK c, B : c \in C /\ B \subseteq {c} /\ x \in acquire_transient(moved(B), NftSemaphore)
    BY <1>1, <1>5
  <2>2. Unseen({c}, NftSemaphore)
    BY <1>5, <2>1, FreePart
  <2>3. Unseen(moved(B), NftSemaphore)
    BY <1>2, <1>3, <2>1, <2>2, SameFree
  <2>4. Takes(acquire_transient(moved(B), NftSemaphore), NftSemaphore)
    BY <2>3, AcquireTakes DEF Unseen
  <2> QED BY <2>1, <2>4 DEF Takes
<1> QED BY <1>4, <1>5 DEF Takes

\* The same of all methods of erc721.
LEMMA NftSame ==
  ASSUME NEW C, NEW call
  PROVE  /\ \A K : Aside(K) /\ K # NftSemaphore => Same(RunNft(C, call), C, K)
         /\ call.method = "transferFrom" /\ Unseen(C, NftSemaphore) =>
              Takes(RunNft(C, call), NftSemaphore)
<1>1. ASSUME NEW K, Aside(K), NEW sender, NEW op, NEW approve
      PROVE  Same(set_approval_for_all(C, sender, op, approve), C, K)
  <2>1. OperatorKey(sender, op) # K
    BY <1>1 DEF Aside, OperatorKey
  <2> QED BY <2>1, SameCalls DEF set_approval_for_all
<1>2. ASSUME NEW K, Aside(K), NEW sender, NEW approved
      PROVE  Same(approve_one(C, sender, approved), C, K)
  <2>1. SUFFICES ASSUME NEW x \in approve_one(C, sender, approved)
                 PROVE  \E c \in C : \E B : x \in B /\ Same(B, {c}, K)
    BY SameEach
  <2>2. PICK c, B : c \in C /\ B \subseteq {c} /\ x \in set_raw_memory(B, ApprovalKey, approved)
    BY <2>1 DEF approve_one, get_raw_memory, Require
  <2>3. ApprovalKey # K
    BY <1>2 DEF Aside, ApprovalKey
  <2>4. Same(set_raw_memory(B, ApprovalKey, approved), B, K) /\ Same(B, {c}, K)
    BY <2>2, <2>3, SameCalls, SameSub
  <2>5. Same(set_raw_memory(B, ApprovalKey, approved), {c}, K)
    BY <2>4, SameTrans
  <2> QED BY <2>2, <2>5
<1>3. ASSUME NEW K, Aside(K), K # NftSemaphore PROVE Same(RunNft(C, call), C, K)
  BY <1>1, <1>2, <1>3, TransferNft, SameNone, Zenon DEF RunNft
<1>4. ASSUME call.method = "transferFrom"
      PROVE  RunNft(C, call) = transferFrom_nft(C, call.sender, call.from, call.to)
  BY <1>4 DEF RunNft
<1> QED BY <1>3, <1>4, TransferNft

OfferSemaphore(offer) == <<"zerox", "semaphore", offer>>

\* create_offer takes the semaphore of its offer and leaves the others.
LEMMA CreateOffer ==
  ASSUME NEW C, NEW offer
  PROVE  /\ \A K : Aside(K) /\ K # OfferSemaphore(offer) => Same(create_offer(C, offer), C, K)
         /\ Unseen(C, OfferSemaphore(offer)) => Takes(create_offer(C, offer), OfferSemaphore(offer))
<1> DEFINE taken == acquire_transient(C, OfferSemaphore(offer))
           once == {c \in taken : ~has_key(c, OfferConfig(offer))}
           set == set_raw_memory(once, OfferConfig(offer), offer)
           filled == int64_set_add(set, OfferBalance(offer), offer.sellAmount, 0)
           paid == transferFrom(filled, offer.sellToken, "zerox", offer.owner, "zerox",
                                offer.sellAmount)
<1>1. create_offer(C, offer) = paid
  BY Zenon DEF create_offer, OfferSemaphore, Require
<1>2. ASSUME NEW K, Aside(K) PROVE Same(paid, taken, K)
  <2>1. OfferConfig(offer) # K /\ OfferBalance(offer) # K
    BY <1>2 DEF Aside, OfferConfig, OfferBalance
  <2>2. Same(once, taken, K)
    BY SameSub
  <2> HIDE DEF taken, once
  <2>3. Same(set, once, K)
    BY <2>1, SameCalls
  <2> HIDE DEF set
  <2>4. Same(filled, set, K)
    BY <2>1, SameCalls
  <2> HIDE DEF filled
  <2>5. Same(paid, filled, K)
    BY <1>2, SameToken
  <2> HIDE DEF paid
  <2> QED BY <2>2, <2>3, <2>4, <2>5, SameTrans
<1> HIDE DEF paid
<1>3. ASSUME NEW K, Aside(K), K # OfferSemaphore(offer) PROVE Same(paid, C, K)
  <2>1. Same(taken, C, K)
    BY <1>3, AcquireSame
  <2> QED BY <1>2, <1>3, <2>1, SameTrans
<1>4. ASSUME Unseen(C, OfferSemaphore(offer)) PROVE Takes(paid, OfferSemaphore(offer))
  <2>1. Takes(taken, OfferSemaphore(offer))
    BY <1>4, AcquireTakes DEF Unseen
  <2>2. Aside(OfferSemaphore(offer))
    BY DEF Aside, OfferSemaphore
  <2> QED BY <1>2, <2>1, <2>2, SameFree
<1> QED BY <1>1, <1>3, <1>4

\* consume_offer takes none.
LEMMA ConsumeOffer ==
  ASSUME NEW C, NEW sender, NEW offer, NEW amount, NEW K, Aside(K)
  PROVE  Same(consume_offer(C, sender, offer, amount), C, K)
<1>0. OfferConfig(offer) # K /\ OfferBalance(offer) # K
  BY DEF Aside, OfferConfig, OfferBalance
<1>1. SUFFICES ASSUME NEW x \in consume_offer(C, sender, offer, amount)
               PROVE  \E c \in C : \E B : x \in B /\ Same(B, {c}, K)
  BY SameEach
<1> DEFINE Sold(c, o) == transferFrom({c}, o.sellToken, "zerox", "zerox", sender, amount)
           Paid(c, o) == UNION {transferFrom(Sold(c, o), o.buyToken, "zerox", sender, o.owner, n)
                                  : n \in get_buy_amount(amount, o.price)}
           Left2(c, o) == int64_add(Paid(c, o), OfferBalance(offer), -amount)
           Gone(d) == delete_last(delete_last({d}, OfferBalance(offer)), OfferConfig(offer))
<1>2. PICK c, o : c \in C /\ (\E d \in Left2(c, o) : x = d \/ x \in Gone(d))
  <2> DEFINE Then(c, o) == UNION {IF int64_get(d, OfferBalance(offer)) = 0 THEN Gone(d)
                                  ELSE {d} : d \in Left2(c, o)}
  <2>1. \E c \in C : x \in Then(c, Object(c, OfferConfig(offer)).value)
    <3> HIDE DEF Left2, Gone
    <3> QED BY <1>1 DEF consume_offer, get_raw_memory, Require, Left2, Gone
  <2>2. \A c, o : x \in Then(c, o) => \E d \in Left2(c, o) : x = d \/ x \in Gone(d)
    <3> HIDE DEF Left2, Gone
    <3> QED OBVIOUS
  <2> HIDE DEF Then, Left2, Gone
  <2> QED BY <2>1, <2>2
<1>3. Same(Left2(c, o), {c}, K)
  <2>1. Same(Sold(c, o), {c}, K)
    BY SameToken
  <2> HIDE DEF Sold
  <2>2. Same(Paid(c, o), Sold(c, o), K)
    <3>1. ASSUME NEW y \in Paid(c, o) PROVE \E n : y \in transferFrom(Sold(c, o), o.buyToken, "zerox", sender, o.owner, n)
      BY <3>1
    <3>2. ASSUME NEW n
          PROVE Same(transferFrom(Sold(c, o), o.buyToken, "zerox", sender, o.owner, n), Sold(c, o), K)
      BY SameToken
    <3> HIDE DEF Paid
    <3> QED BY <3>1, <3>2 DEF Same
  <2> HIDE DEF Paid
  <2>3. Same(Left2(c, o), Paid(c, o), K)
    BY <1>0, SameCalls
  <2> HIDE DEF Left2
  <2> QED BY <2>1, <2>2, <2>3, SameTrans
<1>4. ASSUME NEW d PROVE Same(Gone(d), {d}, K)
  <2> DEFINE first == delete_last({d}, OfferBalance(offer))
  <2>1. Same(first, {d}, K)
    BY <1>0, SameCalls
  <2> HIDE DEF first
  <2>2. Same(delete_last(first, OfferConfig(offer)), first, K)
    BY <1>0, SameCalls
  <2>3. Same(delete_last(first, OfferConfig(offer)), {d}, K)
    BY <2>1, <2>2, SameTrans
  <2> QED BY <2>3 DEF first
<1> HIDE DEF Left2, Gone
<1>5. PICK d \in Left2(c, o) : x = d \/ x \in Gone(d)
  BY <1>2
<1>6. Same({x}, {d}, K)
  BY <1>4, <1>5 DEF Same
<1>7. Same({d}, {c}, K)
  BY <1>3, <1>5 DEF Same
<1> QED BY <1>2, <1>6, <1>7, SameTrans

\* cancel_offer takes none.
LEMMA CancelOffer ==
  ASSUME NEW C, NEW sender, NEW offer, NEW K, Aside(K)
  PROVE  Same(cancel_offer(C, sender, offer), C, K)
<1>0. OfferConfig(offer) # K /\ OfferBalance(offer) # K
  BY DEF Aside, OfferConfig, OfferBalance
<1>1. SUFFICES ASSUME NEW x \in cancel_offer(C, sender, offer)
               PROVE  \E c \in C : \E B : x \in B /\ Same(B, {c}, K)
  BY SameEach
<1> DEFINE Rest(c) == int64_get(c, OfferBalance(offer))
           None(c) == int64_add({c}, OfferBalance(offer), -Rest(c))
           Part(c) == delete_last(None(c), OfferBalance(offer))
           Gone(c) == delete_last(Part(c), OfferConfig(offer))
           Back(c, o) == transferFrom(Gone(c), o.sellToken, "zerox", "zerox", o.owner, Rest(c))
<1>2. PICK c \in C : \E o : x \in Back(c, o)
  <2> HIDE DEF Back
  <2> QED BY <1>1 DEF cancel_offer, get_raw_memory, Require, Back
<1>2a. PICK o : x \in Back(c, o)
  BY <1>2
<1>3. Same(None(c), {c}, K)
  BY <1>0, SameCalls
<1> HIDE DEF None
<1>4. Same(Part(c), None(c), K)
  BY <1>0, SameCalls
<1> HIDE DEF Part
<1>5. Same(Gone(c), Part(c), K)
  BY <1>0, SameCalls
<1> HIDE DEF Gone
<1>6. Same(Back(c, o), Gone(c), K)
  BY SameToken
<1> HIDE DEF Back
<1>7. Same(Back(c, o), {c}, K)
  BY <1>3, <1>4, <1>5, <1>6, SameTrans
<1> QED BY <1>2a, <1>7

\* The same of all methods of 0x.
LEMMA OffersSame ==
  ASSUME NEW C, NEW call
  PROVE  /\ \A K : Aside(K) /\ K # OfferSemaphore(call.offer) => Same(RunOffers(C, call), C, K)
         /\ call.method = "create_offer" /\ Unseen(C, OfferSemaphore(call.offer)) =>
              Takes(RunOffers(C, call), OfferSemaphore(call.offer))
<1>1. ASSUME NEW K, Aside(K), K # OfferSemaphore(call.offer) PROVE Same(RunOffers(C, call), C, K)
  BY <1>1, CreateOffer, ConsumeOffer, CancelOffer, SameNone, Zenon DEF RunOffers
<1>2. ASSUME call.method = "create_offer" PROVE RunOffers(C, call) = create_offer(C, call.offer)
  BY <1>2 DEF RunOffers
<1> QED BY <1>1, <1>2, CreateOffer

\* create_auction takes the semaphore of the object that it is given.
LEMMA CreateAuction ==
  ASSUME NEW C, NEW config
  PROVE  /\ \A K : Aside(K) /\ K # NftSemaphore /\ K # <<"auction", "semaphore">> =>
              Same(create_auction(C, config), C, K)
         /\ Unseen(C, NftSemaphore) => Takes(create_auction(C, config), NftSemaphore)
<1> DEFINE taken == acquire_transient(C, <<"auction", "semaphore">>)
           moved == transferFrom_nft(taken, "auction", config.addrSeller, "auction")
           set == set_raw_memory(moved, AuctionConfig, config)
<1>1. create_auction(C, config) = set
  BY DEF create_auction
<1>2. ASSUME NEW K, Aside(K) PROVE Same(set, moved, K)
  <2>1. AuctionConfig # K
    BY <1>2 DEF Aside, AuctionConfig
  <2> HIDE DEF moved
  <2> QED BY <2>1, SameCalls
<1>3. ASSUME NEW K, K # <<"auction", "semaphore">> PROVE Same(taken, C, K)
  BY <1>3, AcquireSame
<1> HIDE DEF taken, set
<1>4. ASSUME NEW K, Aside(K), K # NftSemaphore, K # <<"auction", "semaphore">>
      PROVE Same(set, C, K)
  <2>1. Same(moved, taken, K)
    BY <1>4, TransferNft
  <2> HIDE DEF moved
  <2> QED BY <1>2, <1>3, <1>4, <2>1, SameTrans
<1>5. ASSUME Unseen(C, NftSemaphore) PROVE Takes(set, NftSemaphore)
  <2>1. NftSemaphore # <<"auction", "semaphore">> /\ Aside(NftSemaphore)
    BY DEF NftSemaphore, Aside
  <2>2. Unseen(taken, NftSemaphore)
    BY <1>3, <1>5, <2>1, SameFree
  <2>3. Takes(moved, NftSemaphore)
    BY <2>2, TransferNft
  <2> HIDE DEF moved
  <2> QED BY <1>2, <2>1, <2>3, SameFree
<1> QED BY <1>1, <1>4, <1>5

\* Bids and refunds take no semaphore.
LEMMA Bidding ==
  ASSUME NEW C, NEW bid, NEW K, Aside(K)
  PROVE  Same(submit_bid(C, bid), C, K) /\ Same(refund_bid(C, bid), C, K)
<1>0. ReservePrice # K /\ Bids # K /\ RefundedBids # K
  BY DEF Aside, ReservePrice, Bids, RefundedBids
<1>1. ASSUME NEW x \in submit_bid(C, bid)
      PROVE  \E c \in C : \E B : x \in B /\ Same(B, {c}, K)
  <2> DEFINE Second(c) == Entries(c, Bids)[2].index
             Raised(c) == IF Len(Entries(c, Bids)) >= 2 /\ Second(c) # int64_get(c, ReservePrice)
                          THEN int64_set_add({c}, ReservePrice, Second(c), 0) ELSE {c}
             Paid(c, config) == transferFrom(Raised(c), config.token, "auction", bid.bidder,
                                             "auction", bid.amount)
             Bade(c, config) == hashset_insert(Paid(c, config), Bids, bid, bid.amount)
  <2>1. PICK c, config : c \in C /\ x \in Bade(c, config)
    <3>1. \E c \in C : \E d \in {c} : x \in Bade(d, Object(c, AuctionConfig).value)
      BY <1>1, Zenon DEF submit_bid, get_raw_memory, Require
    <3> HIDE DEF Bade
    <3> QED BY <3>1
  <2>2. Same(Raised(c), {c}, K)
    BY <1>0, SameCalls, SameNone
  <2> HIDE DEF Raised
  <2>3. Same(Paid(c, config), Raised(c), K)
    BY SameToken
  <2> HIDE DEF Paid
  <2>4. Same(Bade(c, config), Paid(c, config), K)
    BY <1>0, SameCalls
  <2> HIDE DEF Bade
  <2>5. Same(Bade(c, config), {c}, K)
    BY <2>2, <2>3, <2>4, SameTrans
  <2> QED BY <2>1, <2>5
<1>2. ASSUME NEW x \in refund_bid(C, bid)
      PROVE  \E c \in C : \E B : x \in B /\ Same(B, {c}, K)
  <2> DEFINE Noted(A) == hashset_insert(A, RefundedBids, bid, bid.amount)
             Back(A, config) == transferFrom(Noted(A), config.token, "auction", "auction",
                                             bid.bidder, bid.amount)
             Lost(c, config) == {d \in {c} :
                    LET bids == Entries(d, Bids)
                    IN  /\ Closed(d, config)
                        /\ bids[1].hash # bid
                        /\ \E i \in DOMAIN bids : bids[i].hash = bid}
  <2>0. PICK c \in C : \E config : x \in Back(Lost(c, config), config)
    <3> HIDE DEF Back
    <3> QED BY <1>2 DEF refund_bid, get_raw_memory, Require, Back
  <2>1. PICK config : x \in Back(Lost(c, config), config)
    BY <2>0
  <2>2. Same(Lost(c, config), {c}, K)
    BY SameSub
  <2> HIDE DEF Lost
  <2>3. ASSUME NEW A PROVE Same(Back(A, config), A, K)
    <3>1. Same(Noted(A), A, K)
      BY <1>0, SameCalls
    <3> HIDE DEF Noted
    <3>2. Same(Back(A, config), Noted(A), K)
      BY SameToken
    <3> HIDE DEF Back
    <3> QED BY <3>1, <3>2, SameTrans
  <2> HIDE DEF Back
  <2>4. Same(Back(Lost(c, config), config), {c}, K)
    BY <2>2, <2>3, SameTrans
  <2> QED BY <2>1, <2>4
<1> QED BY <1>1, <1>2, SameEach

\* The auction gives the object away only with the object's semaphore.
LEMMA ClosingAuction ==
  ASSUME NEW C, NEW bid
  PROVE  /\ \A K : Aside(K) /\ K # NftSemaphore =>
              Same(execute_winning_bid(C, bid), C, K) /\ Same(destroy_empty_auction(C), C, K)
         /\ Unseen(C, NftSemaphore) => /\ Takes(execute_winning_bid(C, bid), NftSemaphore)
                                     /\ Takes(destroy_empty_auction(C), NftSemaphore)
<1>1. ASSUME NEW x \in execute_winning_bid(C, bid)
      PROVE  \E c \in C : \E B, to : /\ \A K : Aside(K) => Same(B, {c}, K)
                                     /\ x \in transferFrom_nft(B, "auction", "auction", to)
  <2> DEFINE Second(c) == IF Len(Entries(c, Bids)) > 1 THEN {Entries(c, Bids)[2].index} ELSE {}
             Price(c) == Max({int64_get(c, ReservePrice)} \cup Second(c))
             Refunded(c, config) == transferFrom({c}, config.token, "auction", "auction", bid.bidder,
                                                 bid.amount - Price(c))
             Paid(c, config) == transferFrom(Refunded(c, config), config.token, "auction", "auction",
                                             config.addrSeller, Price(c))
  <2>1. PICK c, config : c \in C /\ x \in transferFrom_nft(Paid(c, config), "auction", "auction", bid.bidder)
    <3>1. \E c \in C : \E d \in {c} :
            x \in transferFrom_nft(Paid(d, Object(c, AuctionConfig).value), "auction", "auction", bid.bidder)
      BY <1>1, Zenon DEF execute_winning_bid, get_raw_memory, Require
    <3> HIDE DEF Paid
    <3> QED BY <3>1
  <2> HIDE DEF Price
  <2>2. ASSUME NEW K, Aside(K) PROVE Same(Paid(c, config), {c}, K)
    <3>1. Same(Refunded(c, config), {c}, K)
      BY <2>2, SameToken
    <3> HIDE DEF Refunded
    <3>2. Same(Paid(c, config), Refunded(c, config), K)
      BY <2>2, SameToken
    <3> HIDE DEF Paid
    <3> QED BY <3>1, <3>2, SameTrans
  <2> HIDE DEF Paid
  <2> QED BY <2>1, <2>2
<1>2. ASSUME NEW x \in destroy_empty_auction(C)
      PROVE  \E c \in C : \E B, to : /\ \A K : Aside(K) => Same(B, {c}, K)
                                     /\ x \in transferFrom_nft(B, "auction", "auction", to)
  <2> DEFINE Over(c, config) == {d \in {c} : Entries(d, Bids) = <<>> /\ height > config.closing_round}
  <2>1. PICK c, config : c \in C /\ x \in transferFrom_nft(Over(c, config), "auction", "auction", config.addrSeller)
    BY <1>2 DEF destroy_empty_auction, get_raw_memory, Require
  <2>2. ASSUME NEW K PROVE Same(Over(c, config), {c}, K)
    BY SameSub
  <2> HIDE DEF Over
  <2> QED BY <2>1, <2>2
<1>3. ASSUME NEW X, NEW K, Aside(K), K # NftSemaphore,
             \A x \in X : \E c \in C : \E B, to : /\ \A L : Aside(L) => Same(B, {c}, L)
                                                  /\ x \in transferFrom_nft(B, "auction", "auction", to)
      PROVE  Same(X, C, K)
  <2>1. ASSUME NEW x \in X PROVE \E c \in C : \E B : x \in B /\ Same(B, {c}, K)
    <3>1. PICK c, B, to : /\ c \in C
                          /\ \A L : Aside(L) => Same(B, {c}, L)
                          /\ x \in transferFrom_nft(B, "auction", "auction", to)
      BY <1>3, <2>1
    <3>2. Same(transferFrom_nft(B, "auction", "auction", to), B, K)
      BY <1>3, TransferNft
    <3>3. Same(transferFrom_nft(B, "auction", "auction", to), {c}, K)
      BY <1>3, <3>1, <3>2, SameTrans
    <3> QED BY <3>1, <3>3
  <2> QED BY <2>1, SameEach
<1>4. ASSUME NEW X, Unseen(C, NftSemaphore),
             \A x \in X : \E c \in C : \E B, to : /\ \A L : Aside(L) => Same(B, {c}, L)
                                                  /\ x \in transferFrom_nft(B, "auction", "auction", to)
      PROVE  Takes(X, NftSemaphore)
  <2>1. ASSUME NEW x \in X PROVE NftSemaphore \in DOMAIN x /\ Taken(x[NftSemaphore])
    <3>1. PICK c, B, to : /\ c \in C
                          /\ \A L : Aside(L) => Same(B, {c}, L)
                          /\ x \in transferFrom_nft(B, "auction", "auction", to)
      BY <1>4, <2>1
    <3>2. Unseen(B, NftSemaphore)
      <4>1. Aside(NftSemaphore)
        BY DEF Aside, NftSemaphore
      <4> QED BY <1>4, <3>1, <4>1, FreePart, SameFree
    <3>3. Takes(transferFrom_nft(B, "auction", "auction", to), NftSemaphore)
      BY <3>2, TransferNft
    <3> QED BY <3>1, <3>3 DEF Takes
  <2> QED BY <2>1 DEF Takes
<1> QED BY <1>1, <1>2, <1>3, <1>4

\* The same of all methods of the auction.
LEMMA AuctionSame ==
  ASSUME NEW C, NEW call
  PROVE  /\ \A K : Aside(K) /\ K # NftSemaphore /\ K # <<"auction", "semaphore">> =>
              Same(RunAuction(C, call), C, K)
         /\ call.method \in {"create_auction", "winning_bid", "destroy_auction"}
              /\ Unseen(C, NftSemaphore) => Takes(RunAuction(C, call), NftSemaphore)
<1>1. ASSUME NEW K, Aside(K), K # NftSemaphore, K # <<"auction", "semaphore">>
      PROVE  Same(RunAuction(C, call), C, K)
  BY <1>1, CreateAuction, Bidding, ClosingAuction, SameNone, Zenon DEF RunAuction
<1>2. /\ call.method = "create_auction" => RunAuction(C, call) = create_auction(C, call.config)
      /\ call.method = "winning_bid" => RunAuction(C, call) = execute_winning_bid(C, call.bid)
      /\ call.method = "destroy_auction" => RunAuction(C, call) = destroy_empty_auction(C)
  BY DEF RunAuction
<1> QED BY <1>1, <1>2, CreateAuction, ClosingAuction

ChannelFlag == <<"channel", "initialized">>
ClaimFlag(party) == <<"channel", "claimed", party>>

\* A channel is initialised with its flag.
LEMMA OpenChannel ==
  ASSUME NEW C, NEW token, NEW amounts
  PROVE  /\ \A K : Aside(K) /\ K # ChannelFlag => Same(initialize_channel(C, token, amounts), C, K)
         /\ Unseen(C, ChannelFlag) => Takes(initialize_channel(C, token, amounts), ChannelFlag)
<1> DEFINE config == [token |-> token, state |-> "OPEN", maxtime |-> 0,
                      params |-> [seqno |-> 0, alice |-> 0, bob |-> 0]]
           taken == acquire_flag(C, ChannelFlag)
           set == set_raw_memory(taken, ChannelConfig, config)
           first == transferFrom(set, token, "channel", "alice", "channel", amounts.alice)
           both == transferFrom(first, token, "channel", "bob", "channel", amounts.bob)
<1>1. initialize_channel(C, token, amounts) = both
  BY DEF initialize_channel, ChannelFlag
<1>2. ASSUME NEW K, Aside(K) PROVE Same(both, taken, K)
  <2>1. ChannelConfig # K
    BY <1>2 DEF Aside, ChannelConfig
  <2> HIDE DEF taken, config
  <2>2. Same(set, taken, K)
    BY <2>1, SameCalls
  <2> HIDE DEF set
  <2>3. Same(first, set, K)
    BY <1>2, SameToken
  <2> HIDE DEF first
  <2>4. Same(both, first, K)
    BY <1>2, SameToken
  <2> HIDE DEF both
  <2> QED BY <2>2, <2>3, <2>4, SameTrans
<1> HIDE DEF both
<1>3. ASSUME NEW K, Aside(K), K # ChannelFlag PROVE Same(both, C, K)
  <2>1. Same(taken, C, K)
    BY <1>3, AcquireSame
  <2> QED BY <1>2, <1>3, <2>1, SameTrans
<1>4. ASSUME Unseen(C, ChannelFlag) PROVE Takes(both, ChannelFlag)
  <2>1. Takes(taken, ChannelFlag)
    BY <1>4, AcquireTakes DEF Unseen
  <2>2. Aside(ChannelFlag)
    BY DEF Aside, ChannelFlag
  <2> QED BY <1>2, <2>1, <2>2, SameFree
<1> QED BY <1>1, <1>3, <1>4

\* Closing a channel, before the claims, takes no flag.
LEMMA ClosingChannel ==
  ASSUME NEW C, NEW by, NEW sigs, NEW par, NEW K, Aside(K)
  PROVE  /\ Same(mutual_closing(C, sigs, par), C, K)
         /\ Same(init_close(C, by, sigs, par), C, K)
         /\ Same(challenge_close(C, by, sigs, par), C, K)
         /\ \A config : Same(finish_closing(C, config), C, K)
<1>0. ChannelConfig # K
  BY DEF Aside, ChannelConfig
<1>1. ASSUME NEW x \in mutual_closing(C, sigs, par)
      PROVE  \E c \in C : \E B : x \in B /\ Same(B, {c}, K)
  <2> DEFINE First(c, config) == transferFrom({c}, config.token, "channel", "channel", "alice", par.alice)
             Both(c, config) == transferFrom(First(c, config), config.token, "channel", "channel", "bob", par.bob)
  <2>1. PICK c, config : c \in C /\ x \in Both(c, config)
    <3> HIDE DEF Both
    <3> QED BY <1>1 DEF mutual_closing, get_raw_memory, Require, Signed, Both
  <2>2. Same(First(c, config), {c}, K)
    BY SameToken
  <2> HIDE DEF First
  <2>3. Same(Both(c, config), First(c, config), K)
    BY SameToken
  <2> HIDE DEF Both
  <2>4. Same(Both(c, config), {c}, K)
    BY <2>2, <2>3, SameTrans
  <2> QED BY <2>1, <2>4
<1>2. ASSUME NEW x \in init_close(C, by, sigs, par)
      PROVE  \E c \in C : \E B : x \in B /\ Same(B, {c}, K)
  <2>1. PICK c, w : c \in C /\ x \in set_raw_memory({c}, ChannelConfig, w)
    <3> DEFINE W(config) == [config EXCEPT !.params = par, !.state = by,
                                           !.maxtime = height + ChallengeTime]
    <3>1. \E c \in Signed(C, sigs) : \E d \in {{c}} :
            x \in IF Object(c, ChannelConfig).value.state # "OPEN" THEN {}
                  ELSE set_raw_memory(d, ChannelConfig, W(Object(c, ChannelConfig).value))
      BY <1>2, Zenon DEF init_close, get_raw_memory, Require
    <3>2. Signed(C, sigs) \subseteq C
      BY DEF Signed
    <3> HIDE DEF W
    <3>3. PICK c \in C : x \in set_raw_memory({c}, ChannelConfig, W(Object(c, ChannelConfig).value))
      BY <3>1, <3>2
    <3> QED BY <3>3
  <2>2. Same(set_raw_memory({c}, ChannelConfig, w), {c}, K)
    BY <1>0, SameCalls
  <2> QED BY <2>1, <2>2
<1>3. ASSUME NEW x \in challenge_close(C, by, sigs, par)
      PROVE  \E c \in C : \E B : x \in B /\ Same(B, {c}, K)
  <2>1. PICK c, config : c \in C /\
          x \in transferFrom({c}, config.token, "channel", "channel", by, par.alice + par.bob)
    BY <1>3 DEF challenge_close, get_raw_memory, Require, Signed
  <2>2. Same(transferFrom({c}, config.token, "channel", "channel", by, par.alice + par.bob), {c}, K)
    BY SameToken
  <2> QED BY <2>1, <2>2
<1>4. ASSUME NEW config PROVE Same(finish_closing(C, config), C, K)
  <2>1. \A w : Same(set_raw_memory(C, ChannelConfig, w), C, K)
    BY <1>0, SameCalls
  <2>2. \/ finish_closing(C, config) = C
        \/ finish_closing(C, config) = {}
        \/ \E w : finish_closing(C, config) = set_raw_memory(C, ChannelConfig, w)
    <3> DEFINE w == [config EXCEPT !.state = "CLOSED"]
    <3> HIDE DEF w
    <3>1. finish_closing(C, config) =
            CASE config.state = "CLOSED" -> C
              [] config.state = "OPEN" \/ height < config.maxtime -> {}
              [] OTHER -> set_raw_memory(C, ChannelConfig, w)
      BY DEF finish_closing, w
    <3> QED BY <3>1
  <2> QED BY <2>1, <2>2, SameNone
<1> QED BY <1>1, <1>2, <1>3, <1>4, SameEach

\* A claim takes the flag of the party.
LEMMA ClaimChannel ==
  ASSUME NEW C, NEW party
  PROVE  /\ \A K : Aside(K) /\ K # ClaimFlag(party) => Same(claim_closed(C, party), C, K)
         /\ Unseen(C, ClaimFlag(party)) => Takes(claim_closed(C, party), ClaimFlag(party))
<1> DEFINE Before(c, config) == finish_closing({c}, config)
           Took(c, config) == acquire_flag(Before(c, config), ClaimFlag(party))
           Paid(c, config) == transferFrom(Took(c, config), config.token, "channel", "channel", party,
                                           config.params[party])
<1>1. ASSUME NEW x \in claim_closed(C, party) PROVE \E c \in C : \E config : x \in Paid(c, config)
  <2> HIDE DEF Paid
  <2> QED BY <1>1 DEF claim_closed, get_raw_memory, Require, Paid, ClaimFlag
<1>2. ASSUME NEW K, Aside(K), NEW c, NEW config
      PROVE  Same(Before(c, config), {c}, K) /\ Same(Paid(c, config), Took(c, config), K)
  <2>1. Same(Before(c, config), {c}, K)
    BY <1>2, ClosingChannel
  <2> HIDE DEF Took
  <2> QED BY <1>2, <2>1, SameToken
<1>3. Aside(ClaimFlag(party))
  BY DEF Aside, ClaimFlag
<1> HIDE DEF Before, Paid
<1>4. ASSUME NEW K, Aside(K), K # ClaimFlag(party) PROVE Same(claim_closed(C, party), C, K)
  <2>1. ASSUME NEW x \in claim_closed(C, party) PROVE \E c \in C : \E B : x \in B /\ Same(B, {c}, K)
    <3>1. PICK c, config : c \in C /\ x \in Paid(c, config)
      BY <1>1, <2>1
    <3>2. Same(Took(c, config), Before(c, config), K)
      BY <1>4, AcquireSame
    <3> HIDE DEF Took
    <3>3. Same(Paid(c, config), {c}, K)
      BY <1>2, <1>4, <3>2, SameTrans
    <3> QED BY <3>1, <3>3
  <2> QED BY <2>1, SameEach
<1>5. ASSUME Unseen(C, ClaimFlag(party)), NEW x \in claim_closed(C, party)
      PROVE  ClaimFlag(party) \in DOMAIN x /\ Taken(x[ClaimFlag(party)])
  <2>1. PICK c, config : c \in C /\ x \in Paid(c, config)
    BY <1>1, <1>5
  <2>2. Unseen(Before(c, config), ClaimFlag(party))
    BY <1>2, <1>3, <1>5, <2>1, FreePart, SameFree
  <2>3. Takes(Took(c, config), ClaimFlag(party))
    BY <2>2, AcquireTakes DEF Unseen
  <2> HIDE DEF Took
  <2>4. Takes(Paid(c, config), ClaimFlag(party))
    BY <1>2, <1>3, <2>3, SameFree
  <2> QED BY <2>1, <2>4 DEF Takes
<1> QED BY <1>4, <1>5 DEF Takes

\* The same of all methods of the channel.
LEMMA ChannelSame ==
  ASSUME NEW C, NEW call
  PROVE  /\ \A K : Aside(K) /\ K # ChannelFlag /\ K # ClaimFlag(call.party) =>
              Same(RunChannel(C, call), C, K)
         /\ call.method = "initialize_channel" /\ Unseen(C, ChannelFlag) =>
              Takes(RunChannel(C, call), ChannelFlag)
         /\ call.method = "finish_closing" /\ Unseen(C, ClaimFlag(call.party)) =>
              Takes(RunChannel(C, call), ClaimFlag(call.party))
<1>1. ASSUME NEW K, Aside(K), K # ChannelFlag, K # ClaimFlag(call.party)
      PROVE  Same(RunChannel(C, call), C, K)
  BY <1>1, OpenChannel, ClosingChannel, ClaimChannel, SameNone, Zenon DEF RunChannel
<1>2. /\ call.method = "initialize_channel" =>
           RunChannel(C, call) = initialize_channel(C, call.token, call.amounts)
      /\ call.method = "finish_closing" => RunChannel(C, call) = claim_closed(C, call.party)
  BY DEF RunChannel
<1> QED BY <1>1, <1>2, OpenChannel, ClaimChannel

SwapFlag == <<"swap", "initialized">>
ClosedFlag == <<"swap", "closed">>

\* A swap is initialised with its flag.
LEMMA OpenSwap ==
  ASSUME NEW C, NEW config
  PROVE  /\ \A K : Aside(K) /\ K # SwapFlag => Same(initialize_swap(C, config), C, K)
         /\ Unseen(C, SwapFlag) => Takes(initialize_swap(C, config), SwapFlag)
<1> DEFINE set == set_raw_memory(C, SwapConfig, config)
<1>1. ASSUME NEW K, Aside(K) PROVE Same(set, C, K)
  <2>1. SwapConfig # K
    BY <1>1 DEF Aside, SwapConfig
  <2> QED BY <2>1, SameCalls
<1>2. initialize_swap(C, config) = acquire_flag(set, SwapFlag)
  BY DEF initialize_swap, SwapFlag
<1> HIDE DEF set
<1>3. ASSUME NEW K, Aside(K), K # SwapFlag PROVE Same(acquire_flag(set, SwapFlag), C, K)
  BY <1>1, <1>3, AcquireSame, SameTrans
<1>4. ASSUME Unseen(C, SwapFlag) PROVE Takes(acquire_flag(set, SwapFlag), SwapFlag)
  <2>1. Aside(SwapFlag)
    BY DEF Aside, SwapFlag
  <2>2. Unseen(set, SwapFlag)
    BY <1>1, <1>4, <2>1, SameFree
  <2> QED BY <2>2, AcquireTakes DEF Unseen
<1> QED BY <1>2, <1>3, <1>4

\* A swap is closed, by a claim or a reclaim, with its flag.
LEMMA CloseSwap ==
  ASSUME NEW C, NEW config, NEW to
  PROVE  /\ \A K : Aside(K) /\ K # ClosedFlag => Same(close_swap(C, config, to), C, K)
         /\ Unseen(C, ClosedFlag) => Takes(close_swap(C, config, to), ClosedFlag)
<1> DEFINE paid == transferFrom(C, config.token, "swap", "swap", to, config.amount)
<1>1. ASSUME NEW K, Aside(K) PROVE Same(paid, C, K)
  BY <1>1, SameToken
<1>2. close_swap(C, config, to) = acquire_flag(paid, ClosedFlag)
  BY DEF close_swap, ClosedFlag
<1> HIDE DEF paid
<1>3. ASSUME NEW K, Aside(K), K # ClosedFlag PROVE Same(acquire_flag(paid, ClosedFlag), C, K)
  BY <1>1, <1>3, AcquireSame, SameTrans
<1>4. ASSUME Unseen(C, ClosedFlag) PROVE Takes(acquire_flag(paid, ClosedFlag), ClosedFlag)
  <2>1. Aside(ClosedFlag)
    BY DEF Aside, ClosedFlag
  <2>2. Unseen(paid, ClosedFlag)
    BY <1>1, <1>4, <2>1, SameFree
  <2> QED BY <2>2, AcquireTakes DEF Unseen
<1> QED BY <1>2, <1>3, <1>4

\* The same of all methods of the swap.
LEMMA SwapSame ==
  ASSUME NEW C, NEW call
  PROVE  /\ \A K : Aside(K) /\ K # SwapFlag /\ K # ClosedFlag => Same(RunSwap(C, call), C, K)
         /\ call.method = "initialize_swap" /\ Unseen(C, SwapFlag) => Takes(RunSwap(C, call), SwapFlag)
         /\ call.method \in {"claim_preimage", "reclaim_expired"} /\ Unseen(C, ClosedFlag) =>
              Takes(RunSwap(C, call), ClosedFlag)
<1> DEFINE preimage == call.preimage
<1>1. ASSUME NEW x \in claim_swap(C, preimage) \cup reclaim_expired(C)
      PROVE  \E c \in C : \E config, to : x \in close_swap({c}, config, to)
  <2>1. CASE x \in claim_swap(C, preimage)
    <3> HIDE DEF preimage
    <3>1. \E c \in C : x \in close_swap({c}, Object(c, SwapConfig).value,
                                        Object(c, SwapConfig).value.recipient_addr)
      BY <2>1 DEF claim_swap, get_raw_memory, Require
    <3> QED BY <3>1
  <2>2. CASE x \in reclaim_expired(C)
    <3>1. \E c \in C : x \in close_swap({c}, Object(c, SwapConfig).value,
                                        Object(c, SwapConfig).value.source_addr)
      BY <2>2 DEF reclaim_expired, get_raw_memory, Require
    <3> QED BY <3>1
  <2> QED BY <1>1, <2>1, <2>2
<1> HIDE DEF preimage
<1> DEFINE X == claim_swap(C, preimage) \cup reclaim_expired(C)
<1>2. ASSUME NEW K, Aside(K), K # ClosedFlag PROVE Same(X, C, K)
  <2>1. ASSUME NEW x \in X PROVE \E c \in C : \E B : x \in B /\ Same(B, {c}, K)
    BY <1>1, <1>2, CloseSwap
  <2> HIDE DEF X
  <2> QED BY <2>1, SameEach
<1>3. ASSUME Unseen(C, ClosedFlag) PROVE Takes(X, ClosedFlag)
  <2>1. ASSUME NEW x \in X PROVE ClosedFlag \in DOMAIN x /\ Taken(x[ClosedFlag])
    <3>1. PICK c, config, to : c \in C /\ x \in close_swap({c}, config, to)
      BY <1>1
    <3>2. Takes(close_swap({c}, config, to), ClosedFlag)
      BY <1>3, <3>1, FreePart, CloseSwap
    <3> QED BY <3>1, <3>2 DEF Takes
  <2> QED BY <2>1 DEF Takes
<1>4. /\ call.method = "initialize_swap" => RunSwap(C, call) = initialize_swap(C, call.config)
      /\ call.method # "initialize_swap" => RunSwap(C, call) \subseteq X
  BY DEF RunSwap, preimage
<1>5. ASSUME NEW K, Aside(K), K # SwapFlag, K # ClosedFlag PROVE Same(RunSwap(C, call), C, K)
  <2>1. CASE call.method = "initialize_swap"
    BY <1>4, <1>5, <2>1, OpenSwap
  <2>2. CASE call.method # "initialize_swap"
    <3> HIDE DEF X
    <3> QED BY <1>2, <1>4, <1>5, <2>2, SameSub, SameTrans
  <2> QED BY <2>1, <2>2
<1>6. ASSUME call.method \in {"claim_preimage", "reclaim_expired"}, Unseen(C, ClosedFlag)
      PROVE  Takes(RunSwap(C, call), ClosedFlag)
  <2> HIDE DEF X
  <2> QED BY <1>3, <1>4, <1>6 DEF Takes
<1> QED BY <1>4, <1>5, <1>6, OpenSwap

-----------------------------------------------------------------------------
(* The market maker                                                        *)

\* Events are added to a market without its semaphore.
LEMMA AddingEvents ==
  ASSUME NEW C, NEW call, NEW K, Aside(K)
  PROVE  Same(add_swap(C, call), C, K) /\ Same(add_deposit(C, call), C, K)
           /\ Same(add_withdraw(C, call), C, K)
<1>0. ASSUME NEW n, NEW event PROVE get_hs_key_for_round(n) # K /\ EventKey(event) # K
  BY DEF Aside, get_hs_key_for_round, EventKey
<1>1. ASSUME NEW B, NEW config, NEW event PROVE Same(add_event(B, config, event), B, K)
  <2> DEFINE listed == hashset_insert(B, get_hs_key_for_round(height), event, event.fee_bid)
             set == set_raw_memory(listed, EventKey(event), event)
             paid == transferFrom(set, config.feeToken, "cfmm", event.sender, "cfmm", event.fee_bid)
  <2>1. add_event(B, config, event) = paid
    BY DEF add_event
  <2>2. Same(listed, B, K)
    BY <1>0, SameCalls
  <2> HIDE DEF listed
  <2>3. Same(set, listed, K)
    BY <1>0, SameCalls
  <2> HIDE DEF set
  <2>4. Same(paid, set, K)
    BY SameToken
  <2> HIDE DEF paid
  <2> QED BY <2>1, <2>2, <2>3, <2>4, SameTrans
<1> DEFINE cfg(c) == Object(c, Config).value
           swap == EventOf("swap", call)
           deposit == EventOf("deposit", call)
           withdraw == EventOf("withdraw", call)
           Sold(c) == IF call.obj.direction THEN cfg(c).tokenA ELSE cfg(c).tokenB
<1>2. ASSUME NEW x \in add_swap(C, call) PROVE \E c \in C : \E B : x \in B /\ Same(B, {c}, K)
  <2>1. \E c \in C : x \in transferFrom(add_event({c}, cfg(c), swap), Sold(c), "cfmm", call.sender,
                                      "cfmm", call.obj.sellAmount)
    BY <1>2 DEF add_swap, get_raw_memory, Require
  <2> HIDE DEF cfg, swap, Sold
  <2>2. PICK c \in C : x \in transferFrom(add_event({c}, cfg(c), swap), Sold(c), "cfmm", call.sender,
                                      "cfmm", call.obj.sellAmount)
    BY <2>1
  <2>3. Same(transferFrom(add_event({c}, cfg(c), swap), Sold(c), "cfmm", call.sender,
                          "cfmm", call.obj.sellAmount), {c}, K)
    BY <1>1, SameToken, SameTrans
  <2> QED BY <2>2, <2>3
<1>3. ASSUME NEW x \in add_deposit(C, call) PROVE \E c \in C : \E B : x \in B /\ Same(B, {c}, K)
  <2> DEFINE First(c) == transferFrom(add_event({c}, cfg(c), deposit), cfg(c).tokenA, "cfmm",
                                      call.sender, "cfmm", call.obj.depositA)
             Both(c) == transferFrom(First(c), cfg(c).tokenA, "cfmm", call.sender, "cfmm",
                                     call.obj.depositB)
  <2>1. \E c \in C : x \in Both(c)
    BY <1>3 DEF add_deposit, get_raw_memory, Require
  <2> HIDE DEF cfg, deposit
  <2>2. ASSUME NEW c PROVE Same(First(c), {c}, K)
    BY <1>1, SameToken, SameTrans
  <2> HIDE DEF First
  <2>3. ASSUME NEW c PROVE Same(Both(c), {c}, K)
    BY <2>2, SameToken, SameTrans
  <2> HIDE DEF Both
  <2> QED BY <2>1, <2>3
<1>4. ASSUME NEW x \in add_withdraw(C, call) PROVE \E c \in C : \E B : x \in B /\ Same(B, {c}, K)
  <2>1. \E c \in C : x \in transferFrom(add_event({c}, cfg(c), withdraw), cfg(c).lpshares, "cfmm",
                                      call.sender, "cfmm", call.obj.lp_shares)
    BY <1>4 DEF add_withdraw, get_raw_memory, Require
  <2> HIDE DEF cfg, withdraw
  <2>2. PICK c \in C : x \in transferFrom(add_event({c}, cfg(c), withdraw), cfg(c).lpshares, "cfmm",
                                      call.sender, "cfmm", call.obj.lp_shares)
    BY <2>1
  <2>3. Same(transferFrom(add_event({c}, cfg(c), withdraw), cfg(c).lpshares, "cfmm",
                          call.sender, "cfmm", call.obj.lp_shares), {c}, K)
    BY <1>1, SameToken, SameTrans
  <2> QED BY <2>2, <2>3
<1> QED BY <1>2, <1>3, <1>4, SameEach

\* What the market pays out changes views of tokens alone.
LEMMA PayingOut ==
  ASSUME NEW C, NEW token, NEW to, NEW amount, NEW K, Aside(K)
  PROVE  Same(pay_out(C, token, to, amount), C, K)
BY SameToken DEF pay_out

\* One event: the context that it leaves is the one it found, but for payments.
LEMMA OneEvent ==
  ASSUME NEW c, NEW config, NEW state, NEW event, NEW K, Aside(K)
  PROVE  /\ \A s \in exec_one_swap(c, config, state, event) : Same({s[1]}, {c}, K)
         /\ \A s \in exec_one_deposit(c, config, state, event) : Same({s[1]}, {c}, K)
         /\ \A s \in exec_one_withdraw(c, config, state, event) : Same({s[1]}, {c}, K)
<1>0. ASSUME NEW B, Same(B, {c}, K), NEW st, NEW s \in Leaving(B, st) PROVE Same({s[1]}, {c}, K)
  <2>1. PICK b \in B : s = <<b, st>>
    BY <1>0 DEF Leaving
  <2> QED BY <1>0, <2>1 DEF Same
<1>1. ASSUME NEW token, NEW n PROVE Same(pay_out({c}, token, event.sender, n), {c}, K)
  BY PayingOut
<1>2. ASSUME NEW t1, NEW n1, NEW t2, NEW n2
      PROVE  Same(pay_out(pay_out({c}, t1, event.sender, n1), t2, event.sender, n2), {c}, K)
  BY <1>1, PayingOut, SameTrans
<1>3. /\ Same(refund_swap({c}, config, event), {c}, K)
      /\ Same(refund_deposit({c}, config, event), {c}, K)
      /\ Same(refund_withdraw({c}, config, event), {c}, K)
  BY <1>1, <1>2, Zenon DEF refund_swap, refund_deposit, refund_withdraw
<1>4. ASSUME NEW s \in exec_one_swap(c, config, state, event)
      PROVE  \E B, st : Same(B, {c}, K) /\ s \in Leaving(B, st)
  <2> DEFINE sell == IF event.obj.direction THEN state.tokenA_amount ELSE state.tokenB_amount
             buy == IF event.obj.direction THEN state.tokenB_amount ELSE state.tokenA_amount
             buytoken == IF event.obj.direction THEN config.tokenB ELSE config.tokenA
             new_sell == sell + event.obj.sellAmount
             refunded == Leaving(refund_swap({c}, config, event), state)
             new_buy(prod) == prod \div new_sell + (IF prod % new_sell = 0 THEN 0 ELSE 1)
             payout(prod) == buy - new_buy(prod)
             A(prod) == IF event.obj.direction THEN new_sell ELSE new_buy(prod)
             B(prod) == IF event.obj.direction THEN new_buy(prod) ELSE new_sell
             after(prod) == [state EXCEPT !.tokenA_amount = A(prod), !.tokenB_amount = B(prod)]
             paid(prod) == Leaving(pay_out({c}, buytoken, event.sender, payout(prod)), after(prod))
             swapped(prod) == IF payout(prod) < event.obj.minReceive THEN refunded ELSE paid(prod)
  <2>0. exec_one_swap(c, config, state, event) =
          CASE overflow_int64(sell, event.obj.sellAmount) -> refunded
            [] new_sell = 0 -> {}
            [] OTHER -> UNION {swapped(prod) : prod \in Product(state.tokenA_amount,
                                                                state.tokenB_amount)}
    BY Zenon DEF exec_one_swap
  <2>a. \A prod : swapped(prod) = refunded \/ swapped(prod) = paid(prod)
    BY Zenon
  <2> HIDE DEF refunded, swapped, paid, sell, new_sell
  <2>b. s \in refunded \/ \E prod : s \in paid(prod)
    BY <1>4, <2>0, <2>a
  <2> HIDE DEF after, payout, buytoken
  <2>1. \/ s \in Leaving(refund_swap({c}, config, event), state)
        \/ \E token, n, st : s \in Leaving(pay_out({c}, token, event.sender, n), st)
    BY <2>b, Zenon DEF refunded, paid
  <2> QED BY <1>1, <1>3, <2>1
<1>5. ASSUME NEW s \in exec_one_deposit(c, config, state, event)
      PROVE  \E B, st : Same(B, {c}, K) /\ s \in Leaving(B, st)
  <2>1. \/ s \in Leaving(refund_deposit({c}, config, event), state)
        \/ \E n, st : s \in Leaving(mint({c}, config.lpshares, event.sender, n), st)
    BY <1>5 DEF exec_one_deposit
  <2>2. ASSUME NEW n PROVE Same(mint({c}, config.lpshares, event.sender, n), {c}, K)
    BY SameToken
  <2> QED BY <1>3, <2>1, <2>2
<1>6. ASSUME NEW s \in exec_one_withdraw(c, config, state, event)
      PROVE  \E B, st : Same(B, {c}, K) /\ s \in Leaving(B, st)
  <2>1. \/ s \in Leaving(refund_withdraw({c}, config, event), state)
        \/ \E t1, n1, t2, n2 :
             s \in Leaving(pay_out(pay_out({c}, t1, event.sender, n1), t2, event.sender, n2), state)
    <3> DEFINE shares == event.obj.lp_shares
               back == refund_withdraw({c}, config, event)
               A(old) == (state.tokenA_amount * shares) \div old
               B(old) == (state.tokenB_amount * shares) \div old
               paid(old) == pay_out(pay_out({c}, config.tokenA, event.sender, A(old)),
                                    config.tokenB, event.sender, B(old))
               withdrawn(old) == IF shares > old THEN back ELSE paid(old)
               Old(prod) == ub(babylonian_sqrt(prod))
    <3>1. exec_one_withdraw(c, config, state, event) =
            UNION {Leaving(withdrawn(Old(prod)), state)
                     : prod \in Product(state.tokenA_amount, state.tokenB_amount)}
      BY Zenon DEF exec_one_withdraw
    <3>2. \A old : withdrawn(old) = back \/ withdrawn(old) = paid(old)
      BY Zenon
    <3> HIDE DEF back, paid, withdrawn, Old
    <3>3. s \in Leaving(back, state) \/ \E old : s \in Leaving(paid(old), state)
      BY <1>6, <3>1, <3>2
    <3> HIDE DEF A, B
    <3> QED BY <3>3, Zenon DEF back, paid
  <2> QED BY <1>2, <1>3, <2>1
<1> QED BY <1>0, <1>4, <1>5, <1>6

\* So does the execution of an event.
LEMMA EachEvent ==
  ASSUME NEW c, NEW config, NEW state, NEW entry, NEW K, Aside(K),
         NEW s \in exec_event(c, config, state, entry)
  PROVE  Same({s[1]}, {c}, K)
<1> DEFINE event == entry.hash
           due == {d \in {c} : has_key(d, EventKey(event))}
<1>1. PICK d \in delete_last(due, EventKey(event)) :
        \/ s \in exec_one_swap(d, config, state, event)
        \/ s \in exec_one_deposit(d, config, state, event)
        \/ s \in exec_one_withdraw(d, config, state, event)
  <2> DEFINE Sw(d) == exec_one_swap(d, config, state, event)
             De(d) == exec_one_deposit(d, config, state, event)
             Wi(d) == exec_one_withdraw(d, config, state, event)
             Ev(d) == CASE event.type = "swap" -> Sw(d)
                        [] event.type = "deposit" -> De(d)
                        [] event.type = "withdraw" -> Wi(d)
                        [] OTHER -> {}
  <2>1. exec_event(c, config, state, entry) = UNION {Ev(d) : d \in delete_last(due, EventKey(event))}
    BY Zenon DEF exec_event, Require
  <2>2. \A d : Ev(d) = Sw(d) \/ Ev(d) = De(d) \/ Ev(d) = Wi(d) \/ Ev(d) = {}
    <3> HIDE DEF Sw, De, Wi, event
    <3> QED OBVIOUS
  <2> HIDE DEF Sw, De, Wi, Ev, due, event
  <2>3. \E d \in delete_last(due, EventKey(event)) : s \in Sw(d) \/ s \in De(d) \/ s \in Wi(d)
    BY <2>1, <2>2
  <2> QED BY <2>3, Zenon DEF Sw, De, Wi
<1>2. Same(due, {c}, K)
  BY SameSub
<1> HIDE DEF due
<1>3. Same(delete_last(due, EventKey(event)), due, K)
  <2>1. EventKey(event) # K
    BY DEF Aside, EventKey
  <2> QED BY <2>1, SameCalls
<1>4. Same({d}, {c}, K)
  <2>1. Same(delete_last(due, EventKey(event)), {c}, K)
    BY <1>2, <1>3, SameTrans
  <2> QED BY <1>1, <2>1 DEF Same
<1>5. Same({s[1]}, {d}, K)
  BY <1>1, OneEvent
<1> QED BY <1>4, <1>5, SameTrans

-----------------------------------------------------------------------------
(* The folds of the market maker                                           *)

\* The greatest of a finite set of integers is one of them.
LEMMA MaxIn ==
  ASSUME NEW S, IsFiniteSet(S), S \subseteq Int, S # {}
  PROVE  Max(S) \in S
<1> DEFINE Has(U) == U = {} \/ \E x \in U : \A y \in U : x >= y
           Good == {U \in SUBSET S : Has(U)}
<1>1. {} \in Good
  OBVIOUS
<1>2. ASSUME NEW U \in Good, NEW x \in S \ U PROVE U \cup {x} \in Good
  <2>1. CASE U = {}
    BY <2>1
  <2>2. CASE U # {}
    <3>1. PICK m \in U : \A y \in U : m >= y
      BY <1>2, <2>2
    <3>2. CASE m >= x
      BY <3>1, <3>2
    <3>3. CASE ~(m >= x)
      BY <3>1, <3>3
    <3> QED BY <3>2, <3>3
  <2> QED BY <2>1, <2>2
<1>3. S \in Good
  <2> HIDE DEF Good
  <2> QED BY <1>1, <1>2, FiniteInduction
<1>4. \E x \in S : \A y \in S : x >= y
  BY <1>3
<1> QED BY <1>4, Zenon DEF Max

\* What holds of the empty set, and of a set if it does without its greatest
\* element, holds of every finite set of integers.
LEMMA DownInduction ==
  ASSUME NEW S, IsFiniteSet(S), S \subseteq Int, NEW Good, {} \in Good,
         \A U \in SUBSET S : U # {} /\ U \ {Max(U)} \in Good => U \in Good
  PROVE  \A U \in SUBSET S : U \in Good
<1> DEFINE T == (SUBSET S) \ Good
<1>1. SUFFICES ASSUME T # {} PROVE FALSE
  OBVIOUS
<1>2. T \subseteq SUBSET S
  OBVIOUS
<1>3. \E U \in T : \A V \in SUBSET U : V # U => V \notin T
  <2> HIDE DEF T
  <2> QED BY <1>1, <1>2, SmallestSet, Zenon
<1>4. PICK U \in T : \A V \in SUBSET U : V # U => V \notin T
  BY <1>3
<1>5. U # {} /\ U \subseteq S /\ IsFiniteSet(U)
  BY <1>4, FS_Subset
<1>6. Max(U) \in U
  BY <1>5, MaxIn
<1>7. U \ {Max(U)} \in Good
  BY <1>4, <1>5, <1>6
<1> QED BY <1>4, <1>5, <1>7

\* exec_round goes through the events of a round, execute through rounds.
Step(p, y, x) ==
    IF p.of = "event" THEN UNION {exec_event(s[1], p.config, s[2], x) : s \in y}
    ELSE exec_round(y, p.config, p.sender, x)

\* The function by which FoldLeft is defined.
IsFold(it, p, S) ==
    it = [s \in SUBSET S |->
            IF s = {} THEN p.base ELSE Step(p, it[s \ {Max(s)}], p.seq[Max(s)])]

\* Two functions with the equation of one fold agree where both are defined.
LEMMA FoldAgree ==
  ASSUME NEW p, NEW A, NEW B, IsFiniteSet(A), A \subseteq Int, NEW i, NEW j, IsFold(i, p, A),
         IsFold(j, p, B), NEW s, s \subseteq A, s \subseteq B
  PROVE  i[s] = j[s]
<1> DEFINE S == A \cap B
           Good == {r \in SUBSET S : i[r] = j[r]}
<1>1. {} \in Good
  BY DEF IsFold
<1>2. ASSUME NEW U \in SUBSET S, U # {}, U \ {Max(U)} \in Good PROVE U \in Good
  <2>1. i[U] = Step(p, i[U \ {Max(U)}], p.seq[Max(U)])
    BY <1>2 DEF IsFold
  <2>2. j[U] = Step(p, j[U \ {Max(U)}], p.seq[Max(U)])
    BY <1>2 DEF IsFold
  <2> QED BY <1>2, <2>1, <2>2
<1>3. IsFiniteSet(S) /\ S \subseteq Int /\ s \in SUBSET S
  BY FS_Subset
<1>4. s \in Good
  <2> HIDE DEF Good, S
  <2> QED BY <1>1, <1>2, <1>3, DownInduction
<1> QED BY <1>4

\* A fold over a finite set of integers exists.
LEMMA FoldExists ==
  ASSUME NEW p, NEW S, IsFiniteSet(S), S \subseteq Int
  PROVE  \E it : IsFold(it, p, S)
<1> DEFINE Has(U) == \E it : IsFold(it, p, U)
           T == {U \in SUBSET S : ~Has(U)}
<1>1. SUFFICES ASSUME T # {} PROVE FALSE
  OBVIOUS
<1>a. T \subseteq SUBSET S
  OBVIOUS
<1>b. \E U \in T : \A V \in SUBSET U : V # U => V \notin T
  <2> HIDE DEF T
  <2> QED BY <1>1, <1>a, SmallestSet, Zenon
<1>2. PICK U \in T : \A V \in SUBSET U : V # U => V \notin T
  BY <1>b
<1>3. \A V \in SUBSET U : V # U => Has(V)
  BY <1>2
<1> DEFINE It(V) == CHOOSE it : IsFold(it, p, V)
           Rest(s) == s \ {Max(s)}
           g == [s \in SUBSET U |-> IF s = {} THEN p.base
                                    ELSE Step(p, It(Rest(s))[Rest(s)], p.seq[Max(s)])]
<1>4. ASSUME NEW V \in SUBSET U, V # U PROVE IsFold(It(V), p, V)
  BY <1>3, <1>4, Zenon
<1> HIDE DEF Has, It
<1>f. ASSUME NEW V \in SUBSET U PROVE IsFiniteSet(V) /\ V \subseteq Int
  BY <1>2, FS_Subset
<1>5. ASSUME NEW s \in SUBSET U, s # {} PROVE Rest(s) \in SUBSET U /\ Rest(s) # U /\ Rest(s) # s
  BY <1>5, <1>f, MaxIn
<1>6. ASSUME NEW V \in SUBSET U, V # U PROVE g[V] = It(V)[V]
  <2>1. IsFold(It(V), p, V)
    BY <1>4, <1>6
  <2>2. CASE V = {}
    BY <2>1, <2>2 DEF IsFold
  <2>3. CASE V # {}
    <3>1. It(V)[V] = Step(p, It(V)[Rest(V)], p.seq[Max(V)])
      BY <2>1, <2>3 DEF IsFold
    <3>2. g[V] = Step(p, It(Rest(V))[Rest(V)], p.seq[Max(V)])
      BY <2>3
    <3>3. IsFold(It(Rest(V)), p, Rest(V))
      BY <1>4, <1>5, <2>3
    <3>4. IsFiniteSet(V) /\ V \subseteq Int
      BY <1>f
    <3>6. It(V)[Rest(V)] = It(Rest(V))[Rest(V)]
      <4> DEFINE R == Rest(V)
                 i == It(V)
                 j == It(R)
      <4>1. R \subseteq V /\ IsFold(i, p, V) /\ IsFold(j, p, R)
        BY <2>1, <3>3
      <4> HIDE DEF Rest, T, g, R, i, j
      <4>2. i[R] = j[R]
        BY ONLY <3>4, <4>1, FoldAgree
      <4> QED BY <4>2 DEF i, j, R
    <3> QED BY <3>1, <3>2, <3>6
  <2> QED BY <2>2, <2>3
<1>7. ASSUME NEW s \in SUBSET U
      PROVE  g[s] = IF s = {} THEN p.base ELSE Step(p, g[s \ {Max(s)}], p.seq[Max(s)])
  <2>1. CASE s = {}
    BY <2>1
  <2>2. CASE s # {}
    <3>1. g[s] = Step(p, It(Rest(s))[Rest(s)], p.seq[Max(s)])
      BY <2>2
    <3>2. g[Rest(s)] = It(Rest(s))[Rest(s)]
      BY <1>5, <1>6, <2>2
    <3> QED BY <3>1, <3>2, <2>2
  <2> QED BY <2>1, <2>2
<1>8. IsFold(g, p, U)
  <2> DEFINE h == [s \in SUBSET U |-> IF s = {} THEN p.base
                                      ELSE Step(p, g[s \ {Max(s)}], p.seq[Max(s)])]
  <2>1. \A s \in SUBSET U : g[s] = h[s]
    BY <1>7
  <2>2. DOMAIN g = SUBSET U /\ DOMAIN h = SUBSET U
    OBVIOUS
  <2>3. g = h
    BY <2>1, <2>2
  <2> QED BY <2>3 DEF IsFold
<1> QED BY <1>8, <1>2 DEF Has

\* exec_events and exec_rounds are what such a function has for all indices.
LEMMA EventsFold ==
  ASSUME NEW c, NEW config, NEW state, NEW seq, IsFiniteSet(DOMAIN seq), DOMAIN seq \subseteq Int
  PROVE  \E it, p : /\ p = [of |-> "event", config |-> config, base |-> {<<c, state>>}, seq |-> seq]
                    /\ IsFold(it, p, DOMAIN seq)
                    /\ exec_events(c, config, state, seq) = it[DOMAIN seq]
<1> DEFINE p == [of |-> "event", config |-> config, base |-> {<<c, state>>}, seq |-> seq]
           it == CHOOSE g : IsFold(g, p, DOMAIN seq)
<1>1. IsFold(it, p, DOMAIN seq)
  <2> HIDE DEF p
  <2> QED BY FoldExists, Zenon
<1>2. exec_events(c, config, state, seq) = it[DOMAIN seq]
  <2> DEFINE Ev(y, x) == UNION {exec_event(s[1], config, s[2], x) : s \in y}
             ev == CHOOSE g : g = [s \in SUBSET DOMAIN seq |->
                     IF s = {} THEN {<<c, state>>} ELSE Ev(g[s \ {Max(s)}], seq[Max(s)])]
  <2>1. exec_events(c, config, state, seq) = ev[DOMAIN seq]
    BY Zenon DEF exec_events, FoldLeft, MapThenFoldSet
  <2>2. \A y, x : Step(p, y, x) = Ev(y, x)
    BY DEF Step
  <2>3. p.base = {<<c, state>>} /\ p.seq = seq
    OBVIOUS
  <2> HIDE DEF Ev, p
  <2>4. ASSUME NEW g
        PROVE  IsFold(g, p, DOMAIN seq) <=>
                 g = [s \in SUBSET DOMAIN seq |->
                       IF s = {} THEN {<<c, state>>} ELSE Ev(g[s \ {Max(s)}], seq[Max(s)])]
    BY <2>2, <2>3, SMTT(30) DEF IsFold
  <2>5. it = ev
    BY <2>4, Zenon
  <2> QED BY <2>1, <2>5
<1> QED BY <1>1, <1>2, Zenon

\* The loop over the rounds is such a fold.
LEMMA RoundsFold ==
  ASSUME NEW C, NEW config, NEW sender, NEW seq, IsFiniteSet(DOMAIN seq), DOMAIN seq \subseteq Int
  PROVE  \E it, p : /\ p = [of |-> "round", config |-> config, sender |-> sender, base |-> C, seq |-> seq]
                    /\ IsFold(it, p, DOMAIN seq)
                    /\ exec_rounds(C, config, sender, seq) = it[DOMAIN seq]
<1> DEFINE p == [of |-> "round", config |-> config, sender |-> sender, base |-> C, seq |-> seq]
           it == CHOOSE g : IsFold(g, p, DOMAIN seq)
<1>1. IsFold(it, p, DOMAIN seq)
  <2> HIDE DEF p
  <2> QED BY FoldExists, Zenon
<1>2. exec_rounds(C, config, sender, seq) = it[DOMAIN seq]
  <2> DEFINE Ev(y, x) == exec_round(y, config, sender, x)
             ev == CHOOSE g : g = [s \in SUBSET DOMAIN seq |->
                     IF s = {} THEN C ELSE Ev(g[s \ {Max(s)}], seq[Max(s)])]
  <2>1. exec_rounds(C, config, sender, seq) = ev[DOMAIN seq]
    BY Zenon DEF exec_rounds, FoldLeft, MapThenFoldSet
  <2>2. \A y, x : Step(p, y, x) = Ev(y, x)
    BY DEF Step
  <2>3. p.base = C /\ p.seq = seq
    OBVIOUS
  <2> HIDE DEF Ev, p
  <2>4. ASSUME NEW g
        PROVE  IsFold(g, p, DOMAIN seq) <=>
                 g = [s \in SUBSET DOMAIN seq |->
                       IF s = {} THEN C ELSE Ev(g[s \ {Max(s)}], seq[Max(s)])]
    BY <2>2, <2>3, SMTT(30) DEF IsFold
  <2>5. it = ev
    BY <2>4, Zenon
  <2> QED BY <2>1, <2>5
<1> QED BY <1>1, <1>2, Zenon

\* The events of a round keep the view of K.
LEMMA EventsSame ==
  ASSUME NEW c, NEW config, NEW state, NEW seq, IsFiniteSet(DOMAIN seq), DOMAIN seq \subseteq Int,
         NEW K, Aside(K), NEW s \in exec_events(c, config, state, seq)
  PROVE  Same({s[1]}, {c}, K)
<1> DEFINE D == DOMAIN seq
<1>1. PICK it, p : /\ p = [of |-> "event", config |-> config, base |-> {<<c, state>>}, seq |-> seq]
                   /\ IsFold(it, p, D)
                   /\ exec_events(c, config, state, seq) = it[D]
  BY EventsFold
<1> DEFINE Good == {U \in SUBSET D : \A t \in it[U] : Same({t[1]}, {c}, K)}
<1>2. {} \in Good
  <2>1. it[{}] = {<<c, state>>}
    BY <1>1 DEF IsFold
  <2>2. \A t \in it[{}] : t[1] = c
    BY <2>1
  <2> QED BY <2>2, SameNone
<1>3. ASSUME NEW U \in SUBSET D, U # {}, U \ {Max(U)} \in Good PROVE U \in Good
  <2> DEFINE y == it[U \ {Max(U)}]
             x == seq[Max(U)]
  <2>1. it[U] = Step(p, y, x)
    BY <1>1, <1>3 DEF IsFold
  <2>2. \A t \in y : Same({t[1]}, {c}, K)
    BY <1>3
  <2> HIDE DEF y, x
  <2>3. Step(p, y, x) = UNION {exec_event(t[1], config, t[2], x) : t \in y}
    BY <1>1 DEF Step
  <2>4. ASSUME NEW t \in it[U] PROVE Same({t[1]}, {c}, K)
    <3>1. PICK r \in y : t \in exec_event(r[1], config, r[2], x)
      BY <2>1, <2>3, <2>4
    <3>2. Same({t[1]}, {r[1]}, K)
      BY <3>1, EachEvent
    <3>3. Same({r[1]}, {c}, K)
      BY <2>2
    <3> QED BY <3>2, <3>3, SameTrans
  <2> QED BY <1>3, <2>4
<1>4. D \in Good
  <2> HIDE DEF Good
  <2> QED BY <1>2, <1>3, DownInduction
<1> QED BY <1>1, <1>4

\* The views of a tame context on a sound state are tame.
LEMMA ViewTame ==
  ASSUME StateSound, NEW c, Tame(c), NEW key
  PROVE  TameView(ViewOf(c, key))
<1>1. CASE key \in DOMAIN c
  BY <1>1 DEF Tame, ViewOf
<1>2. CASE key \notin DOMAIN c
  <2>1. Sound(At(key))
    BY DEF StateSound, At, Sound, NoObject
  <2> QED BY <1>2, <2>1, TameFresh DEF ViewOf
<1> QED BY <1>1, <1>2

\* A round has finitely many events.
LEMMA EntriesDomain ==
  ASSUME StateSound, NEW c, Tame(c), NEW key
  PROVE  IsFiniteSet(DOMAIN Entries(c, key)) /\ DOMAIN Entries(c, key) \subseteq Int
<1> DEFINE o == Object(c, key)
           H == Hashes(o)
<1>1. Sound(o)
  <2>1. Sound(ViewOf(c, key).current)
    BY ViewTame DEF TameView
  <2>2. Sound(NoObject)
    BY DEF Sound, NoObject
  <2> QED BY <2>1, <2>2 DEF Object
<1>2. IsFiniteSet(H)
  <2> HIDE DEF o
  <2>1. CASE o.type = "HASH_SET"
    BY <1>1, <2>1 DEF Hashes, Sound
  <2>2. CASE o.type # "HASH_SET"
    BY <2>2, FS_EmptySet DEF Hashes
  <2> QED BY <2>1, <2>2
<1>3. DOMAIN Entries(c, key) = 1 .. Cardinality(H)
  <2>1. Entries(c, key) = Sorted(H)
    BY DEF Entries
  <2> HIDE DEF H
  <2> QED BY <2>1 DEF Sorted
<1> HIDE DEF H
<1>4. Cardinality(H) \in Nat
  BY <1>2, FS_CardinalityType
<1> QED BY <1>3, <1>4, FS_Interval

\* A round: the semaphore is taken, and the other keys apart are as they were.
LEMMA RoundSame ==
  ASSUME StateSound, NEW C, \A c \in C : Tame(c), NEW config, NEW sender, NEW round
  PROVE  LET X == exec_round(C, config, sender, round)
         IN  /\ \A K : Aside(K) /\ K # Semaphore => Same(X, C, K)
             /\ \A x \in X : Tame(x)
             /\ (\A c \in C : Semaphore \notin DOMAIN c \/ Taken(c[Semaphore])) => Takes(X, Semaphore)
<1> DEFINE hs == get_hs_key_for_round(round)
           X == exec_round(C, config, sender, round)
           Begin(c) == Object(c, State).value
           Acq(c) == acquire_semaphore({c}, Semaphore, 1)
           Ent(b) == Entries(b, hs)
           Fee(b) == FoldSeq(LAMBDA e, sum : e.index + sum, 0, Ent(b))
           Next0(c) == [Begin(c) EXCEPT !.next_round = @ + 1]
           Done(b, st) == exec_events(b, config, st, Ent(b))
           Paid(b, s) == pay_out({s[1]}, config.feeToken, sender, Fee(b))
           Saved(b, s) == set_raw_memory(Paid(b, s), State, s[2])
           Gone(b, s) == delete_last(Saved(b, s), hs)
<1>1. ASSUME NEW x \in X
      PROVE  \E c \in C : \E b \in Acq(c) : \E s \in Done(b, Next0(c)) : x \in Gone(b, s)
  <2> DEFINE Rnd(b, st) == UNION {Gone(b, s) : s \in Done(b, [st EXCEPT !.next_round = @ + 1])}
             From(D, st) == UNION {Rnd(b, st) : b \in IF st.next_round = round
                                                     THEN acquire_semaphore(D, Semaphore, 1) ELSE {}}
  <2>1. X = UNION {From({c}, Begin(c)) : c \in {c \in C : has_key(c, State)}}
    BY Zenon DEF exec_round, get_raw_memory, Require
  <2> HIDE DEF From
  <2>2. PICK c \in C : x \in From({c}, Begin(c))
    BY <1>1, <2>1
  <2> HIDE DEF Rnd, Begin
  <2>3. PICK b \in Acq(c) : x \in Rnd(b, Begin(c))
    BY <2>2 DEF From
  <2> HIDE DEF Gone, Done, Acq
  <2>4. \E s \in Done(b, Next0(c)) : x \in Gone(b, s)
    BY <2>3 DEF Rnd
  <2> QED BY <2>3, <2>4
<1> HIDE DEF X, Next0
<1>2. Aside(NftSemaphore) /\ NftSemaphore # Semaphore /\ Aside(Semaphore)
  BY DEF Aside, NftSemaphore, Semaphore
<1>k. ASSUME NEW K, Aside(K) PROVE State # K /\ hs # K
  BY <1>k DEF Aside, State, get_hs_key_for_round
<1>3. ASSUME NEW c \in C, NEW b \in Acq(c), NEW K, K # Semaphore PROVE Same({b}, {c}, K)
  <2>1. Same(Acq(c), {c}, K)
    BY <1>3, AcquireSame
  <2> HIDE DEF Acq
  <2> QED BY <1>3, <2>1 DEF Same
<1>4. ASSUME NEW c \in C, NEW b \in Acq(c) PROVE Tame(b)
  <2>1. Same({b}, {c}, NftSemaphore)
    BY <1>2, <1>3, <1>4
  <2> QED BY <2>1 DEF Same
<1>5. ASSUME NEW c \in C, NEW b \in Acq(c), NEW st, NEW s \in Done(b, st), NEW x \in Gone(b, s),
             NEW K, Aside(K)
      PROVE  Same({x}, {b}, K)
  <2>1. IsFiniteSet(DOMAIN Ent(b)) /\ DOMAIN Ent(b) \subseteq Int
    BY <1>4, <1>5, EntriesDomain
  <2>2. Same({s[1]}, {b}, K)
    <3> HIDE DEF Ent
    <3> QED BY <1>5, <2>1, EventsSame
  <2>3. State # K /\ hs # K
    BY <1>5, <1>k, Zenon
  <2> HIDE DEF Fee
  <2>4. Same(Paid(b, s), {s[1]}, K)
    BY <1>5, PayingOut
  <2> HIDE DEF Paid
  <2>5. Same(Saved(b, s), Paid(b, s), K)
    BY <2>3, SameCalls
  <2> HIDE DEF Saved, hs
  <2>6. Same(Gone(b, s), Saved(b, s), K)
    BY <2>3, SameCalls
  <2> HIDE DEF Gone
  <2>7. Same(Gone(b, s), {b}, K)
    BY <2>2, <2>4, <2>5, <2>6, SameTrans
  <2> QED BY <1>5, <2>7 DEF Same
<1>6. ASSUME NEW x \in X PROVE \E c \in C : \E b \in Acq(c) : \A K : Aside(K) => Same({x}, {b}, K)
  <2> HIDE DEF Acq, Done, Gone
  <2> QED BY <1>1, <1>5, <1>6
<1> HIDE DEF Gone, Done
<1>7. ASSUME NEW K, Aside(K), K # Semaphore PROVE Same(X, C, K)
  <2>1. ASSUME NEW x \in X PROVE \E c \in C : Same({x}, {c}, K)
    <3> HIDE DEF Acq
    <3>0. PICK c \in C : \E b \in Acq(c) : Same({x}, {b}, K)
      BY <1>6, <1>7, <2>1
    <3>1. PICK b \in Acq(c) : Same({x}, {b}, K)
      BY <3>0
    <3> QED BY <1>3, <1>7, <3>1, SameTrans
  <2> QED BY <2>1, SameOne
<1>8. ASSUME NEW x \in X PROVE Tame(x)
  <2>1. Same(X, C, NftSemaphore)
    BY <1>2, <1>7
  <2> QED BY <1>8, <2>1 DEF Same
<1>9. ASSUME \A c \in C : Semaphore \notin DOMAIN c \/ Taken(c[Semaphore]) PROVE Takes(X, Semaphore)
  <2>1. ASSUME NEW x \in X PROVE Takes({x}, Semaphore)
    <3>0. PICK c \in C : \E b \in Acq(c) : Same({x}, {b}, Semaphore)
      <4> HIDE DEF Acq
      <4> QED BY <1>2, <1>6, <2>1
    <3>1. PICK b \in Acq(c) : Same({x}, {b}, Semaphore)
      BY <3>0
    <3>2. Takes(Acq(c), Semaphore)
      BY <1>9, AcquireTakes
    <3>3. Takes({b}, Semaphore)
      <4> HIDE DEF Acq
      <4> QED BY <3>1, <3>2 DEF Takes
    <3> QED BY <3>1, <3>3, SameFree
  <2> QED BY <2>1 DEF Takes
<1> QED BY <1>7, <1>8, <1>9 DEF X

\* Executing rounds takes the market's semaphore, if there is a round, and no
\* other.
LEMMA RoundsSame ==
  ASSUME StateSound, NEW C, \A c \in C : Tame(c), NEW config, NEW sender, NEW seq,
         IsFiniteSet(DOMAIN seq), DOMAIN seq \subseteq Int
  PROVE  LET X == exec_rounds(C, config, sender, seq)
         IN  /\ \A K : Aside(K) /\ K # Semaphore => Same(X, C, K)
             /\ Unseen(C, Semaphore) /\ DOMAIN seq # {} => Takes(X, Semaphore)
<1> DEFINE D == DOMAIN seq
           X == exec_rounds(C, config, sender, seq)
<1>1. PICK it, p : /\ p = [of |-> "round", config |-> config, sender |-> sender, base |-> C, seq |-> seq]
                   /\ IsFold(it, p, D)
                   /\ X = it[D]
  BY RoundsFold
<1> HIDE DEF X
<1> DEFINE Kept(U) == \A K : Aside(K) /\ K # Semaphore => Same(it[U], C, K)
           Right(U) == \A c \in it[U] : Tame(c)
           Once(U) == Unseen(C, Semaphore) =>
                        IF U = {} THEN Unseen(it[U], Semaphore) ELSE Takes(it[U], Semaphore)
           Good == {U \in SUBSET D : Kept(U) /\ Right(U) /\ Once(U)}
<1>2. {} \in Good
  <2>1. it[{}] = C
    BY <1>1 DEF IsFold
  <2> QED BY <2>1, SameNone
<1>3. ASSUME NEW U \in SUBSET D, U # {}, U \ {Max(U)} \in Good PROVE U \in Good
  <2> DEFINE V == U \ {Max(U)}
             y == it[V]
             x == seq[Max(U)]
  <2>1. it[U] = Step(p, y, x)
    BY <1>1, <1>3 DEF IsFold
  <2>2. Kept(V) /\ Right(V) /\ Once(V)
    BY <1>3
  <2> HIDE DEF V, x
  <2>3. it[U] = exec_round(y, config, sender, x)
    BY <1>1, <2>1 DEF Step
  <2>4. \A c \in y : Tame(c)
    BY <2>2
  <2>5. /\ \A K : Aside(K) /\ K # Semaphore => Same(it[U], y, K)
        /\ Right(U)
        /\ (\A c \in y : Semaphore \notin DOMAIN c \/ Taken(c[Semaphore])) => Takes(it[U], Semaphore)
    <3> HIDE DEF y
    <3> QED BY <2>3, <2>4, RoundSame
  <2>6. Kept(U)
    BY <2>2, <2>5, SameTrans
  <2>7. Once(U)
    BY <1>3, <2>2, <2>5 DEF Unseen, Takes
  <2> QED BY <1>3, <2>5, <2>6, <2>7
<1>4. D \in Good
  <2> HIDE DEF Good
  <2> QED BY <1>2, <1>3, DownInduction
<1> QED BY <1>1, <1>4 DEF X

\* So does execute, for rounds that are not out of order.
LEMMA ExecuteSame ==
  ASSUME StateSound, NEW C, \A c \in C : Tame(c), NEW sender, NEW first \in Int, NEW last \in Int
  PROVE  LET X == execute(C, sender, first, last)
         IN  /\ \A K : Aside(K) /\ K # Semaphore => Same(X, C, K)
             /\ Unseen(C, Semaphore) /\ first <= last => Takes(X, Semaphore)
<1> DEFINE rounds == [i \in 1 .. last - first + 1 |-> first + i - 1]
           X == execute(C, sender, first, last)
           cfg(c) == Object(c, Config).value
<1>1. ASSUME NEW x \in X PROVE \E c \in C : x \in exec_rounds({c}, cfg(c), sender, rounds)
  <2> HIDE DEF rounds
  <2> QED BY <1>1 DEF execute, get_raw_memory, Require, rounds
<1>2. IsFiniteSet(DOMAIN rounds) /\ DOMAIN rounds \subseteq Int /\ (first <= last => DOMAIN rounds # {})
  <2>1. DOMAIN rounds = 1 .. last - first + 1
    OBVIOUS
  <2> HIDE DEF rounds
  <2>2. IsFiniteSet(1 .. last - first + 1)
    BY FS_Interval
  <2> QED BY <2>1, <2>2
<1> HIDE DEF rounds, X, cfg
<1>3. ASSUME NEW c \in C
      PROVE  /\ \A K : Aside(K) /\ K # Semaphore => Same(exec_rounds({c}, cfg(c), sender, rounds), {c}, K)
             /\ Unseen({c}, Semaphore) /\ first <= last =>
                  Takes(exec_rounds({c}, cfg(c), sender, rounds), Semaphore)
  <2> DEFINE B == {c}
  <2>1. \A b \in B : Tame(b)
    BY <1>3
  <2> HIDE DEF B
  <2>2. /\ \A K : Aside(K) /\ K # Semaphore => Same(exec_rounds(B, cfg(c), sender, rounds), B, K)
        /\ Unseen(B, Semaphore) /\ first <= last => Takes(exec_rounds(B, cfg(c), sender, rounds), Semaphore)
    BY <1>2, <2>1, RoundsSame
  <2> QED BY <2>2 DEF B
<1>4. ASSUME NEW K, Aside(K), K # Semaphore PROVE Same(X, C, K)
  <2>1. ASSUME NEW x \in X PROVE \E c \in C : \E B : x \in B /\ Same(B, {c}, K)
    BY <1>1, <1>3, <1>4
  <2> QED BY <2>1, SameEach
<1>5. ASSUME Unseen(C, Semaphore), first <= last PROVE Takes(X, Semaphore)
  <2>1. ASSUME NEW x \in X PROVE Semaphore \in DOMAIN x /\ Taken(x[Semaphore])
    <3>1. PICK c \in C : x \in exec_rounds({c}, cfg(c), sender, rounds)
      BY <1>1
    <3>2. Takes(exec_rounds({c}, cfg(c), sender, rounds), Semaphore)
      BY <1>3, <1>5, FreePart
    <3> QED BY <3>1, <3>2 DEF Takes
  <2> QED BY <2>1 DEF Takes
<1> QED BY <1>4, <1>5 DEF X

\* So does initialize.
LEMMA InitializeMarket ==
  ASSUME NEW C, NEW config
  PROVE  LET X == initialize_cfmm(C, config)
         IN  /\ \A K : Aside(K) /\ K # Semaphore => Same(X, C, K)
             /\ Unseen(C, Semaphore) => Takes(X, Semaphore)
<1> DEFINE X == initialize_cfmm(C, config)
           Acq == acquire_semaphore(C, Semaphore, 1)
           Set == set_raw_memory(Acq, Config, config)
           All(state) == set_raw_memory(Set, State, state)
<1>1. ASSUME NEW x \in X PROVE \E state : x \in All(state)
  BY <1>1 DEF initialize_cfmm
<1>2. ASSUME NEW K, Aside(K), NEW state PROVE Same(All(state), Acq, K)
  <2>0. Config # K /\ State # K
    BY <1>2 DEF Aside, Config, State
  <2> HIDE DEF Acq
  <2>1. Same(Set, Acq, K)
    BY <2>0, SameCalls
  <2> HIDE DEF Set
  <2>2. Same(All(state), Set, K)
    BY <2>0, SameCalls
  <2> HIDE DEF All
  <2> QED BY <2>1, <2>2, SameTrans
<1>3. ASSUME NEW K, K # Semaphore PROVE Same(Acq, C, K)
  BY <1>3, AcquireSame
<1>4. Unseen(C, Semaphore) => Takes(Acq, Semaphore)
  BY AcquireTakes DEF Unseen
<1>5. Aside(Semaphore)
  BY DEF Aside, Semaphore
<1> HIDE DEF X, Acq, All
<1>6. ASSUME NEW K, Aside(K) PROVE Same(X, Acq, K)
  BY <1>1, <1>2, <1>6 DEF Same
<1>7. \A K : Aside(K) /\ K # Semaphore => Same(X, C, K)
  BY <1>3, <1>6, SameTrans
<1>8. Unseen(C, Semaphore) => Takes(X, Semaphore)
  BY <1>4, <1>5, <1>6, SameFree
<1> QED BY <1>7, <1>8 DEF X

\* The same of all methods of the market maker.
LEMMA CfmmSame ==
  ASSUME StateSound, NEW C, \A c \in C : Tame(c), NEW call,
         call.method = "execute" => call.start_round \in Int /\ call.end_round \in Int
  PROVE  /\ \A K : Aside(K) /\ K # Semaphore => Same(RunCfmm(C, call), C, K)
         /\ (\/ call.method = "initialize_cfmm"
             \/ call.method = "execute" /\ call.start_round <= call.end_round) /\ Unseen(C, Semaphore) =>
              Takes(RunCfmm(C, call), Semaphore)
<1> DEFINE E == execute(C, call.sender, call.start_round, call.end_round)
           I == initialize_cfmm(C, call.config)
<1>1. /\ call.method = "swap" => RunCfmm(C, call) = add_swap(C, call)
      /\ call.method = "deposit" => RunCfmm(C, call) = add_deposit(C, call)
      /\ call.method = "withdraw" => RunCfmm(C, call) = add_withdraw(C, call)
      /\ call.method = "execute" => RunCfmm(C, call) = E
      /\ call.method = "initialize_cfmm" => RunCfmm(C, call) = I
      /\ call.method \notin {"swap", "deposit", "withdraw", "execute", "initialize_cfmm"} =>
           RunCfmm(C, call) = {}
  BY DEF RunCfmm
<1>2. call.method = "execute" =>
        /\ \A K : Aside(K) /\ K # Semaphore => Same(E, C, K)
        /\ Unseen(C, Semaphore) /\ call.start_round <= call.end_round => Takes(E, Semaphore)
  BY ExecuteSame
<1>3. /\ \A K : Aside(K) /\ K # Semaphore => Same(I, C, K)
      /\ Unseen(C, Semaphore) => Takes(I, Semaphore)
  BY InitializeMarket
<1> HIDE DEF E, I
<1>4. ASSUME NEW K, Aside(K), K # Semaphore PROVE Same(RunCfmm(C, call), C, K)
  <2>1. CASE call.method \in {"swap", "deposit", "withdraw"}
    BY <1>1, <1>4, <2>1, AddingEvents
  <2>2. CASE call.method = "execute"
    BY <1>1, <1>2, <1>4, <2>2
  <2>3. CASE call.method = "initialize_cfmm"
    BY <1>1, <1>3, <1>4, <2>3
  <2>4. CASE call.method \notin {"swap", "deposit", "withdraw", "execute", "initialize_cfmm"}
    BY <1>1, <2>4, SameNone
  <2> QED BY <2>1, <2>2, <2>3, <2>4
<1> QED BY <1>1, <1>2, <1>3, <1>4

-----------------------------------------------------------------------------
(* The wallet                                                              *)

Replays == <<"wallet", "replay_cache">>
WalletInit == <<"wallet", "init">>

\* What the calls of a wallet do to its replay cache.
Recorded(v, hash, expiration_time) ==
    /\ ~(expiration_time < height)
    /\ \E u \in TryApply(Fresh(At(Replays)), Insert([index |-> expiration_time, hash |-> hash])) :
         v \in TryApply(u, Clear(height))
Grown(v) == \E n : v \in TryApply(Fresh(At(Replays)), IncreaseLimit(n))

\* init takes the wallet's semaphore and only grows its replay cache.
LEMMA InitWallet ==
  ASSUME NEW C, NEW token, NEW pk, NEW n
  PROVE  LET X == init_wallet(C, "wallet", token, pk, n)
         IN  /\ \A K : Aside(K) /\ K # WalletInit /\ K # Replays => Same(X, C, K)
             /\ Unseen(C, WalletInit) => Takes(X, WalletInit)
             /\ Unseen(C, Replays) => \A x \in X : Replays \in DOMAIN x /\ Grown(x[Replays])
<1> DEFINE X == init_wallet(C, "wallet", token, pk, n)
           Acq == acquire_semaphore(C, WalletInit, 1)
           Once == {c \in Acq : ~has_key(c, <<"wallet", "token">>)}
           Tok == set_raw_memory(Once, <<"wallet", "token">>, token)
           Pk == set_raw_memory(Tok, <<"wallet", "pk">>, pk)
           All == allowance_delta(Pk, token, "wallet", "wallet", MaxInt)
<1>1. X = hashset_increase(All, Replays, n)
  BY DEF init_wallet, Require, WalletInit, Replays
<1>2. ASSUME NEW K, Aside(K) PROVE Same(All, Acq, K)
  <2>0. <<"wallet", "token">> # K /\ <<"wallet", "pk">> # K
    BY <1>2 DEF Aside
  <2> HIDE DEF Acq
  <2>1. Same(Once, Acq, K)
    BY SameSub
  <2> HIDE DEF Once
  <2>2. Same(Tok, Once, K)
    BY <2>0, SameCalls
  <2> HIDE DEF Tok
  <2>3. Same(Pk, Tok, K)
    BY <2>0, SameCalls
  <2> HIDE DEF Pk
  <2>4. Same(All, Pk, K)
    BY <1>2, SameToken
  <2> HIDE DEF All
  <2> QED BY <2>1, <2>2, <2>3, <2>4, SameTrans
<1>3. ASSUME NEW K, K # WalletInit PROVE Same(Acq, C, K)
  BY <1>3, AcquireSame
<1>4. Unseen(C, WalletInit) => Takes(Acq, WalletInit)
  BY AcquireTakes DEF Unseen
<1>5. Aside(WalletInit) /\ Aside(Replays) /\ WalletInit # Replays
  BY DEF Aside, WalletInit, Replays
<1> HIDE DEF X, Acq, All
<1>6. ASSUME NEW K, K # Replays PROVE Same(X, All, K)
  BY <1>1, <1>6, SameCalls
<1>7. \A K : Aside(K) /\ K # WalletInit /\ K # Replays => Same(X, C, K)
  BY <1>2, <1>3, <1>6, SameTrans
<1>8. Unseen(C, WalletInit) => Takes(X, WalletInit)
  BY <1>2, <1>4, <1>5, <1>6, SameFree
<1>9. ASSUME Unseen(C, Replays), NEW x \in X PROVE Replays \in DOMAIN x /\ Grown(x[Replays])
  <2>1. Unseen(All, Replays)
    BY <1>2, <1>3, <1>5, <1>9, SameFree
  <2>2. PICK c, w : c \in All /\ w \in hashset_increase_limit(ViewOf(c, Replays), n) /\ x = Put(c, Replays, w)
    BY <1>1, <1>9 DEF hashset_increase, Syscall
  <2>3. ViewOf(c, Replays) = Fresh(At(Replays))
    BY <2>1, <2>2 DEF Unseen, ViewOf
  <2>4. w \in TryApply(Fresh(At(Replays)), IncreaseLimit(n))
    BY <2>2, <2>3 DEF hashset_increase_limit
  <2> QED BY <2>2, <2>4, PutView DEF Grown
<1> QED BY <1>7, <1>8, <1>9 DEF X

\* A payment records itself in the replay cache, and takes no semaphore.
LEMMA TransferWallet ==
  ASSUME NEW C, NEW call
  PROVE  LET X == transfer_wallet(C, "wallet", call)
         IN  /\ \A K : Aside(K) /\ K # Replays => Same(X, C, K)
             /\ Unseen(C, Replays) =>
                  \A x \in X : Replays \in DOMAIN x /\ Recorded(x[Replays], call, call.expiration_time)
<1> DEFINE X == transfer_wallet(C, "wallet", call)
           Ins == hashset_insert(C, Replays, call, call.expiration_time)
           Clr == hashset_clear(Ins, Replays, height)
           Rec == record_self_replay(C, "wallet", call, call.expiration_time)
           Auth == auth_single_pk_check_sig(Rec, "wallet", call.signer)
           Tok(c) == Object(c, <<"wallet", "token">>).value
           Paid(c) == transferFrom({c}, Tok(c), "wallet", "wallet", call.to, call.amount)
<1>1. Rec = IF call.expiration_time < height THEN {} ELSE Clr
  BY Zenon DEF record_self_replay, Replays
<1>2. Auth \subseteq Rec
  <2> HIDE DEF Rec
  <2> QED BY DEF auth_single_pk_check_sig, get_raw_memory, Require
<1>3. ASSUME NEW x \in X PROVE \E c \in Auth : x \in Paid(c)
  <2> HIDE DEF Auth, Rec
  <2>1. X = UNION {Paid(c) : c \in {c \in Auth : has_key(c, <<"wallet", "token">>)}}
    BY Zenon DEF transfer_wallet, get_raw_memory, Require, Auth, Rec
  <2> HIDE DEF X, Paid
  <2> QED BY <1>3, <2>1
<1> HIDE DEF X, Auth, Rec, Tok
<1>4. ASSUME NEW K, Aside(K) PROVE Same(X, Rec, K)
  <2>1. ASSUME NEW x \in X PROVE \E c \in Rec : \E B : x \in B /\ Same(B, {c}, K)
    <3>1. PICK c \in Auth : x \in Paid(c)
      BY <1>3, <2>1
    <3>2. Same(Paid(c), {c}, K)
      BY <1>4, SameToken
    <3> QED BY <1>2, <3>1, <3>2
  <2> QED BY <2>1, SameEach
<1>5. ASSUME NEW K, Aside(K), K # Replays PROVE Same(X, C, K)
  <2>1. Same(Ins, C, K)
    BY <1>5, SameCalls
  <2> HIDE DEF Ins
  <2>2. Same(Clr, Ins, K)
    BY <1>5, SameCalls
  <2> HIDE DEF Clr
  <2>3. Same(Rec, C, K)
    BY <1>1, <2>1, <2>2, SameTrans, SameNone
  <2> QED BY <1>4, <1>5, <2>3, SameTrans
<1>6. ASSUME Unseen(C, Replays), NEW x \in X
      PROVE  Replays \in DOMAIN x /\ Recorded(x[Replays], call, call.expiration_time)
  <2>1. PICK r \in Rec : Replays \in DOMAIN r => Replays \in DOMAIN x /\ x[Replays] = r[Replays]
    <3>1. Aside(Replays)
      BY DEF Aside, Replays
    <3> QED BY <1>4, <1>6, <3>1 DEF Same
  <2>2. ~(call.expiration_time < height) /\ r \in Clr
    BY <1>1, <2>1
  <2>3. PICK i, w : i \in Ins /\ w \in TryApply(ViewOf(i, Replays), Clear(height)) /\ r = Put(i, Replays, w)
    <3> HIDE DEF Ins
    <3> QED BY <2>2 DEF hashset_clear, Syscall
  <2> DEFINE h == [index |-> call.expiration_time, hash |-> call]
  <2>4. PICK c, u : c \in C /\ u \in TryApply(ViewOf(c, Replays), Insert(h)) /\ i = Put(c, Replays, u)
    BY <2>3 DEF hashset_insert, Syscall
  <2> HIDE DEF h
  <2>5. ViewOf(c, Replays) = Fresh(At(Replays)) /\ ViewOf(i, Replays) = u
    BY <1>6, <2>4, PutView DEF Unseen, ViewOf
  <2>6. Replays \in DOMAIN r /\ r[Replays] = w
    BY <2>3, PutView
  <2> QED BY <2>1, <2>2, <2>3, <2>4, <2>5, <2>6 DEF Recorded, h
<1> QED BY <1>5, <1>6 DEF X

\* The same of all methods of the wallet.
LEMMA WalletSame ==
  ASSUME NEW C, NEW call
  PROVE  /\ \A K : Aside(K) /\ K # WalletInit /\ K # Replays => Same(RunWallet(C, call), C, K)
         /\ call.method = "init" /\ Unseen(C, WalletInit) => Takes(RunWallet(C, call), WalletInit)
         /\ call.method = "init" /\ Unseen(C, Replays) =>
              \A x \in RunWallet(C, call) : Replays \in DOMAIN x /\ Grown(x[Replays])
         /\ call.method = "transfer" /\ Unseen(C, Replays) =>
              \A x \in RunWallet(C, call) :
                Replays \in DOMAIN x /\ Recorded(x[Replays], call, call.expiration_time)
         /\ call.method \notin {"init", "transfer"} => RunWallet(C, call) = {}
<1> DEFINE I == init_wallet(C, "wallet", call.token, call.pk, call.size_increase)
           T == transfer_wallet(C, "wallet", call)
<1>1. /\ call.method = "init" => RunWallet(C, call) = I
      /\ call.method = "transfer" => RunWallet(C, call) = T
      /\ call.method \notin {"init", "transfer"} => RunWallet(C, call) = {}
  BY DEF RunWallet
<1>2. /\ \A K : Aside(K) /\ K # WalletInit /\ K # Replays => Same(I, C, K)
      /\ Unseen(C, WalletInit) => Takes(I, WalletInit)
      /\ Unseen(C, Replays) => \A x \in I : Replays \in DOMAIN x /\ Grown(x[Replays])
  BY InitWallet
<1>3. /\ \A K : Aside(K) /\ K # Replays => Same(T, C, K)
      /\ Unseen(C, Replays) =>
           \A x \in T : Replays \in DOMAIN x /\ Recorded(x[Replays], call, call.expiration_time)
  BY TransferWallet
<1> HIDE DEF I, T
<1>4. \A K : Aside(K) /\ K # WalletInit /\ K # Replays => Same(RunWallet(C, call), C, K)
  BY <1>1, <1>2, <1>3, SameNone
<1> QED BY <1>1, <1>2, <1>3, <1>4

-----------------------------------------------------------------------------
(* Calls                                                                   *)

\* Which contract a call runs.
LEMMA RunIs ==
  ASSUME NEW call
  PROVE  /\ call.contract = "token" => Run(call) = RunToken({<<>>}, call)
         /\ call.contract = "nft" => Run(call) = RunNft({<<>>}, call)
         /\ call.contract = "wallet" => Run(call) = RunWallet({<<>>}, call)
         /\ call.contract = "zerox" => Run(call) = RunOffers({<<>>}, call)
         /\ call.contract = "auction" => Run(call) = RunAuction({<<>>}, call)
         /\ call.contract = "channel" => Run(call) = RunChannel({<<>>}, call)
         /\ call.contract = "swap" => Run(call) = RunSwap({<<>>}, call)
         /\ call.contract = "cfmm" => Run(call) = RunCfmm({<<>>}, call)
         /\ call.contract \notin {"token", "nft", "wallet", "zerox", "auction", "channel", "swap", "cfmm"}
              => Run(call) = {}
BY DEF Run

\* A contract aborts when it is called with a method that it does not have.
LEMMA HasMethod ==
  ASSUME NEW C, NEW call
  PROVE  /\ RunToken(C, call) # {} => call.method \in {"allowanceDelta", "transferFrom", "mint", "initialize", "set_metadata"}
         /\ RunNft(C, call) # {} => call.method \in {"approve", "approveAll", "transferFrom"}
         /\ RunWallet(C, call) # {} => call.method \in {"init", "transfer"}
         /\ RunOffers(C, call) # {} => call.method \in {"create_offer", "consume_offer", "cancel_offer"}
         /\ RunAuction(C, call) # {} => call.method \in {"create_auction", "submit_bid", "refund_bid", "winning_bid", "destroy_auction"}
         /\ RunChannel(C, call) # {} => call.method \in {"initialize_channel", "mutual_close", "init_close", "finish_closing", "challenge_close"}
         /\ RunSwap(C, call) # {} => call.method \in {"initialize_swap", "claim_preimage", "reclaim_expired"}
         /\ RunCfmm(C, call) # {} => call.method \in {"swap", "deposit", "withdraw", "execute", "initialize_cfmm"}
<1>1. RunToken(C, call) # {} => call.method \in {"allowanceDelta", "transferFrom", "mint", "initialize", "set_metadata"}
  BY DEF RunToken
<1>2. RunNft(C, call) # {} => call.method \in {"approve", "approveAll", "transferFrom"}
  BY DEF RunNft
<1>3. RunWallet(C, call) # {} => call.method \in {"init", "transfer"}
  BY DEF RunWallet
<1>4. RunOffers(C, call) # {} => call.method \in {"create_offer", "consume_offer", "cancel_offer"}
  BY DEF RunOffers
<1>5. RunAuction(C, call) # {} => call.method \in {"create_auction", "submit_bid", "refund_bid", "winning_bid", "destroy_auction"}
  BY DEF RunAuction
<1>6. RunChannel(C, call) # {} => call.method \in {"initialize_channel", "mutual_close", "init_close", "finish_closing", "challenge_close"}
  BY DEF RunChannel
<1>7. RunSwap(C, call) # {} => call.method \in {"initialize_swap", "claim_preimage", "reclaim_expired"}
  BY DEF RunSwap
<1>8. RunCfmm(C, call) # {} => call.method \in {"swap", "deposit", "withdraw", "execute", "initialize_cfmm"}
  BY DEF RunCfmm
<1> QED BY <1>1, <1>2, <1>3, <1>4, <1>5, <1>6, <1>7, <1>8

\* The semaphore or flag behind what a call is guarded for.
GuardKey(g) ==
    CASE g[1] = "nft" -> NftSemaphore
      [] g[1] = "claim" -> ClaimFlag(g[2])
      [] g[1] = "swap" -> ClosedFlag
      [] g[1] = "offer" -> OfferSemaphore(g[2])
      [] g[1] = "market" -> Semaphore
      [] g[1] = "init" -> WalletInit
      [] g[1] = "initialize_channel" -> ChannelFlag
      [] g[1] = "initialize_swap" -> SwapFlag

CallOK(call) == call.method = "execute" => call.start_round \in Int /\ call.end_round \in Int

Forward(call) == call.start_round <= call.end_round

\* Which calls take what, and the key that stands for it.
LEMMA GuardCases ==
  ASSUME NEW call, NEW g \in Guarded(call), Run(call) # {}
  PROVE  \/ call.contract = "nft" /\ call.method = "transferFrom" /\ GuardKey(g) = NftSemaphore
         \/ /\ call.contract = "auction" /\ GuardKey(g) = NftSemaphore
            /\ call.method \in {"create_auction", "winning_bid", "destroy_auction"}
         \/ /\ call.contract = "channel" /\ call.method = "finish_closing"
            /\ GuardKey(g) = ClaimFlag(call.party)
         \/ /\ call.contract = "swap" /\ call.method \in {"claim_preimage", "reclaim_expired"}
            /\ GuardKey(g) = ClosedFlag
         \/ /\ call.contract = "zerox" /\ call.method = "create_offer"
            /\ GuardKey(g) = OfferSemaphore(call.offer)
         \/ /\ call.contract = "cfmm" /\ GuardKey(g) = Semaphore
            /\ \/ call.method = "initialize_cfmm"
               \/ call.method = "execute" /\ Forward(call)
         \/ call.contract = "wallet" /\ call.method = "init" /\ GuardKey(g) = WalletInit
         \/ call.contract = "channel" /\ call.method = "initialize_channel" /\ GuardKey(g) = ChannelFlag
         \/ call.contract = "swap" /\ call.method = "initialize_swap" /\ GuardKey(g) = SwapFlag
<1>0. /\ GuardKey(<<"nft">>) = NftSemaphore /\ GuardKey(<<"swap">>) = ClosedFlag
      /\ GuardKey(<<"market">>) = Semaphore /\ GuardKey(<<"init">>) = WalletInit
      /\ GuardKey(<<"initialize_channel">>) = ChannelFlag /\ GuardKey(<<"initialize_swap">>) = SwapFlag
      /\ \A x : GuardKey(<<"claim", x>>) = ClaimFlag(x) /\ GuardKey(<<"offer", x>>) = OfferSemaphore(x)
  BY DEF GuardKey
<1>1. \/ g = <<"nft">> /\ \/ call.contract = "nft" /\ call.method = "transferFrom"
                          \/ call.method \in {"create_auction", "winning_bid", "destroy_auction"}
      \/ g = <<"claim", call.party>> /\ call.method = "finish_closing"
      \/ g = <<"swap">> /\ call.method \in {"claim_preimage", "reclaim_expired"}
      \/ g = <<"offer", call.offer>> /\ call.method = "create_offer"
      \/ g = <<"market">> /\ \/ call.method = "initialize_cfmm"
                             \/ call.method = "execute" /\ Forward(call)
      \/ g = <<"init">> /\ call.method = "init"
      \/ g = <<"initialize_channel">> /\ call.method = "initialize_channel"
      \/ g = <<"initialize_swap">> /\ call.method = "initialize_swap"
  <2> DEFINE P1 == \/ call.contract = "nft" /\ call.method = "transferFrom"
                   \/ call.method \in {"create_auction", "winning_bid", "destroy_auction"}
             P2 == call.method = "finish_closing"
             P3 == call.method \in {"claim_preimage", "reclaim_expired"}
             P4 == call.method = "create_offer"
             P5 == \/ call.method = "initialize_cfmm"
                   \/ call.method = "execute" /\ Forward(call)
             P6 == call.method \in {"init", "initialize_channel", "initialize_swap"}
             g2 == <<"claim", call.party>>
             g4 == <<"offer", call.offer>>
             g6 == <<call.method>>
  <2>1. Guarded(call) = CASE P1 -> {<<"nft">>} [] P2 -> {g2} [] P3 -> {<<"swap">>} [] P4 -> {g4}
                          [] P5 -> {<<"market">>} [] P6 -> {g6} [] OTHER -> {}
    BY Zenon DEF Guarded, Forward
  <2> DEFINE G == {<<"nft">>}
             S == {<<"swap">>}
             M == {<<"market">>}
  <2>2. ASSUME P6, g = g6
        PROVE  \/ g = <<"init">> /\ call.method = "init"
               \/ g = <<"initialize_channel">> /\ call.method = "initialize_channel"
               \/ g = <<"initialize_swap">> /\ call.method = "initialize_swap"
    <3> HIDE DEF P1, P2, P3, P4, P5, g2, g4
    <3> QED BY <2>2, Zenon
  <2>b. /\ P1 \in BOOLEAN /\ P2 \in BOOLEAN /\ P3 \in BOOLEAN /\ P4 \in BOOLEAN /\ P5 \in BOOLEAN
        /\ P6 \in BOOLEAN
    BY DEF Forward
  <2>x. /\ P1 => ~P2 /\ ~P3 /\ ~P4 /\ ~P5 /\ ~P6
        /\ P2 => ~P1 /\ ~P3 /\ ~P4 /\ ~P5 /\ ~P6
        /\ P3 => ~P1 /\ ~P2 /\ ~P4 /\ ~P5 /\ ~P6
        /\ P4 => ~P1 /\ ~P2 /\ ~P3 /\ ~P5 /\ ~P6
        /\ P5 => ~P1 /\ ~P2 /\ ~P3 /\ ~P4 /\ ~P6
        /\ P6 => ~P1 /\ ~P2 /\ ~P3 /\ ~P4 /\ ~P5
    OBVIOUS
  <2> HIDE DEF P1, P2, P3, P4, P5, P6, g2, g4, g6
  <2>3. \/ P1 /\ g = <<"nft">>
        \/ P2 /\ g = g2
        \/ P3 /\ g = <<"swap">>
        \/ P4 /\ g = g4
        \/ P5 /\ g = <<"market">>
        \/ P6 /\ g = g6
    <3>0. Guarded(call) = CASE P1 -> G [] P2 -> {g2} [] P3 -> S [] P4 -> {g4} [] P5 -> M [] P6 -> {g6}
                            [] OTHER -> {}
      BY <2>1, Zenon
    <3>2. /\ g \in G => g = <<"nft">>
          /\ g \in S => g = <<"swap">>
          /\ g \in M => g = <<"market">>
      OBVIOUS
    <3> HIDE DEF G, S, M
    <3>3. \/ P1 /\ g \in G
          \/ P2 /\ g = g2
          \/ P3 /\ g \in S
          \/ P4 /\ g = g4
          \/ P5 /\ g \in M
          \/ P6 /\ g = g6
      <4>1. P1 /\ ~P2 /\ ~P3 /\ ~P4 /\ ~P5 /\ ~P6 => Guarded(call) = G
        BY <3>0
      <4>2. ~P1 /\ P2 /\ ~P3 /\ ~P4 /\ ~P5 /\ ~P6 => Guarded(call) = {g2}
        BY <3>0
      <4>3. ~P1 /\ ~P2 /\ P3 /\ ~P4 /\ ~P5 /\ ~P6 => Guarded(call) = S
        BY <3>0
      <4>4. ~P1 /\ ~P2 /\ ~P3 /\ P4 /\ ~P5 /\ ~P6 => Guarded(call) = {g4}
        BY <3>0
      <4>5. ~P1 /\ ~P2 /\ ~P3 /\ ~P4 /\ P5 /\ ~P6 => Guarded(call) = M
        BY <3>0
      <4>6. ~P1 /\ ~P2 /\ ~P3 /\ ~P4 /\ ~P5 /\ P6 => Guarded(call) = {g6}
        BY <3>0
      <4>7. ~P1 /\ ~P2 /\ ~P3 /\ ~P4 /\ ~P5 /\ ~P6 => Guarded(call) = {}
        BY <3>0
      <4> HIDE DEF P1, P2, P3, P4, P5, P6
      <4>c1. CASE P1
        BY <2>x, <4>1, <4>c1
      <4>c2. CASE P2
        BY <2>x, <4>2, <4>c2
      <4>c3. CASE P3
        BY <2>x, <4>3, <4>c3
      <4>c4. CASE P4
        BY <2>x, <4>4, <4>c4
      <4>c5. CASE P5
        BY <2>x, <4>5, <4>c5
      <4>c6. CASE P6
        BY <2>x, <4>6, <4>c6
      <4>c7. CASE ~P1 /\ ~P2 /\ ~P3 /\ ~P4 /\ ~P5 /\ ~P6
        BY <4>7, <4>c7, Zenon
      <4> QED BY <4>c1, <4>c2, <4>c3, <4>c4, <4>c5, <4>c6, <4>c7, Zenon
    <3> QED BY <3>2, <3>3, Zenon
  <2>4. CASE P1 /\ g = <<"nft">>
    BY <2>4, Zenon DEF P1
  <2>5. CASE P2 /\ g = g2
    BY <2>5, Zenon DEF P2, g2
  <2>6. CASE P3 /\ g = <<"swap">>
    BY <2>6, Zenon DEF P3
  <2>7. CASE P4 /\ g = g4
    BY <2>7, Zenon DEF P4, g4
  <2>8. CASE P5 /\ g = <<"market">>
    <3>1. \/ call.method = "initialize_cfmm"
          \/ call.method = "execute" /\ Forward(call)
      BY <2>8 DEF P5
    <3> QED BY <2>8, <3>1
  <2>9. CASE P6 /\ g = g6
    BY <2>2, <2>9, Zenon
  <2> QED BY <2>3, <2>4, <2>5, <2>6, <2>7, <2>8, <2>9, Zenon
<1>2. /\ call.contract = "token" => call.method \in {"allowanceDelta", "transferFrom", "mint", "initialize", "set_metadata"}
      /\ call.contract = "nft" => call.method \in {"approve", "approveAll", "transferFrom"}
      /\ call.contract = "wallet" => call.method \in {"init", "transfer"}
      /\ call.contract = "zerox" => call.method \in {"create_offer", "consume_offer", "cancel_offer"}
      /\ call.contract = "auction" => call.method \in {"create_auction", "submit_bid", "refund_bid", "winning_bid", "destroy_auction"}
      /\ call.contract = "channel" => call.method \in {"initialize_channel", "mutual_close", "init_close", "finish_closing", "challenge_close"}
      /\ call.contract = "swap" => call.method \in {"initialize_swap", "claim_preimage", "reclaim_expired"}
      /\ call.contract = "cfmm" => call.method \in {"swap", "deposit", "withdraw", "execute", "initialize_cfmm"}
      /\ call.contract \in {"token", "nft", "wallet", "zerox", "auction", "channel", "swap", "cfmm"}
  BY RunIs, HasMethod, Zenon
<1>3. ASSUME g = <<"nft">> /\ \/ call.contract = "nft" /\ call.method = "transferFrom"
                              \/ call.method \in {"create_auction", "winning_bid", "destroy_auction"}
      PROVE  /\ GuardKey(g) = NftSemaphore
             /\ \/ call.contract = "nft" /\ call.method = "transferFrom"
                \/ /\ call.contract = "auction"
                   /\ call.method \in {"create_auction", "winning_bid", "destroy_auction"}
  BY <1>0, <1>2, <1>3
<1>4. ASSUME g = <<"claim", call.party>> /\ call.method = "finish_closing"
      PROVE  GuardKey(g) = ClaimFlag(call.party) /\ call.contract = "channel"
  BY <1>0, <1>2, <1>4
<1>5. ASSUME g = <<"swap">> /\ call.method \in {"claim_preimage", "reclaim_expired"}
      PROVE  GuardKey(g) = ClosedFlag /\ call.contract = "swap"
  BY <1>0, <1>2, <1>5
<1>6. ASSUME g = <<"offer", call.offer>> /\ call.method = "create_offer"
      PROVE  GuardKey(g) = OfferSemaphore(call.offer) /\ call.contract = "zerox"
  BY <1>0, <1>2, <1>6
<1>7. ASSUME g = <<"market">> /\ \/ call.method = "initialize_cfmm"
                                 \/ call.method = "execute" /\ Forward(call)
      PROVE  GuardKey(g) = Semaphore /\ call.contract = "cfmm"
  BY <1>0, <1>2, <1>7
<1>8. ASSUME g = <<"init">> /\ call.method = "init"
      PROVE  GuardKey(g) = WalletInit /\ call.contract = "wallet"
  BY <1>0, <1>2, <1>8
<1>9. ASSUME g = <<"initialize_channel">> /\ call.method = "initialize_channel"
      PROVE  GuardKey(g) = ChannelFlag /\ call.contract = "channel"
  BY <1>0, <1>2, <1>9
<1>10. ASSUME g = <<"initialize_swap">> /\ call.method = "initialize_swap"
      PROVE  GuardKey(g) = SwapFlag /\ call.contract = "swap"
  BY <1>0, <1>2, <1>10
<1> QED BY <1>1, <1>3, <1>4, <1>5, <1>6, <1>7, <1>8, <1>9, <1>10, Zenon

\* Does every call find its semaphore free: a context begins without views.
LEMMA RunFacts ==
  ASSUME StateSound, NEW call, CallOK(call), NEW x \in Run(call)
  PROVE  /\ Tame(x)
         /\ \A g \in Guarded(call) : GuardKey(g) \in DOMAIN x /\ Taken(x[GuardKey(g)])
         /\ Replays \in DOMAIN x => \/ call.method = "init" /\ Grown(x[Replays])
                                    \/ /\ call.method = "transfer"
                                       /\ Recorded(x[Replays], call, call.expiration_time)
         /\ call.method = "transfer" =>
              Replays \in DOMAIN x /\ Recorded(x[Replays], call, call.expiration_time)
<1> DEFINE C == {<<>>}
<1>0. /\ \A K : Unseen(C, K)
      /\ \A c \in C : Tame(c)
  BY DEF Unseen, Tame
<1> DEFINE None == <<"none", "closed">>
<1>1. /\ Aside(None) /\ None # NftSemaphore /\ None # <<"auction", "semaphore">> /\ None # ChannelFlag
      /\ \A p : None # ClaimFlag(p) /\ None # OfferSemaphore(p)
      /\ None # SwapFlag /\ None # ClosedFlag /\ None # Semaphore /\ None # WalletInit /\ None # Replays
  BY DEF Aside, NftSemaphore, ChannelFlag, ClaimFlag, OfferSemaphore, SwapFlag, ClosedFlag, Semaphore,
         WalletInit, Replays
<1>2. /\ Aside(Replays) /\ Replays # NftSemaphore /\ Replays # <<"auction", "semaphore">> /\ Replays # ChannelFlag
      /\ \A p : Replays # ClaimFlag(p) /\ Replays # OfferSemaphore(p)
      /\ Replays # SwapFlag /\ Replays # ClosedFlag /\ Replays # Semaphore
  BY DEF Aside, NftSemaphore, ChannelFlag, ClaimFlag, OfferSemaphore, SwapFlag, ClosedFlag, Semaphore,
         Replays
<1>e. Run(call) # {}
  OBVIOUS
<1>c. call.contract \in {"token", "nft", "wallet", "zerox", "auction", "channel", "swap", "cfmm"}
  BY <1>e, RunIs
<1> HIDE DEF C
<1>r. /\ call.contract = "token" => Run(call) = RunToken(C, call)
      /\ call.contract = "nft" => Run(call) = RunNft(C, call)
      /\ call.contract = "wallet" => Run(call) = RunWallet(C, call)
      /\ call.contract = "zerox" => Run(call) = RunOffers(C, call)
      /\ call.contract = "auction" => Run(call) = RunAuction(C, call)
      /\ call.contract = "channel" => Run(call) = RunChannel(C, call)
      /\ call.contract = "swap" => Run(call) = RunSwap(C, call)
      /\ call.contract = "cfmm" => Run(call) = RunCfmm(C, call)
  BY RunIs, Zenon DEF C
<1>3. /\ call.contract # "wallet" => \A K : (K = Replays \/ K = None) => Same(Run(call), C, K)
      /\ call.contract = "wallet" => Same(Run(call), C, None)
  <2>0. ASSUME NEW K, K = Replays \/ K = None
        PROVE  /\ Aside(K) /\ K # NftSemaphore /\ K # <<"auction", "semaphore">> /\ K # ChannelFlag
               /\ \A p : K # ClaimFlag(p) /\ K # OfferSemaphore(p)
               /\ K # SwapFlag /\ K # ClosedFlag /\ K # Semaphore
    BY <1>1, <1>2, <2>0
  <2> HIDE DEF None
  <2>1. ASSUME NEW K, K = Replays \/ K = None, call.contract # "wallet" PROVE Same(Run(call), C, K)
    <3>0. /\ Aside(K) /\ K # NftSemaphore /\ K # <<"auction", "semaphore">> /\ K # ChannelFlag
          /\ K # ClaimFlag(call.party) /\ K # OfferSemaphore(call.offer)
          /\ K # SwapFlag /\ K # ClosedFlag /\ K # Semaphore
      BY <2>0, <2>1
    <3>1. CASE call.contract = "token"
      BY <1>r, <3>0, <3>1, TokenSame
    <3>2. CASE call.contract = "nft"
      BY <1>r, <3>0, <3>2, NftSame
    <3>3. CASE call.contract = "zerox"
      BY <1>r, <3>0, <3>3, OffersSame
    <3>4. CASE call.contract = "auction"
      BY <1>r, <3>0, <3>4, AuctionSame
    <3>5. CASE call.contract = "channel"
      BY <1>r, <3>0, <3>5, ChannelSame
    <3>6. CASE call.contract = "swap"
      BY <1>r, <3>0, <3>6, SwapSame
    <3>7. CASE call.contract = "cfmm"
      <4>1. \A L : Aside(L) /\ L # Semaphore => Same(RunCfmm(C, call), C, L)
        BY <1>0, CfmmSame DEF CallOK
      <4> QED BY <1>r, <3>0, <3>7, <4>1
    <3> QED BY <1>c, <2>1, <3>1, <3>2, <3>3, <3>4, <3>5, <3>6, <3>7
  <2>2. ASSUME call.contract = "wallet" PROVE Same(Run(call), C, None)
    BY <1>1, <1>r, <2>2, WalletSame
  <2> QED BY <2>1, <2>2
<1>4. Tame(x)
  <2>1. Same(Run(call), C, None)
    BY <1>3
  <2> QED BY <1>0, <2>1 DEF Same
<1>5. call.contract # "wallet" => Replays \notin DOMAIN x
  <2>1. ASSUME call.contract # "wallet" PROVE Unseen(Run(call), Replays)
    BY <1>0, <1>3, <2>1, SameFree
  <2> QED BY <2>1 DEF Unseen
<1>6. call.method = "transfer" => call.contract = "wallet"
  <2>1. ASSUME call.method = "transfer", call.contract # "wallet" PROVE FALSE
    BY <1>c, <1>e, <1>r, <2>1, HasMethod
  <2> QED BY <2>1
<1>7. ASSUME call.contract = "wallet"
      PROVE  /\ Replays \in DOMAIN x
             /\ \/ call.method = "init" /\ Grown(x[Replays])
                \/ call.method = "transfer" /\ Recorded(x[Replays], call, call.expiration_time)
  <2>1. x \in RunWallet(C, call)
    BY <1>7, <1>r
  <2>2. Unseen(C, Replays)
    BY <1>0
  <2>3. call.method \in {"init", "transfer"}
    BY <2>1, WalletSame
  <2> QED BY <2>1, <2>2, <2>3, WalletSame
<1>8. ASSUME NEW g \in Guarded(call) PROVE GuardKey(g) \in DOMAIN x /\ Taken(x[GuardKey(g)])
  <2>1. Takes(Run(call), GuardKey(g))
    <3>1. CASE call.contract = "nft" /\ call.method = "transferFrom" /\ GuardKey(g) = NftSemaphore
      BY <1>0, <1>r, <3>1, NftSame
    <3>2. CASE /\ call.contract = "auction" /\ GuardKey(g) = NftSemaphore
               /\ call.method \in {"create_auction", "winning_bid", "destroy_auction"}
      BY <1>0, <1>r, <3>2, AuctionSame
    <3>3. CASE /\ call.contract = "channel" /\ call.method = "finish_closing"
               /\ GuardKey(g) = ClaimFlag(call.party)
      BY <1>0, <1>r, <3>3, ChannelSame
    <3>4. CASE /\ call.contract = "swap" /\ call.method \in {"claim_preimage", "reclaim_expired"}
               /\ GuardKey(g) = ClosedFlag
      BY <1>0, <1>r, <3>4, SwapSame
    <3>5. CASE /\ call.contract = "zerox" /\ call.method = "create_offer"
               /\ GuardKey(g) = OfferSemaphore(call.offer)
      BY <1>0, <1>r, <3>5, OffersSame
    <3>6. CASE /\ call.contract = "cfmm" /\ GuardKey(g) = Semaphore
               /\ \/ call.method = "initialize_cfmm"
                  \/ call.method = "execute" /\ Forward(call)
      <4>1. Takes(RunCfmm(C, call), Semaphore)
        BY <1>0, <3>6, CfmmSame DEF CallOK, Forward
      <4> QED BY <1>r, <3>6, <4>1
    <3>7. CASE call.contract = "wallet" /\ call.method = "init" /\ GuardKey(g) = WalletInit
      BY <1>0, <1>r, <3>7, WalletSame
    <3>8. CASE call.contract = "channel" /\ call.method = "initialize_channel" /\ GuardKey(g) = ChannelFlag
      BY <1>0, <1>r, <3>8, ChannelSame
    <3>9. CASE call.contract = "swap" /\ call.method = "initialize_swap" /\ GuardKey(g) = SwapFlag
      BY <1>0, <1>r, <3>9, SwapSame
    <3> QED BY <1>e, <1>8, <3>1, <3>2, <3>3, <3>4, <3>5, <3>6, <3>7, <3>8, <3>9, GuardCases
  <2> QED BY <2>1 DEF Takes
<1> QED BY <1>4, <1>5, <1>6, <1>7, <1>8


-----------------------------------------------------------------------------
(* The deltas of a block                                                   *)

\* The function by which FlattenSeq is defined.
IsFlat(f, s) ==
    f = [i \in 1 .. Len(s) |-> IF i = 1 THEN s[i] ELSE f[i - 1] \o s[i]]

\* The deltas of a block are joined one transaction after the other.
LEMMA FlattenIs ==
  ASSUME NEW s, Len(s) # 0, NEW g, IsFlat(g, s)
  PROVE  \E f : IsFlat(f, s) /\ FlattenSeq(s) = f[Len(s)]
<1> DEFINE f == CHOOSE h : IsFlat(h, s)
<1>1. IsFlat(f, s)
  BY Zenon
<1>2. FlattenSeq(s) = f[Len(s)]
  BY Zenon DEF FlattenSeq, IsFlat
<1> QED BY <1>1, <1>2, Zenon

\* One sequence is left as it is, two are joined.
LEMMA FlattenFew ==
  ASSUME NEW s
  PROVE  /\ Len(s) = 0 => FlattenSeq(s) = s
         /\ Len(s) = 1 => FlattenSeq(s) = s[1]
         /\ Len(s) = 2 => FlattenSeq(s) = s[1] \o s[2]
<1>1. Len(s) = 0 => FlattenSeq(s) = s
  BY DEF FlattenSeq
<1>2. ASSUME Len(s) = 1 PROVE FlattenSeq(s) = s[1]
  <2> DEFINE g == [i \in 1 .. 1 |-> s[1]]
  <2>1. IsFlat(g, s)
    BY <1>2 DEF IsFlat
  <2> HIDE DEF g
  <2>a. Len(s) # 0
    BY <1>2
  <2>b. \E f : IsFlat(f, s) /\ FlattenSeq(s) = f[Len(s)]
    BY <2>a, <2>1, FlattenIs, Zenon
  <2>2. PICK f : IsFlat(f, s) /\ FlattenSeq(s) = f[1]
    BY <1>2, <2>b, Zenon
  <2>3. f[1] = s[1]
    <3>1. f = [i \in 1 .. 1 |-> IF i = 1 THEN s[i] ELSE f[i - 1] \o s[i]]
      BY <1>2, <2>2 DEF IsFlat
    <3> QED BY <3>1
  <2> QED BY <2>2, <2>3
<1>3. ASSUME Len(s) = 2 PROVE FlattenSeq(s) = s[1] \o s[2]
  <2> DEFINE c == s[1] \o s[2]
             g == [i \in 1 .. 2 |-> IF i = 1 THEN s[1] ELSE c]
  <2>1. IsFlat(g, s)
    <3>1. \A i \in 1 .. 2 : g[i] = IF i = 1 THEN s[i] ELSE g[i - 1] \o s[i]
      <4> TAKE i \in 1 .. 2
      <4>1. CASE i = 1
        BY <4>1
      <4>2. CASE i = 2
        <5>1. g[1] = s[1] /\ g[2] = c
          <6> HIDE DEF c
          <6>1. 1 \in 1 .. 2 /\ 2 \in 1 .. 2 /\ 2 # 1
            OBVIOUS
          <6> QED BY <6>1, Zenon
        <5>2. i # 1 /\ i - 1 = 1
          BY <4>2
        <5> HIDE DEF g
        <5> QED BY <4>2, <5>1, <5>2, Zenon DEF c
      <4> QED BY <4>1, <4>2
    <3>2. g = [i \in 1 .. 2 |-> g[i]]
      OBVIOUS
    <3> HIDE DEF g
    <3> QED BY <1>3, <3>1, <3>2 DEF IsFlat
  <2> HIDE DEF g
  <2>a. Len(s) # 0
    BY <1>3
  <2>b. \E f : IsFlat(f, s) /\ FlattenSeq(s) = f[Len(s)]
    BY <2>a, <2>1, FlattenIs, Zenon
  <2>2. PICK f : IsFlat(f, s) /\ FlattenSeq(s) = f[2]
    BY <1>3, <2>b, Zenon
  <2>3. f[2] = f[1] \o s[2] /\ f[1] = s[1]
    <3>1. f = [i \in 1 .. 2 |-> IF i = 1 THEN s[i] ELSE f[i - 1] \o s[i]]
      BY <1>3, <2>2, Zenon DEF IsFlat
    <3>2. \A i \in 1 .. 2 : f[i] = IF i = 1 THEN s[i] ELSE f[i - 1] \o s[i]
      BY <3>1, Zenon
    <3>3. 1 \in 1 .. 2 /\ 2 \in 1 .. 2 /\ 2 # 1 /\ 2 - 1 = 1
      OBVIOUS
    <3>4. f[2] = f[2 - 1] \o s[2]
      BY <3>2, <3>3, Zenon
    <3> QED BY <3>2, <3>3, <3>4, Zenon
  <2> QED BY <2>2, <2>3
<1> QED BY <1>1, <1>2, <1>3

\* What one transaction does to a key.
DeltasOn(x, key) == IF key \in DOMAIN x THEN GetDeltas(x[key]) ELSE <<>>

\* The deltas of blocks of none, one and two transactions.
LEMMA BlockOf ==
  ASSUME NEW key, NEW x, NEW y
  PROVE  /\ BlockDeltas(<<>>, key) = <<>>
         /\ BlockDeltas(<<x>>, key) = DeltasOn(x, key)
         /\ BlockDeltas(<<x, y>>, key) = DeltasOn(x, key) \o DeltasOn(y, key)
<1> DEFINE F(c) == [i \in DOMAIN c |-> DeltasOn(c[i], key)]
<1>0. \A c : BlockDeltas(c, key) = FlattenSeq(F(c))
  BY Zenon DEF BlockDeltas, DeltasOn
<1>1. F(<<>>) = <<>> /\ Len(<<>>) = 0
  OBVIOUS
<1>2. Len(F(<<x>>)) = 1 /\ F(<<x>>)[1] = DeltasOn(x, key)
  OBVIOUS
<1>3. /\ Len(F(<<x, y>>)) = 2 /\ F(<<x, y>>)[1] = DeltasOn(x, key)
      /\ F(<<x, y>>)[2] = DeltasOn(y, key)
  OBVIOUS
<1> HIDE DEF F
<1> QED BY <1>0, <1>1, <1>2, <1>3, FlattenFew

-----------------------------------------------------------------------------
(* Two block that take one semaphore                                       *)

Take == SetAdd(1, -1)

\* A taken semaphore makes the delta SetAdd(1, -1), before a possible deletion.
LEMMA TakenDeltas ==
  ASSUME NEW v, Taken(v)
  PROVE  Begins(GetDeltas(v), Take, v)
<1>1. PICK o : ViewOK(o, v)
  BY DEF Taken
<1>2. v.nnint64_delta = {[set_value |-> 1, delta |-> -1]}
  BY DEF Taken
<1>3. Added(o, v)
  <2>1. ~NoInts(v)
    BY <1>2 DEF NoInts
  <2> QED BY <1>1, <2>1 DEF ViewOK, Untouched, Written, Hashed
<1>4. NoWrites(v) /\ NoHashes(v) /\ ~(~v.is_deleted /\ v.current = NoObject)
  BY <1>3 DEF Added, Shows, NoObject
<1> QED BY <1>1, <1>2, <1>4, FewDeltas DEF Take

\* The deltas of the first call, and the first of the second.
LEMMA TakenTwice ==
  ASSUME NEW v, Taken(v), NEW w, Taken(w)
  PROVE  LET D == GetDeltas(v) \o GetDeltas(w)
         IN  \E i \in DOMAIN D : i \in Nat /\ i > 1 /\ 1 \in DOMAIN D /\ D[1] = Take /\ D[i] = Take
<1> DEFINE A == GetDeltas(v)
           B == GetDeltas(w)
           S == {Take, DeleteLast}
<1>1. ASSUME NEW u, Taken(u)
      PROVE  GetDeltas(u) \in Seq(S) /\ Len(GetDeltas(u)) > 0 /\ GetDeltas(u)[1] = Take
  <2>1. GetDeltas(u) = <<Take>> \o Deleting(u)
    BY <1>1, TakenDeltas DEF Begins
  <2>2. Deleting(u) \in Seq(S) /\ <<Take>> \in Seq(S)
    <3>1. <<>> \in Seq(S) /\ <<Take>> \in Seq(S) /\ <<DeleteLast>> \in Seq(S)
      OBVIOUS
    <3> HIDE DEF S
    <3> QED BY <3>1, Zenon DEF Deleting
  <2> HIDE DEF S
  <2>3. /\ <<Take>> \o Deleting(u) \in Seq(S) /\ Len(<<Take>> \o Deleting(u)) > 0
        /\ (<<Take>> \o Deleting(u))[1] = Take
    <3> DEFINE t == <<Take>>
               r == Deleting(u)
    <3>1. t \in Seq(S) /\ r \in Seq(S) /\ Len(t) = 1 /\ t[1] = Take
      BY <2>2
    <3> HIDE DEF t, r
    <3>2. t \o r \in Seq(S) /\ Len(t \o r) > 0 /\ (t \o r)[1] = Take
      BY <3>1
    <3> QED BY <3>2 DEF t, r
  <2> QED BY <2>1, <2>3
<1>2. /\ A \in Seq(S) /\ Len(A) > 0 /\ A[1] = Take
      /\ B \in Seq(S) /\ Len(B) > 0 /\ B[1] = Take
  BY <1>1
<1> HIDE DEF A, B, S
<1> DEFINE D == A \o B
           i == Len(A) + 1
<1>3. /\ i \in DOMAIN D /\ i \in Nat /\ i > 1 /\ 1 \in DOMAIN D
      /\ D[1] = Take /\ D[i] = Take
  BY <1>2
<1> HIDE DEF D, i
<1> QED BY <1>3 DEF A, B, D

\* They would take it below zero.
LEMMA TwoRefused ==
  ASSUME NEW o, NEW D, NEW i \in DOMAIN D, i \in Nat, i > 1, 1 \in DOMAIN D, D[1] = Take, D[i] = Take
  PROVE  ~AdmitsAll(o, D)
<1>1. SUFFICES ASSUME AdmitsAll(o, D) PROVE FALSE
  OBVIOUS
<1> DEFINE C == {} \cup {1} \cup {i}
<1>2. Legal(o, D, C)
  <2>1. Admits(o, D, 1 .. i - 1, {}, i)
    BY <1>1 DEF AdmitsAll
  <2>2. {1} \in SUBSET (1 .. i - 1)
    OBVIOUS
  <2> QED BY <2>1, <2>2, Zenon DEF Admits
<1> DEFINE ints == OfType(D, C, "NONNEGATIVE_INT64_SET_ADD")
<1>3. Take.type = "NONNEGATIVE_INT64_SET_ADD" /\ Take.set_value = 1 /\ Take.delta = -1
  BY DEF Take, SetAdd
<1>4. ints = {1, i}
  BY <1>3 DEF OfType
<1>5. Total(D, {1, i}) = -2
  <2> DEFINE f == [j \in {1, i} |-> Amount(D[j])]
  <2>1. f[1] = -1 /\ f[i] = -1
    BY <1>3 DEF Amount
  <2>2. \A j \in {1, i} : f[j] \in Int
    BY <2>1
  <2> HIDE DEF f
  <2>3. SumFunctionOnSet(f, {1, i}) = -2
    <3>1. IsFiniteSet({1}) /\ i \notin {1}
      BY FS_Singleton, i # 1
    <3>2. \A j \in {1} \cup {i} : f[j] \in Int
      BY <2>2
    <3>3. SumFunctionOnSet(f, {1} \cup {i}) = f[i] + SumFunctionOnSet(f, {1})
      BY <3>1, <3>2, SumAdd, Zenon
    <3>4. {1} \cup {i} = {1, i} /\ f[1] \in Int
      BY <2>1
    <3>5. SumFunctionOnSet(f, {1}) = f[1]
      BY <3>4, SumOne
    <3> QED BY <2>1, <3>3, <3>4, <3>5
  <2> QED BY <2>3 DEF Total, f
<1>6. D[1].set_value >= 0 => D[1].set_value + Total(D, ints) >= 0
  <2>1. \A j \in ints : D[j].set_value >= 0 => D[j].set_value + Total(D, ints) >= 0
    BY <1>2 DEF Legal
  <2>2. 1 \in ints
    BY <1>4
  <2> QED BY <2>1, <2>2
<1> HIDE DEF ints
<1> QED BY <1>3, <1>4, <1>5, <1>6

-----------------------------------------------------------------------------
(* The replay cache                                                        *)

\* What a payment is in the replay cache.
PaidHash(call) == [index |-> call.expiration_time, hash |-> call]

LEMMA MaxOne == ASSUME NEW a \in Int PROVE Max({} \cup {a}) = a
<1>1. {} \cup {a} = {a}
  OBVIOUS
<1>2. a \in {a} /\ \A y \in {a} : a >= y
  OBVIOUS
<1>3. Max({a}) \in {a}
  BY <1>2, Zenon DEF Max
<1> QED BY <1>1, <1>3

\* A payment inserts itself into the replay cache and clears what expired.
LEMMA RecordedDeltas ==
  ASSUME StateSound, height \in Nat, NEW hash, NEW time, NEW v, TameView(v), Recorded(v, hash, time)
  PROVE  GetDeltas(v) = <<Insert([index |-> time, hash |-> hash])>> \o <<Clear(height)>>
<1> DEFINE f == Fresh(At(Replays))
           h == [index |-> time, hash |-> hash]
           i == Insert(h)
           c == Clear(height)
<1>1. PICK u \in TryApply(f, i) : v \in TryApply(u, c)
  BY DEF Recorded
<1>2. Sound(At(Replays))
  BY DEF StateSound, At, Sound, NoObject
<1>3. TameView(f)
  BY <1>2, TameFresh
<1>4. /\ i.type = "HASH_SET_INSERT" /\ i.hash = h
      /\ c.type = "HASH_SET_CLEAR" /\ c.threshold = height
      /\ "HASH_SET_INSERT" \in DOMAIN DeltaTypes /\ "HASH_SET_CLEAR" \in DOMAIN DeltaTypes
      /\ DeltaTypes["HASH_SET_INSERT"] = "HASH_SET" /\ DeltaTypes["HASH_SET_CLEAR"] = "HASH_SET"
  BY DEF Insert, Clear, DeltaTypes
<1>5. TameView(u)
  BY <1>1, <1>3, <1>4, TameApply DEF SdkDelta
<1>6. /\ u \in ApplyInsert(f, i)
      /\ v \in ApplyClear(u, c) /\ (u.current = NoObject \/ u.current.type = "HASH_SET")
      /\ ~u.is_deleted
  <2> HIDE DEF i, c, f
  <2> QED BY <1>1, <1>4, TameGuard
<1>7. /\ f.memory_write = {} /\ f.nnint64_delta = {} /\ f.hs_size_increase = {}
      /\ f.hs_clear_threshold = {} /\ f.new_hashes = <<>>
  BY DEF Fresh
<1> HIDE DEF f, i, c
<1>8. /\ u.memory_write = {} /\ u.nnint64_delta = {} /\ u.hs_size_increase = {}
      /\ u.hs_clear_threshold = {} /\ u.new_hashes = <<h>>
  <2> DEFINE set == Current(f, "HASH_SET")
             cur == [set EXCEPT !.hashes = @ \cup {i.hash}]
  <2>1. u = [f EXCEPT !.current = cur, !.new_hashes = Append(f.new_hashes, i.hash)]
    BY <1>6, SMTT(30) DEF ApplyInsert
  <2> HIDE DEF cur
  <2>2. u \in Recs(cur, f.memory_write, f.nnint64_delta, f.hs_size_increase, Append(f.new_hashes, i.hash),
                   f.hs_clear_threshold, f.is_deleted)
    BY <1>3, <2>1, RecExcept DEF TameView
  <2>3. Append(f.new_hashes, i.hash) = <<h>>
    BY <1>4, <1>7
  <2> QED BY <1>7, <2>2, <2>3, RecsFields
<1>9. /\ v.memory_write = {} /\ v.nnint64_delta = {} /\ v.hs_size_increase = {}
      /\ v.hs_clear_threshold = {height} /\ v.new_hashes = <<h>> /\ ~v.is_deleted
      /\ v.current # NoObject
  <2> DEFINE set == Current(u, "HASH_SET")
             top == Max(u.hs_clear_threshold \cup {c.threshold})
             cur == [set EXCEPT !.hashes = {g \in @ : g.index > top}]
  <2>1. v = [u EXCEPT !.current = cur, !.hs_clear_threshold = {top}]
    BY <1>6 DEF ApplyClear
  <2>2. top = height
    BY <1>4, <1>8, MaxOne
  <2>3. cur # NoObject
    <3>1. set = [type |-> "HASH_SET", hashes |-> set.hashes, max_size |-> set.max_size]
      BY <1>5, <1>6, SoundSet
    <3> HIDE DEF set, top
    <3>2. cur.type = "HASH_SET"
      BY <3>1, SMTT(30)
    <3> QED BY <3>2 DEF NoObject
  <2> HIDE DEF cur, top
  <2>4. v \in Recs(cur, u.memory_write, u.nnint64_delta, u.hs_size_increase, u.new_hashes, {top}, u.is_deleted)
    BY <1>5, <2>1, RecExcept DEF TameView
  <2> QED BY <1>6, <1>8, <2>2, <2>3, <2>4, RecsFields
<1>10. /\ Writing(v) = <<>> /\ Adding(v) = <<>> /\ Increasing(v) = <<>> /\ Deleting(v) = <<>>
  BY <1>9, NoneOf DEF NoWrites, NoInts, Deleting
<1>11. Inserting(v) = <<i>>
  BY <1>9 DEF Inserting, i
<1>12. Clearing(v) = <<c>>
  <2>1. {Clear(x) : x \in v.hs_clear_threshold} = {c}
    BY <1>9 DEF c
  <2> QED BY <2>1, SeqOfOne DEF Clearing
<1>13. v.delta = {}
  BY Deltaless DEF TameView
<1>14. GetDeltas(v) = <<>> \o <<>> \o <<>> \o <<i>> \o <<c>> \o <<>> \o <<>>
  BY <1>9, <1>10, <1>11, <1>12, <1>13, Segments
<1>15. <<>> \o <<>> \o <<>> \o <<i>> \o <<c>> \o <<>> \o <<>> = <<i>> \o <<c>>
  <2>1. <<>> \o <<>> = <<>> /\ <<>> \o <<i>> = <<i>>
    OBVIOUS
  <2>2. <<i>> \in Seq({i, c}) /\ <<c>> \in Seq({i, c})
    OBVIOUS
  <2>3. <<i>> \o <<c>> \o <<>> = <<i>> \o <<c>>
    BY <2>2, NoSegment, Joined
  <2> QED BY <2>1, <2>2, <2>3, Zenon
<1> QED BY <1>14, <1>15 DEF i, c

\* init raises the limit of the replay cache.
LEMMA GrownDeltas ==
  ASSUME StateSound, NEW v, TameView(v), Grown(v)
  PROVE  \E n : GetDeltas(v) = <<IncreaseLimit(n)>>
<1> DEFINE f == Fresh(At(Replays))
<1>1. PICK m : v \in TryApply(f, IncreaseLimit(m))
  BY DEF Grown
<1> DEFINE d == IncreaseLimit(m)
<1>2. Sound(At(Replays))
  BY DEF StateSound, At, Sound, NoObject
<1>3. TameView(f)
  BY <1>2, TameFresh
<1>4. /\ d.type = "HASH_SET_INCREASE_LIMIT" /\ d.limit_increase = m
      /\ "HASH_SET_INCREASE_LIMIT" \in DOMAIN DeltaTypes
      /\ DeltaTypes["HASH_SET_INCREASE_LIMIT"] = "HASH_SET"
  BY DEF IncreaseLimit, DeltaTypes
<1>6. /\ v \in ApplyIncreaseLimit(f, d)
      /\ f.current = NoObject \/ f.current.type = "HASH_SET"
      /\ ~f.is_deleted
  <2> HIDE DEF d, f
  <2> QED BY <1>1, <1>4, TameGuard DEF d
<1>7. /\ f.memory_write = {} /\ f.nnint64_delta = {} /\ f.hs_size_increase = {}
      /\ f.hs_clear_threshold = {} /\ f.new_hashes = <<>>
  BY DEF Fresh
<1> HIDE DEF f, d
<1> DEFINE cur == Current(f, "HASH_SET")
<1>8. v = [f EXCEPT !.current = cur, !.hs_size_increase = {m}]
  <2>1. v = [f EXCEPT !.current = cur,
                      !.hs_size_increase = {IF f.hs_size_increase = {} THEN d.limit_increase
                                            ELSE Min(f.hs_size_increase) + d.limit_increase}]
    BY <1>6 DEF ApplyIncreaseLimit
  <2> QED BY <1>4, <1>7, <2>1
<1>9. cur # NoObject
  <2>1. cur = [type |-> "HASH_SET", hashes |-> cur.hashes, max_size |-> cur.max_size]
    BY <1>3, <1>6, SoundSet
  <2> HIDE DEF cur
  <2>2. cur.type = "HASH_SET"
    BY <2>1
  <2> QED BY <2>2 DEF NoObject
<1> HIDE DEF cur
<1>10. /\ v.memory_write = {} /\ v.nnint64_delta = {} /\ v.hs_size_increase = {m}
       /\ v.hs_clear_threshold = {} /\ v.new_hashes = <<>> /\ ~v.is_deleted
       /\ v.current # NoObject
  <2>1. v \in Recs(cur, f.memory_write, f.nnint64_delta, {m}, f.new_hashes, f.hs_clear_threshold,
                   f.is_deleted)
    BY <1>3, <1>8, RecExcept DEF TameView
  <2> QED BY <1>6, <1>7, <1>9, <2>1, RecsFields, SMTT(30)
<1> DEFINE i == IncreaseLimit(Min({m, MaxSize}))
<1>11. /\ Writing(v) = <<>> /\ Adding(v) = <<>> /\ Inserting(v) = <<>> /\ Clearing(v) = <<>>
       /\ Deleting(v) = <<>>
  BY <1>10, NoneOf DEF NoWrites, NoInts, Deleting
<1>12. Increasing(v) = <<i>>
  <2>1. {IncreaseLimit(Min({n, MaxSize})) : n \in v.hs_size_increase} = {i}
    BY <1>10
  <2> HIDE DEF i
  <2> QED BY <2>1, SeqOfOne DEF Increasing
<1>13. v.delta = {}
  BY Deltaless DEF TameView
<1> HIDE DEF i
<1>14. GetDeltas(v) = <<>> \o <<>> \o <<i>> \o <<>> \o <<>> \o <<>> \o <<>>
  BY <1>10, <1>11, <1>12, <1>13, Segments
<1>15. <<>> \o <<>> = <<>> /\ <<>> \o <<i>> = <<i>> /\ <<i>> \o <<>> = <<i>>
  OBVIOUS
<1>16. GetDeltas(v) = <<i>>
  BY <1>14, <1>15, Zenon
<1> QED BY <1>16 DEF i

\* What a call does to the replay cache.
Replaying(call, d) ==
    \/ /\ call.method = "transfer" /\ ~(call.expiration_time < height)
       /\ d = <<Insert(PaidHash(call))>> \o <<Clear(height)>>
    \/ call.method # "transfer" /\ d = <<>>
    \/ call.method # "transfer" /\ \E n : d = <<IncreaseLimit(n)>>

\* What a call does to the replay cache is one of these, or nothing.
LEMMA CallReplays ==
  ASSUME StateSound, height \in Nat, NEW call, CallOK(call), NEW x \in Run(call)
  PROVE  Replaying(call, DeltasOn(x, Replays))
<1>1. CASE call.method = "transfer"
  <2>1. Replays \in DOMAIN x /\ Recorded(x[Replays], call, call.expiration_time) /\ Tame(x)
    BY <1>1, RunFacts
  <2>2. TameView(x[Replays])
    BY <2>1 DEF Tame
  <2>3. GetDeltas(x[Replays]) = <<Insert(PaidHash(call))>> \o <<Clear(height)>>
    BY <2>1, <2>2, RecordedDeltas DEF PaidHash
  <2>4. ~(call.expiration_time < height)
    BY <2>1 DEF Recorded
  <2> QED BY <1>1, <2>1, <2>3, <2>4 DEF Replaying, DeltasOn
<1>2. CASE call.method # "transfer" /\ Replays \in DOMAIN x
  <2>1. Grown(x[Replays]) /\ Tame(x)
    BY <1>2, RunFacts
  <2>2. TameView(x[Replays])
    BY <1>2, <2>1 DEF Tame
  <2>3. \E n : GetDeltas(x[Replays]) = <<IncreaseLimit(n)>>
    BY <2>1, <2>2, GrownDeltas
  <2> QED BY <1>2, <2>3 DEF Replaying, DeltasOn
<1>3. CASE call.method # "transfer" /\ Replays \notin DOMAIN x
  BY <1>3 DEF Replaying, DeltasOn
<1> QED BY <1>1, <1>2, <1>3

ReplayDelta(d) == d = Clear(height) \/ (\E n : d = IncreaseLimit(n)) \/ (\E h : d = Insert(h))

\* What the calls of a block do to the replay cache.
ReplayBlock(block, D) ==
    /\ Len(D) \in Nat /\ DOMAIN D = 1 .. Len(D)
    /\ \A i \in DOMAIN D : ReplayDelta(D[i])
    /\ \A j \in DOMAIN block : block[j].method = "transfer" =>
         /\ ~(block[j].expiration_time < height)
         /\ \E i \in DOMAIN D : D[i] = Insert(PaidHash(block[j]))
    /\ \A j, l \in DOMAIN block : j # l /\ block[j] = block[l] /\ block[j].method = "transfer" =>
         \E i, m \in DOMAIN D : i < m /\ D[i] = Insert(PaidHash(block[j])) /\ D[m] = D[i]

\* A payment that has not expired inserts itself first of all.
LEMMA OneReplays ==
  ASSUME NEW call, NEW d, Replaying(call, d)
  PROVE  /\ \E S : d \in Seq(S)
         /\ \A i \in DOMAIN d : ReplayDelta(d[i])
         /\ call.method = "transfer" =>
              ~(call.expiration_time < height) /\ 1 \in DOMAIN d /\ d[1] = Insert(PaidHash(call))
<1>1. ASSUME call.method = "transfer", ~(call.expiration_time < height),
             d = <<Insert(PaidHash(call))>> \o <<Clear(height)>>
      PROVE  /\ \E S : d \in Seq(S)
             /\ \A i \in DOMAIN d : ReplayDelta(d[i])
             /\ 1 \in DOMAIN d /\ d[1] = Insert(PaidHash(call))
  <2> DEFINE a == Insert(PaidHash(call))
             b == Clear(height)
             S == {a, b}
  <2>1. ReplayDelta(a) /\ ReplayDelta(b)
    BY DEF ReplayDelta
  <2> HIDE DEF a, b
  <2>2. <<a>> \in Seq(S) /\ <<b>> \in Seq(S) /\ Len(<<a>>) = 1 /\ Len(<<b>>) = 1
    OBVIOUS
  <2>3. d = <<a>> \o <<b>>
    BY <1>1 DEF a, b
  <2>4. d \in Seq(S) /\ Len(d) = 2 /\ d[1] = a
    BY <2>2, <2>3, Joined
  <2>5. \A i \in DOMAIN d : d[i] \in S
    <3> HIDE DEF S
    <3> QED BY <2>4
  <2> QED BY <2>1, <2>4, <2>5 DEF a
<1>2. ASSUME d = <<>> PROVE (\E S : d \in Seq(S)) /\ \A i \in DOMAIN d : ReplayDelta(d[i])
  <2>1. d \in Seq({})
    BY <1>2
  <2> QED BY <1>2, <2>1
<1>3. ASSUME NEW n, d = <<IncreaseLimit(n)>>
      PROVE (\E S : d \in Seq(S)) /\ \A i \in DOMAIN d : ReplayDelta(d[i])
  <2>1. ReplayDelta(IncreaseLimit(n))
    BY DEF ReplayDelta
  <2>2. d \in Seq({IncreaseLimit(n)}) /\ \A i \in DOMAIN d : d[i] = IncreaseLimit(n)
    BY <1>3
  <2> QED BY <2>1, <2>2
<1> QED BY <1>1, <1>2, <1>3 DEF Replaying

\* The same of the calls of a block.
LEMMA BlockReplays ==
  ASSUME NEW k, NEW l, NEW a, NEW b, Replaying(k, a), Replaying(l, b)
  PROVE  ReplayBlock(<<>>, <<>>) /\ ReplayBlock(<<k>>, a) /\ ReplayBlock(<<k, l>>, a \o b)
<1>1. ReplayBlock(<<>>, <<>>)
  BY DEF ReplayBlock
<1>2. PICK S : a \in Seq(S)
  BY OneReplays
<1>3. PICK T : b \in Seq(T)
  BY OneReplays
<1>4. /\ \A i \in DOMAIN a : ReplayDelta(a[i])
      /\ \A i \in DOMAIN b : ReplayDelta(b[i])
      /\ k.method = "transfer" =>
           ~(k.expiration_time < height) /\ 1 \in DOMAIN a /\ a[1] = Insert(PaidHash(k))
      /\ l.method = "transfer" =>
           ~(l.expiration_time < height) /\ 1 \in DOMAIN b /\ b[1] = Insert(PaidHash(l))
  BY OneReplays
<1>5. ReplayBlock(<<k>>, a)
  <2>1. DOMAIN <<k>> = {1} /\ <<k>>[1] = k
    OBVIOUS
  <2>2. Len(a) \in Nat /\ DOMAIN a = 1 .. Len(a)
    BY <1>2
  <2> QED BY <1>4, <2>1, <2>2 DEF ReplayBlock
<1>6. ReplayBlock(<<k, l>>, a \o b)
  <2> DEFINE D == a \o b
             n == Len(a)
  <2>1. a \in Seq(S \cup T) /\ b \in Seq(S \cup T)
    BY <1>2, <1>3
  <2>2. /\ n \in Nat /\ DOMAIN a = 1 .. n /\ DOMAIN b = 1 .. Len(b) /\ Len(b) \in Nat
        /\ Len(D) = n + Len(b) /\ DOMAIN D = 1 .. n + Len(b)
        /\ \A i \in 1 .. n : D[i] = a[i]
        /\ \A i \in 1 .. Len(b) : D[n + i] = b[i]
    BY <2>1, Joined
  <2> HIDE DEF D, n
  <2>3. \A i \in DOMAIN D : ReplayDelta(D[i])
    <3> TAKE i \in DOMAIN D
    <3>1. CASE i <= n
      BY <1>4, <2>2, <3>1
    <3>2. CASE i > n
      <4>1. i - n \in 1 .. Len(b) /\ n + (i - n) = i
        BY <2>2, <3>2
      <4>2. D[i] = b[i - n]
        BY <2>2, <4>1
      <4> QED BY <1>4, <2>2, <4>1, <4>2
    <3> QED BY <2>2, <3>1, <3>2
  <2>4. k.method = "transfer" => 1 \in DOMAIN D /\ 1 <= n /\ D[1] = Insert(PaidHash(k))
    BY <1>4, <2>2
  <2>5. l.method = "transfer" => n + 1 \in DOMAIN D /\ D[n + 1] = Insert(PaidHash(l))
    BY <1>4, <2>2
  <2>6. DOMAIN <<k, l>> = {1, 2} /\ <<k, l>>[1] = k /\ <<k, l>>[2] = l
    OBVIOUS
  <2> DEFINE block == <<k, l>>
  <2> HIDE DEF block
  <2>7. ASSUME NEW j \in DOMAIN block, block[j].method = "transfer"
        PROVE  /\ ~(block[j].expiration_time < height)
               /\ \E i \in DOMAIN D : D[i] = Insert(PaidHash(block[j]))
    <3>1. CASE j = 1
      BY <1>4, <2>4, <2>6, <2>7, <3>1 DEF block
    <3>2. CASE j = 2
      BY <1>4, <2>5, <2>6, <2>7, <3>2 DEF block
    <3> QED BY <2>6, <3>1, <3>2 DEF block
  <2>8. ASSUME NEW j \in DOMAIN block, NEW m \in DOMAIN block, j # m, block[j] = block[m],
               block[j].method = "transfer"
        PROVE  \E i, o \in DOMAIN D : i < o /\ D[i] = Insert(PaidHash(block[j])) /\ D[o] = D[i]
    <3>1. k = l /\ block[j] = k
      BY <2>6, <2>8 DEF block
    <3>2. /\ 1 \in DOMAIN D /\ n + 1 \in DOMAIN D /\ 1 < n + 1
          /\ D[1] = Insert(PaidHash(k)) /\ D[n + 1] = D[1]
      BY <2>2, <2>4, <2>5, <2>8, <3>1
    <3> QED BY <3>1, <3>2
  <2>9. Len(D) \in Nat /\ DOMAIN D = 1 .. Len(D)
    BY <2>2
  <2>10. ReplayBlock(block, D)
    BY <2>3, <2>7, <2>8, <2>9, Zenon DEF ReplayBlock
  <2> QED BY <2>10 DEF block, D
<1> QED BY <1>1, <1>5, <1>6

-----------------------------------------------------------------------------
(* What a block makes of the objects                                       *)

\* Deltas on the replay cache are those of a hash set.
LEMMA ClassOf ==
  ASSUME NEW d
  PROVE  /\ DeltaClass(d) = [type |-> DeltaClass(d).type, value |-> DeltaClass(d).value]
         /\ DeltaClass(d).type \in {"NONNEGATIVE_INT64", "RAW_MEMORY", "KNOWN_SUPPLY_ASSET", "HASH_SET"}
         /\ ReplayDelta(d) => DeltaClass(d).type = "HASH_SET" /\ d.type # "DELETE_LAST"
<1>1. /\ DeltaClass(d) = [type |-> DeltaClass(d).type, value |-> DeltaClass(d).value]
      /\ DeltaClass(d).type \in {"NONNEGATIVE_INT64", "RAW_MEMORY", "KNOWN_SUPPLY_ASSET", "HASH_SET"}
  BY DEF DeltaClass
<1>2. ASSUME ReplayDelta(d)
      PROVE  d.type \in {"HASH_SET_INSERT", "HASH_SET_INCREASE_LIMIT", "HASH_SET_CLEAR"}
  BY <1>2 DEF ReplayDelta, Insert, IncreaseLimit, Clear
<1>3. d.type \in {"HASH_SET_INSERT", "HASH_SET_INCREASE_LIMIT", "HASH_SET_CLEAR"} =>
        DeltaClass(d).type = "HASH_SET" /\ d.type # "DELETE_LAST"
  BY DEF DeltaClass
<1> QED BY <1>1, <1>2, <1>3

\* What the deltas of a block leave in a hash set.
LeftOf(o, D, C) ==
    {h \in Hashes(o) \cup {D[i].hash : i \in OfType(D, C, "HASH_SET_INSERT")} :
       \A i \in OfType(D, C, "HASH_SET_CLEAR") : h.index > D[i].threshold}
ClassIn(D, C) == DeltaClass(D[CHOOSE i \in C : TRUE])

\* Outcome, by what becomes of the object.
Becomes(o, D, C) ==
    /\ C = {} => Outcome(o, D, C) = o
    /\ C # {} /\ Touching(D, C) # C => Outcome(o, D, C) = NoObject
    /\ C # {} /\ Touching(D, C) = C /\ ClassIn(D, C).type # "HASH_SET" =>
         Outcome(o, D, C).type = ClassIn(D, C).type
    /\ C # {} /\ Touching(D, C) = C /\ ClassIn(D, C).type = "HASH_SET" =>
         \E m : Outcome(o, D, C) = [type |-> "HASH_SET", max_size |-> m, hashes |-> LeftOf(o, D, C)]

\* The outcome of deltas on an object, by the class of the deltas.
LEMMA OutcomeIs ==
  ASSUME NEW o, NEW D, NEW C
  PROVE  Becomes(o, D, C)
<1> DEFINE inserted == {D[i].hash : i \in OfType(D, C, "HASH_SET_INSERT")}
           dc == DeltaClass(D[CHOOSE i \in C : TRUE])
           out == Outcome(o, D, C)
           ints == [dc EXCEPT !.value = Min({MaxInt, @ + Total(D, C)})]
           assets == [dc EXCEPT !.value = Supply(o) + Total(D, C)]
           size == Min({MaxSize, SizeLimit(o) + Increase(D, OfType(D, C, "HASH_SET_INCREASE_LIMIT"))})
           left == {h \in Hashes(o) \cup inserted :
                      \A i \in OfType(D, C, "HASH_SET_CLEAR") : h.index > D[i].threshold}
           set == [type |-> "HASH_SET", max_size |-> size, hashes |-> left]
<1>1. out = IF C = {} THEN o
            ELSE IF Touching(D, C) # C THEN NoObject
            ELSE CASE dc.type = "NONNEGATIVE_INT64" -> ints
                   [] dc.type = "RAW_MEMORY" -> dc
                   [] dc.type = "KNOWN_SUPPLY_ASSET" -> assets
                   [] dc.type = "HASH_SET" -> set
  BY Zenon DEF Outcome
<1>2. /\ dc = [type |-> dc.type, value |-> dc.value]
      /\ dc.type \in {"NONNEGATIVE_INT64", "RAW_MEMORY", "KNOWN_SUPPLY_ASSET", "HASH_SET"}
  BY ClassOf
<1>3. ints.type = dc.type /\ assets.type = dc.type
  <2> HIDE DEF dc
  <2>1. \A x : [dc EXCEPT !.value = x].type = dc.type
    BY <1>2
  <2> QED BY <2>1
<1> HIDE DEF out, dc, ints, assets, set, inserted
<1>4. C = {} => out = o
  BY <1>1
<1>5. C # {} /\ Touching(D, C) # C => out = NoObject
  BY <1>1
<1>6. C # {} /\ Touching(D, C) = C /\ dc.type # "HASH_SET" => out.type = dc.type
  BY <1>1, <1>2, <1>3
<1>7. C # {} /\ Touching(D, C) = C /\ dc.type = "HASH_SET" => out = set
  BY <1>1
<1>8. set = [type |-> "HASH_SET", max_size |-> size, hashes |-> LeftOf(o, D, C)]
  BY Zenon DEF set, LeftOf, inserted
<1>9. dc = ClassIn(D, C)
  BY Zenon DEF dc, ClassIn
<1> HIDE DEF size
<1> QED BY <1>4, <1>5, <1>6, <1>7, <1>8, <1>9, Zenon DEF out, Becomes

\* Deltas leave sound objects.
LEMMA SoundOutcome ==
  ASSUME NEW o, Sound(o), NEW D, IsFiniteSet(DOMAIN D)
  PROVE  Sound(Outcome(o, D, DOMAIN D))
<1> DEFINE C == DOMAIN D
           inserted == {D[i].hash : i \in OfType(D, C, "HASH_SET_INSERT")}
           dc == ClassIn(D, C)
           out == Outcome(o, D, C)
           left == LeftOf(o, D, C)
<1>1. IsFiniteSet(left)
  <2>1. IsFiniteSet(OfType(D, C, "HASH_SET_INSERT"))
    <3>1. OfType(D, C, "HASH_SET_INSERT") \subseteq C
      BY DEF OfType
    <3> QED BY <3>1, FS_Subset
  <2>2. IsFiniteSet(inserted)
    <3> DEFINE I == OfType(D, C, "HASH_SET_INSERT")
               f == [i \in I |-> D[i].hash]
    <3>1. inserted = {f[i] : i \in I}
      OBVIOUS
    <3>2. f \in Surjection(I, inserted)
      BY <3>1 DEF Surjection
    <3> HIDE DEF I, f, inserted
    <3> QED BY <2>1, <3>2, FS_Surjection DEF I
  <2>3. IsFiniteSet(Hashes(o))
    BY FS_EmptySet DEF Sound, Hashes
  <2>4. left \subseteq Hashes(o) \cup inserted
    BY DEF LeftOf
  <2> HIDE DEF left, inserted
  <2> QED BY <2>2, <2>3, <2>4, FS_Union, FS_Subset
<1>a. Becomes(o, D, C)
  BY OutcomeIs
<1>2. /\ C = {} => out = o
      /\ C # {} /\ Touching(D, C) # C => out = NoObject
      /\ C # {} /\ Touching(D, C) = C /\ dc.type # "HASH_SET" => out.type = dc.type
      /\ C # {} /\ Touching(D, C) = C /\ dc.type = "HASH_SET" =>
            \E m : out = [type |-> "HASH_SET", max_size |-> m, hashes |-> left]
  BY <1>a, Zenon DEF Becomes
<1> HIDE DEF C, left, dc, out
<1>3. Sound(NoObject)
  BY DEF Sound, NoObject
<1>4. ASSUME NEW m, out = [type |-> "HASH_SET", max_size |-> m, hashes |-> left] PROVE Sound(out)
  BY <1>1, <1>4 DEF Sound
<1>5. Sound(out)
  <2>1. CASE C # {} /\ Touching(D, C) = C /\ dc.type # "HASH_SET"
    BY <1>2, <2>1 DEF Sound
  <2> QED BY <1>2, <1>3, <1>4, <2>1
<1> QED BY <1>5 DEF C, out

\* An element of the replay cache that has not expired stays, one that is
\* inserted comes.
LEMMA ReplayKept ==
  ASSUME height \in Nat, NEW block, NEW D, ReplayBlock(block, D), NEW o, NEW h, h.index \in Int,
         h.index > height, h \in Hashes(o) \/ \E i \in DOMAIN D : D[i] = Insert(h)
  PROVE  h \in Hashes(Outcome(o, D, DOMAIN D))
<1> DEFINE C == DOMAIN D
           inserted == {D[i].hash : i \in OfType(D, C, "HASH_SET_INSERT")}
           dc == ClassIn(D, C)
           out == Outcome(o, D, C)
           left == LeftOf(o, D, C)
<1>1. \A i \in C : ReplayDelta(D[i])
  BY DEF ReplayBlock
<1>2. h \in Hashes(o) \cup inserted
  <2>1. ASSUME NEW i \in C, D[i] = Insert(h) PROVE h \in inserted
    <3>1. D[i].type = "HASH_SET_INSERT" /\ D[i].hash = h
      BY <2>1 DEF Insert
    <3> QED BY <3>1 DEF OfType
  <2> QED BY <2>1
<1>3. \A i \in OfType(D, C, "HASH_SET_CLEAR") : h.index > D[i].threshold
  <2> TAKE i \in OfType(D, C, "HASH_SET_CLEAR")
  <2>1. D[i].type = "HASH_SET_CLEAR" /\ ReplayDelta(D[i])
    BY <1>1 DEF OfType
  <2>2. D[i] = Clear(height)
    <3>1. /\ \A n : IncreaseLimit(n).type = "HASH_SET_INCREASE_LIMIT"
          /\ \A g : Insert(g).type = "HASH_SET_INSERT"
      BY DEF Insert, IncreaseLimit
    <3> QED BY <2>1, <3>1 DEF ReplayDelta
  <2>3. D[i].threshold = height
    BY <2>2 DEF Clear
  <2> QED BY <2>3
<1>4. h \in left
  BY <1>2, <1>3 DEF LeftOf
<1>a. Becomes(o, D, C)
  BY OutcomeIs
<1>5. CASE C = {}
  <2>1. out = o
    BY <1>5, <1>a, Zenon DEF Becomes
  <2>2. inserted = {}
    BY <1>5 DEF OfType
  <2> QED BY <1>2, <2>1, <2>2
<1>6. CASE C # {}
  <2>1. dc.type = "HASH_SET"
    BY <1>1, <1>6, ClassOf DEF ClassIn
  <2>2. Touching(D, C) = C
    BY <1>1, ClassOf DEF Touching
  <2>3. \E m : out = [type |-> "HASH_SET", max_size |-> m, hashes |-> left]
    BY <1>6, <1>a, <2>1, <2>2, Zenon DEF Becomes
  <2> HIDE DEF left, out
  <2>4. out.type = "HASH_SET" /\ out.hashes = left
    BY <2>3
  <2>5. h \in Hashes(out)
    BY <1>4, <2>4 DEF Hashes
  <2> QED BY <2>5 DEF out
<1> QED BY <1>5, <1>6

\* A payment in the replay cache, or twice in the block, is refused.
LEMMA ReplayRefused ==
  ASSUME NEW o, NEW D, Len(D) \in Nat, DOMAIN D = 1 .. Len(D), AdmitsAll(o, D), NEW h
  PROVE  /\ \A i \in DOMAIN D : D[i] = Insert(h) => h \notin Hashes(o)
         /\ \A i, m \in DOMAIN D : i < m /\ D[i] = Insert(h) /\ D[m] = D[i] => FALSE
<1>0. Insert(h).type = "HASH_SET_INSERT" /\ Insert(h).hash = h
  BY DEF Insert
<1>1. ASSUME NEW i \in DOMAIN D, D[i] = Insert(h) PROVE h \notin Hashes(o)
  <2> DEFINE C == {} \cup {} \cup {i}
  <2>1. Admits(o, D, 1 .. i - 1, {}, i)
    BY DEF AdmitsAll
  <2>2. {} \in SUBSET (1 .. i - 1)
    OBVIOUS
  <2>3. Legal(o, D, C)
    BY <2>1, <2>2, Zenon DEF Admits
  <2>4. i \in OfType(D, C, "HASH_SET_INSERT")
    BY <1>0, <1>1 DEF OfType
  <2>5. D[i].hash \notin Hashes(o)
    BY <2>3, <2>4 DEF Legal
  <2> QED BY <1>0, <1>1, <2>5
<1>2. ASSUME NEW i \in DOMAIN D, NEW m \in DOMAIN D, i < m, D[i] = Insert(h), D[m] = D[i] PROVE FALSE
  <2> DEFINE C == {} \cup {i} \cup {m}
  <2>1. Admits(o, D, 1 .. m - 1, {}, m)
    BY DEF AdmitsAll
  <2>2. {i} \in SUBSET (1 .. m - 1) /\ i # m
    BY <1>2
  <2>3. Legal(o, D, C)
    BY <2>1, <2>2, Zenon DEF Admits
  <2>4. i \in OfType(D, C, "HASH_SET_INSERT") /\ m \in OfType(D, C, "HASH_SET_INSERT")
    BY <1>0, <1>2 DEF OfType
  <2>5. D[i].hash # D[m].hash
    BY <2>2, <2>3, <2>4 DEF Legal
  <2> QED BY <1>2, <2>5
<1> QED BY <1>1, <1>2

IsSequence(s) == \E S : s \in Seq(S)

\* Joined sequences are sequences.
LEMMA SequenceJoined ==
  ASSUME NEW s, NEW t, IsSequence(s), IsSequence(t)
  PROVE  IsSequence(s \o t) /\ IsFiniteSet(DOMAIN s)
<1>1. PICK S : s \in Seq(S)
  BY DEF IsSequence
<1>2. PICK T : t \in Seq(T)
  BY DEF IsSequence
<1>3. s \in Seq(S \cup T) /\ t \in Seq(S \cup T)
  BY <1>1, <1>2
<1>4. s \o t \in Seq(S \cup T)
  BY <1>3, Joined
<1>5. DOMAIN s = 1 .. Len(s) /\ Len(s) \in Nat
  BY <1>1
<1>6. IsFiniteSet(1 .. Len(s))
  BY <1>5, FS_Interval
<1> QED BY <1>4, <1>5, <1>6 DEF IsSequence

\* A view has finitely many deltas.
LEMMA TameDeltas ==
  ASSUME NEW v, TameView(v)
  PROVE  IsSequence(GetDeltas(v))
<1>1. IsSequence(<<>>) /\ \A x : IsSequence(<<x>>)
  <2>1. <<>> \in Seq({}) /\ \A x : <<x>> \in Seq({x})
    OBVIOUS
  <2> QED BY <2>1, Zenon DEF IsSequence
<1>2. ASSUME NEW S, One(S), NEW T, S = {} => T = {}, \A x : S = {x} => \E y : T = {y}
      PROVE  IsSequence(SetToSeq(T))
  <2>1. T = {} \/ \E y : T = {y}
    BY <1>2 DEF One
  <2> QED BY <1>1, <2>1, SeqOfNone, SeqOfOne
<1>3. IsSequence(Writing(v))
  <2>1. \A x : v.memory_write = {x} => {Write(y) : y \in v.memory_write} = {Write(x)}
    OBVIOUS
  <2>2. v.memory_write = {} => {Write(y) : y \in v.memory_write} = {}
    OBVIOUS
  <2>3. One(v.memory_write)
    BY DEF TameView
  <2> QED BY <1>2, <2>1, <2>2, <2>3, Zenon DEF Writing
<1>4. IsSequence(Adding(v))
  <2>1. \A x : v.nnint64_delta = {x} =>
          {SetAdd(y.set_value, y.delta) : y \in v.nnint64_delta} = {SetAdd(x.set_value, x.delta)}
    OBVIOUS
  <2>2. v.nnint64_delta = {} => {SetAdd(y.set_value, y.delta) : y \in v.nnint64_delta} = {}
    OBVIOUS
  <2>3. One(v.nnint64_delta)
    BY DEF TameView
  <2> QED BY <1>2, <2>1, <2>2, <2>3, Zenon DEF Adding
<1>5. IsSequence(Increasing(v))
  <2> DEFINE I(y) == IncreaseLimit(Min({y, MaxSize}))
  <2>1. \A x : v.hs_size_increase = {x} => {I(y) : y \in v.hs_size_increase} = {I(x)}
    <3> HIDE DEF I
    <3> QED OBVIOUS
  <2>2. v.hs_size_increase = {} => {I(y) : y \in v.hs_size_increase} = {}
    OBVIOUS
  <2>3. One(v.hs_size_increase)
    BY DEF TameView
  <2> QED BY <1>2, <2>1, <2>2, <2>3, Zenon DEF Increasing
<1>6. IsSequence(Inserting(v))
  <2>1. PICK S : v.new_hashes \in Seq(S)
    BY DEF TameView
  <2>2. Inserting(v) \in Seq({Insert(h) : h \in S})
    BY <2>1 DEF Inserting
  <2> QED BY <2>2 DEF IsSequence
<1>7. IsSequence(Clearing(v))
  <2>1. \A x : v.hs_clear_threshold = {x} => {Clear(y) : y \in v.hs_clear_threshold} = {Clear(x)}
    OBVIOUS
  <2>2. v.hs_clear_threshold = {} => {Clear(y) : y \in v.hs_clear_threshold} = {}
    OBVIOUS
  <2>3. One(v.hs_clear_threshold)
    BY DEF TameView
  <2> QED BY <1>2, <2>1, <2>2, <2>3, Zenon DEF Clearing
<1>8. IsSequence(Deleting(v))
  BY <1>1, Zenon DEF Deleting
<1>9. v.delta = {}
  BY Deltaless DEF TameView
<1>10. GetDeltas(v) = IF ~v.is_deleted /\ v.current = NoObject THEN <<>>
                      ELSE Writing(v) \o Adding(v) \o Increasing(v) \o Inserting(v)
                             \o Clearing(v) \o <<>> \o Deleting(v)
  BY <1>9, Segments
<1>11. IsSequence(Writing(v) \o Adding(v))
  BY <1>3, <1>4, SequenceJoined
<1>12. IsSequence(Writing(v) \o Adding(v) \o Increasing(v))
  BY <1>5, <1>11, SequenceJoined
<1>13. IsSequence(Writing(v) \o Adding(v) \o Increasing(v) \o Inserting(v))
  BY <1>6, <1>12, SequenceJoined
<1>14. IsSequence(Writing(v) \o Adding(v) \o Increasing(v) \o Inserting(v) \o Clearing(v))
  BY <1>7, <1>13, SequenceJoined
<1>15. IsSequence(Writing(v) \o Adding(v) \o Increasing(v) \o Inserting(v) \o Clearing(v) \o <<>>)
  BY <1>1, <1>14, SequenceJoined
<1>16. IsSequence(Writing(v) \o Adding(v) \o Increasing(v) \o Inserting(v) \o Clearing(v) \o <<>> \o Deleting(v))
  BY <1>8, <1>15, SequenceJoined
<1> QED BY <1>1, <1>10, <1>16

\* The deltas of a call on a key are a sequence.
LEMMA CallDeltas ==
  ASSUME StateSound, NEW call, CallOK(call), NEW x \in Run(call), NEW key
  PROVE  IsSequence(DeltasOn(x, key))
<1>1. Tame(x)
  BY RunFacts
<1>2. key \in DOMAIN x => IsSequence(GetDeltas(x[key]))
  BY <1>1, TameDeltas DEF Tame
<1>3. IsSequence(<<>>)
  <2>1. <<>> \in Seq({})
    OBVIOUS
  <2> QED BY <2>1 DEF IsSequence
<1> QED BY <1>2, <1>3 DEF DeltasOn

-----------------------------------------------------------------------------
(* Blocks                                                                  *)

Touched(contexts) == UNION {DOMAIN contexts[i] : i \in DOMAIN contexts}

\* What a block leaves at a key.
LEMMA AfterBlock ==
  ASSUME NEW block, NEW contexts, ExecBlock(block, contexts), NEW key
  PROVE  At(key)' = IF key \in Touched(contexts)
                    THEN Outcome(At(key), BlockDeltas(contexts, key), DOMAIN BlockDeltas(contexts, key))
                    ELSE At(key)
<1> DEFINE touched == Touched(contexts)
           D == [k \in touched |-> BlockDeltas(contexts, k)]
           after == [k \in touched \cup DOMAIN committed |->
                       IF k \in touched THEN Outcome(At(k), D[k], DOMAIN D[k]) ELSE committed[k]]
<1>1. committed' = [k \in {j \in DOMAIN after : after[j] # NoObject} |-> after[k]]
  BY Zenon DEF ExecBlock, Touched
<1>2. /\ DOMAIN after = touched \cup DOMAIN committed
      /\ \A k \in touched : after[k] = Outcome(At(k), BlockDeltas(contexts, k), DOMAIN BlockDeltas(contexts, k))
      /\ \A k \in DOMAIN committed : k \notin touched => after[k] = committed[k]
  OBVIOUS
<1>3. /\ DOMAIN committed' = {j \in DOMAIN after : after[j] # NoObject}
      /\ \A k \in DOMAIN committed' : committed'[k] = after[k]
  <2> HIDE DEF after
  <2> QED BY <1>1
<1> HIDE DEF after, touched
<1>4. At(key)' = IF key \in DOMAIN after THEN after[key] ELSE NoObject
  BY <1>3 DEF At
<1>5. CASE key \in touched
  BY <1>2, <1>4, <1>5 DEF touched
<1>6. CASE key \notin touched
  <2>1. At(key)' = IF key \in DOMAIN committed THEN committed[key] ELSE NoObject
    BY <1>2, <1>4, <1>6
  <2> QED BY <1>6, <2>1 DEF At, touched
<1> QED BY <1>5, <1>6

\* What all blocks keep: a payment that was executed is in the replay cache
\* until it expires.
PaidOnce(k) ==
    /\ executed[k] \in {0, 1}
    /\ executed[k] = 1 => PaidHash(k) \in Hashes(At(Replays)) \/ k.expiration_time < height

BlocksInv ==
    /\ StateSound
    /\ height \in Nat
    /\ doubled = {}
    /\ scene \in DOMAIN Calls
    /\ DOMAIN executed \subseteq Calls[scene]
    /\ \A k \in DOMAIN executed : k.method = "transfer" => PaidOnce(k)

\* A block of calls that have run.
Runs(block, contexts) ==
    \/ block = <<>> /\ contexts = <<>>
    \/ \E k, x : block = <<k>> /\ contexts = <<x>> /\ k \in Calls[scene] /\ x \in Run(k)
    \/ \E k, x, l, y : /\ block = <<k, l>> /\ contexts = <<x, y>>
                       /\ k \in Calls[scene] /\ x \in Run(k)
                       /\ l \in Calls[scene] /\ y \in Run(l)

\* What is used of it.
RunsWell(block, contexts) ==
    /\ DOMAIN block \in {{}, {1}, {1, 2}}
    /\ \A key \in Touched(contexts) : IsFiniteSet(DOMAIN BlockDeltas(contexts, key))
    /\ ReplayBlock(block, BlockDeltas(contexts, Replays))
    /\ \A j \in DOMAIN block : block[j].method = "transfer" => Replays \in Touched(contexts)

\* The calls of a scene have the fields that the contracts read.
LEMMA CallsOK ==
  ASSUME scene \in DOMAIN Calls, NEW k \in Calls[scene]
  PROVE  CallOK(k) /\ (k.method = "transfer" => k.expiration_time \in Nat)
BY ContractsAssumption DEF CallOK

\* What is used of the calls of a block: their deltas, their guards, their
\* payments.
LEMMA RunningWell ==
  ASSUME BlocksInv, NEW block, NEW contexts, Runs(block, contexts)
  PROVE  RunsWell(block, contexts)
<1>0. StateSound /\ height \in Nat /\ scene \in DOMAIN Calls
  BY DEF BlocksInv
<1>1. ASSUME NEW k \in Calls[scene], NEW x \in Run(k)
      PROVE  /\ Replaying(k, DeltasOn(x, Replays))
             /\ \A key : IsSequence(DeltasOn(x, key))
             /\ k.method = "transfer" => Replays \in DOMAIN x
  <2>1. CallOK(k)
    BY <1>0, CallsOK
  <2> QED BY <1>0, <2>1, CallReplays, CallDeltas, RunFacts
<1>2. CASE block = <<>> /\ contexts = <<>>
  <2>1. DOMAIN block = {} /\ Touched(contexts) = {}
    BY <1>2 DEF Touched
  <2>2. BlockDeltas(contexts, Replays) = <<>>
    BY <1>2, BlockOf
  <2>3. ReplayBlock(<<>>, <<>>)
    BY DEF ReplayBlock
  <2> QED BY <1>2, <2>1, <2>2, <2>3 DEF RunsWell
<1>3. ASSUME NEW k \in Calls[scene], NEW x \in Run(k), block = <<k>>, contexts = <<x>>
      PROVE  RunsWell(block, contexts)
  <2>1. DOMAIN block = {1} /\ block[1] = k
    BY <1>3
  <2>5. Touched(contexts) = DOMAIN x
    <3>1. DOMAIN contexts = {1} /\ contexts[1] = x
      BY <1>3
    <3> QED BY <3>1 DEF Touched
  <2>2. \A key : BlockDeltas(contexts, key) = DeltasOn(x, key)
    BY <1>3, BlockOf
  <2>3. ReplayBlock(block, BlockDeltas(contexts, Replays))
    BY <1>1, <1>3, <2>2, BlockReplays
  <2>4. \A key : IsFiniteSet(DOMAIN BlockDeltas(contexts, key))
    BY <1>1, <2>2, SequenceJoined
  <2> QED BY <1>1, <2>1, <2>3, <2>4, <2>5 DEF RunsWell
<1>4. ASSUME NEW k \in Calls[scene], NEW x \in Run(k), NEW l \in Calls[scene], NEW y \in Run(l),
             block = <<k, l>>, contexts = <<x, y>>
      PROVE  RunsWell(block, contexts)
  <2>1. DOMAIN block = {1, 2} /\ block[1] = k /\ block[2] = l
    BY <1>4
  <2>5. Touched(contexts) = DOMAIN x \cup DOMAIN y
    <3>1. DOMAIN contexts = {1, 2} /\ contexts[1] = x /\ contexts[2] = y
      BY <1>4
    <3> QED BY <3>1 DEF Touched
  <2>2. \A key : BlockDeltas(contexts, key) = DeltasOn(x, key) \o DeltasOn(y, key)
    BY <1>4, BlockOf
  <2>3. ReplayBlock(block, BlockDeltas(contexts, Replays))
    BY <1>1, <1>4, <2>2, BlockReplays
  <2>4. ASSUME NEW key PROVE IsFiniteSet(DOMAIN BlockDeltas(contexts, key))
    <3>1. IsSequence(DeltasOn(x, key)) /\ IsSequence(DeltasOn(y, key))
      BY <1>1
    <3>2. IsSequence(BlockDeltas(contexts, key))
      BY <2>2, <3>1, SequenceJoined
    <3> QED BY <3>2, SequenceJoined
  <2> QED BY <1>1, <2>1, <2>3, <2>4, <2>5 DEF RunsWell
<1> QED BY <1>2, <1>3, <1>4 DEF Runs

\* Two takes of one key sum to -2 on a base of 1: the block is refused.
LEMMA NothingDoubled ==
  ASSUME BlocksInv, NEW block, NEW contexts, Runs(block, contexts), ExecBlock(block, contexts)
  PROVE  doubled' = {}
<1>0. StateSound /\ height \in Nat /\ scene \in DOMAIN Calls
  BY DEF BlocksInv
<1> DEFINE Who(g) == {i \in DOMAIN block : g \in Guarded(block[i])}
<1>1. doubled' = {g \in UNION {Guarded(block[i]) : i \in DOMAIN block} : Cardinality(Who(g)) > 1}
  BY Zenon DEF ExecBlock
<1>2. SUFFICES ASSUME NEW g, Cardinality(Who(g)) > 1 PROVE FALSE
  <2> HIDE DEF Who
  <2> QED BY <1>1
<1>3. \A T : T = {} => Cardinality(T) = 0
  BY FS_EmptySet
<1>4. \A T, i : T = {i} => Cardinality(T) = 1
  BY FS_Singleton
<1>5. PICK k, x, l, y : /\ block = <<k, l>> /\ contexts = <<x, y>>
                        /\ k \in Calls[scene] /\ x \in Run(k)
                        /\ l \in Calls[scene] /\ y \in Run(l)
  <2>1. CASE block = <<>> /\ contexts = <<>>
    <3>1. Who(g) = {}
      BY <2>1
    <3> HIDE DEF Who
    <3>2. Cardinality(Who(g)) = 0
      BY <1>3, <3>1
    <3> QED BY <1>2, <3>2
  <2>2. CASE \E k, x : block = <<k>> /\ contexts = <<x>> /\ k \in Calls[scene] /\ x \in Run(k)
    <3>1. DOMAIN block = {1}
      BY <2>2
    <3>2. Who(g) = {} \/ Who(g) = {1}
      BY <3>1
    <3> HIDE DEF Who
    <3>3. Cardinality(Who(g)) = 0 \/ Cardinality(Who(g)) = 1
      BY <1>3, <1>4, <3>2
    <3> QED BY <1>2, <3>3
  <2> QED BY <2>1, <2>2 DEF Runs
<1>6. g \in Guarded(k) /\ g \in Guarded(l)
  <2>1. DOMAIN block = {1, 2} /\ block[1] = k /\ block[2] = l
    BY <1>5
  <2>2. \/ Who(g) = {} \/ Who(g) = {1} \/ Who(g) = {2}
        \/ g \in Guarded(k) /\ g \in Guarded(l)
    BY <2>1
  <2> HIDE DEF Who
  <2>3. Who(g) = {} \/ Who(g) = {1} \/ Who(g) = {2} =>
          Cardinality(Who(g)) = 0 \/ Cardinality(Who(g)) = 1
    BY <1>3, <1>4
  <2> QED BY <1>2, <2>2, <2>3
<1> DEFINE K == GuardKey(g)
<1>7. /\ K \in DOMAIN x /\ Taken(x[K])
      /\ K \in DOMAIN y /\ Taken(y[K])
  <2>1. CallOK(k) /\ CallOK(l)
    BY <1>0, <1>5, CallsOK
  <2> QED BY <1>0, <1>5, <1>6, <2>1, RunFacts
<1> HIDE DEF K
<1> DEFINE D == GetDeltas(x[K]) \o GetDeltas(y[K])
<1>8. BlockDeltas(contexts, K) = D
  <2>1. BlockDeltas(contexts, K) = DeltasOn(x, K) \o DeltasOn(y, K)
    BY <1>5, BlockOf
  <2> QED BY <1>7, <2>1 DEF DeltasOn
<1>9. AdmitsAll(At(K), D)
  <2>1. K \in Touched(contexts)
    <3>1. DOMAIN contexts = {1, 2} /\ contexts[1] = x
      BY <1>5
    <3> QED BY <1>7, <3>1 DEF Touched
  <2>2. \A key \in Touched(contexts) :
          AdmitsAll(At(key), [j \in Touched(contexts) |-> BlockDeltas(contexts, j)][key])
    BY Zenon DEF ExecBlock, Touched
  <2> HIDE DEF D
  <2> QED BY <1>8, <2>1, <2>2
<1>10. \E i \in DOMAIN D : i \in Nat /\ i > 1 /\ 1 \in DOMAIN D /\ D[1] = Take /\ D[i] = Take
  BY <1>7, TakenTwice
<1> HIDE DEF D
<1> QED BY <1>9, <1>10, TwoRefused

\* A block executes a payment only if the replay cache does not have it, and then
\* puts it there until it expires.
LEMMA PayingStep ==
  ASSUME BlocksInv, NEW block, NEW contexts, RunsWell(block, contexts), ExecBlock(block, contexts),
         NEW k \in DOMAIN executed, k.method = "transfer"
  PROVE  PaidOnce(k)'
<1>0. height \in Nat /\ PaidOnce(k)
  BY DEF BlocksInv
<1>1. k.expiration_time \in Nat
  BY CallsOK DEF BlocksInv
<1> DEFINE D == BlockDeltas(contexts, Replays)
           o == At(Replays)
           h == PaidHash(k)
           Who == {i \in DOMAIN block : block[i] = k}
           touched == Replays \in Touched(contexts)
<1>2. /\ executed'[k] = executed[k] + Cardinality(Who)
      /\ height' = height + 1
  BY DEF ExecBlock
<1>3. At(Replays)' = IF touched THEN Outcome(o, D, DOMAIN D) ELSE o
  BY AfterBlock, Zenon
<1>4. h.index = k.expiration_time
  BY DEF PaidHash
<1>5. /\ ReplayBlock(block, D)
      /\ \A j \in DOMAIN block : block[j] = k => touched
  BY DEF RunsWell
<1>6. touched => AdmitsAll(o, D)
  <2>1. \A key \in Touched(contexts) :
          AdmitsAll(At(key), [j \in Touched(contexts) |-> BlockDeltas(contexts, j)][key])
    BY Zenon DEF ExecBlock, Touched
  <2> QED BY <2>1
<1>7. PaidHash(k)' = h
  BY DEF PaidHash
<1> HIDE DEF D, o, h, touched
<1>8. ASSUME NEW j \in Who PROVE executed[k] = 0 /\ \E i \in DOMAIN D : D[i] = Insert(h)
  <2>1. touched /\ block[j] = k /\ j \in DOMAIN block
    BY <1>5, <1>8
  <2>2. ~(k.expiration_time < height) /\ \E i \in DOMAIN D : D[i] = Insert(h)
    BY <1>5, <2>1 DEF ReplayBlock, h
  <2>3. h \notin Hashes(o)
    BY <1>5, <1>6, <2>1, <2>2, ReplayRefused DEF ReplayBlock
  <2> QED BY <1>0, <2>2, <2>3 DEF PaidOnce, h, o
<1>9. ASSUME NEW i \in Who, NEW j \in Who, i # j PROVE FALSE
  <2>1. touched /\ block[i] = k /\ block[j] = k /\ i \in DOMAIN block /\ j \in DOMAIN block
    BY <1>5, <1>9
  <2>2. \E m, n \in DOMAIN D : m < n /\ D[m] = Insert(h) /\ D[n] = D[m]
    BY <1>5, <1>9, <2>1 DEF ReplayBlock, h
  <2> QED BY <1>5, <1>6, <2>1, <2>2, ReplayRefused DEF ReplayBlock
<1>10. Who = {} \/ \E j : Who = {j}
  <2> HIDE DEF Who
  <2> QED BY <1>9
\* what is in the cache or comes into it, and has not expired
<1>11. ASSUME h \in Hashes(o) \/ \E i \in DOMAIN D : D[i] = Insert(h),
              touched \/ h \in Hashes(o)
       PROVE  h \in Hashes(At(Replays)') \/ k.expiration_time < height'
  <2>1. CASE k.expiration_time < height + 1
    BY <1>2, <2>1
  <2>2. CASE k.expiration_time > height
    <3>1. CASE touched
      <4>1. h \in Hashes(Outcome(o, D, DOMAIN D))
        BY <1>0, <1>1, <1>4, <1>5, <1>11, <2>2, ReplayKept
      <4> QED BY <1>3, <3>1, <4>1
    <3>2. CASE ~touched
      BY <1>3, <1>11, <3>2
    <3> QED BY <3>1, <3>2
  <2> QED BY <1>0, <1>1, <2>1, <2>2
<1>12. Hashes(At(Replays))' = Hashes(At(Replays)')
  BY DEF Hashes
<1>13. CASE Who = {}
  <2>1. executed'[k] = executed[k]
    <3>1. Cardinality(Who) = 0
      BY <1>13, FS_EmptySet
    <3> QED BY <1>0, <1>2, <3>1 DEF PaidOnce
  <2>2. ASSUME executed[k] = 1 PROVE h \in Hashes(At(Replays)') \/ k.expiration_time < height'
    <3>1. CASE h \in Hashes(o)
      BY <1>11, <3>1
    <3>2. CASE k.expiration_time < height
      BY <1>0, <1>1, <1>2, <3>2
    <3> QED BY <1>0, <2>2, <3>1, <3>2 DEF PaidOnce, h, o
  <2> QED BY <1>0, <1>7, <1>12, <2>1, <2>2 DEF PaidOnce
<1>14. CASE \E j : Who = {j}
  <2>0. PICK j : Who = {j}
    BY <1>14
  <2>1. Cardinality(Who) = 1
    BY <2>0, FS_Singleton
  <2>2. executed[k] = 0 /\ (\E i \in DOMAIN D : D[i] = Insert(h)) /\ touched
    BY <1>5, <1>8, <2>0
  <2>3. executed'[k] = 1
    BY <1>2, <2>1, <2>2
  <2>4. h \in Hashes(At(Replays)') \/ k.expiration_time < height'
    BY <1>11, <2>2
  <2> QED BY <1>7, <1>12, <2>3, <2>4 DEF PaidOnce
<1> QED BY <1>10, <1>13, <1>14

\* A block keeps the invariant.
LEMMA BlockStep ==
  ASSUME BlocksInv, NEW block, NEW contexts, Runs(block, contexts), ExecBlock(block, contexts)
  PROVE  BlocksInv'
<1>0. RunsWell(block, contexts)
  BY RunningWell
<1>1. StateSound'
  <2>1. SUFFICES ASSUME NEW key \in DOMAIN committed' PROVE Sound(committed'[key])
    BY DEF StateSound
  <2>2. Sound(At(key))
    BY DEF BlocksInv, StateSound, At, Sound, NoObject
  <2>3. committed'[key] = At(key)'
    BY <2>1 DEF At
  <2>4. CASE key \in Touched(contexts)
    <3>1. IsFiniteSet(DOMAIN BlockDeltas(contexts, key))
      BY <1>0, <2>4 DEF RunsWell
    <3>2. Sound(Outcome(At(key), BlockDeltas(contexts, key), DOMAIN BlockDeltas(contexts, key)))
      BY <2>2, <3>1, SoundOutcome
    <3> QED BY <2>3, <2>4, <3>2, AfterBlock
  <2>5. CASE key \notin Touched(contexts)
    BY <2>2, <2>3, <2>5, AfterBlock
  <2> QED BY <2>4, <2>5
<1>2. doubled' = {}
  BY NothingDoubled
<1>3. height' = height + 1 /\ scene' = scene /\ DOMAIN executed' = DOMAIN executed
  BY DEF ExecBlock
<1>4. \A k \in DOMAIN executed' : k.method = "transfer" => PaidOnce(k)'
  BY <1>0, <1>3, PayingStep
<1>5. (\A k \in DOMAIN executed : k.method = "transfer" => PaidOnce(k))'
  BY <1>4
<1> QED BY <1>1, <1>2, <1>3, <1>5 DEF BlocksInv

\* Every step does.
LEMMA BlocksKept == ASSUME BlocksInv, BlocksNext PROVE BlocksInv'
<1> DEFINE ran == UNION {{<<k, c>> : c \in Run(k)} : k \in Calls[scene]}
<1>0. \A p \in ran : p[1] \in Calls[scene] /\ p[2] \in Run(p[1])
  OBVIOUS
<1>1. \/ ExecBlock(<<>>, <<>>)
      \/ \E x \in ran : ExecBlock(<<x[1]>>, <<x[2]>>)
      \/ \E x, y \in ran : ExecBlock(<<x[1], y[1]>>, <<x[2], y[2]>>)
  BY Zenon DEF BlocksNext
<1> HIDE DEF ran
<1>2. CASE ExecBlock(<<>>, <<>>)
  <2>1. Runs(<<>>, <<>>)
    BY DEF Runs
  <2> QED BY <1>2, <2>1, BlockStep
<1>3. ASSUME NEW x \in ran, ExecBlock(<<x[1]>>, <<x[2]>>) PROVE BlocksInv'
  <2>1. Runs(<<x[1]>>, <<x[2]>>)
    BY <1>0, Zenon DEF Runs
  <2> QED BY <1>3, <2>1, BlockStep
<1>4. ASSUME NEW x \in ran, NEW y \in ran, ExecBlock(<<x[1], y[1]>>, <<x[2], y[2]>>) PROVE BlocksInv'
  <2>1. Runs(<<x[1], y[1]>>, <<x[2], y[2]>>)
    BY <1>0, Zenon DEF Runs
  <2> QED BY <1>4, <2>1, BlockStep
<1> QED BY <1>1, <1>2, <1>3, <1>4

\* The invariant holds of the storage that a scene starts with.
LEMMA BlocksStart == BlocksInit => BlocksInv
<1> SUFFICES ASSUME BlocksInit PROVE BlocksInv
  OBVIOUS
<1>1. StateSound
  <2>1. SUFFICES ASSUME NEW key \in DOMAIN committed PROVE Sound(committed[key])
    BY DEF StateSound
  <2>2. IsObject(committed[key])
    BY <2>1, ContractsAssumption DEF BlocksInit
  <2> QED BY <2>2 DEF IsObject, Sound, NoObject
<1>2. \A k \in DOMAIN executed : k \in Calls[scene] /\ executed[k] = 0
  BY DEF BlocksInit
<1>3. \A k \in DOMAIN executed : PaidOnce(k)
  BY <1>2 DEF PaidOnce
<1> QED BY <1>1, <1>2, <1>3 DEF BlocksInit, BlocksInv

\* It holds in every state.
LEMMA BlocksAlways == BlocksSpec => []BlocksInv
<1>1. BlocksInv /\ UNCHANGED block_vars => BlocksInv'
  BY DEF BlocksInv, block_vars, StateSound, PaidOnce, At
<1> QED BY <1>1, BlocksStart, BlocksKept, PTL DEF BlocksSpec

\* A payment that the owner of a wallet signed is executed once at most: the
\* replay cache holds it until it has expired, and what has expired is refused.
THEOREM NoPaymentTwice == BlocksSpec => []NoReplay
<1>1. BlocksInv => NoReplay
  BY DEF BlocksInv, PaidOnce, NoReplay
<1> QED BY <1>1, BlocksAlways, PTL

\* Two calls that take the same semaphore or flag are never in one block: the
\* deltas by which each takes it leave less than none when both commit.
THEOREM GuardsExclude == BlocksSpec => []OncePerBlock
<1>1. BlocksInv => OncePerBlock
  BY DEF BlocksInv, OncePerBlock
<1> QED BY <1>1, BlocksAlways, PTL
=============================================================================
