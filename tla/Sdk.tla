-------------------------------- MODULE Sdk --------------------------------
(***************************************************************************)
(* What contracts are written with: the storage calls of cpp_contracts/sdk *)
(* and the token, erc20, that nearly all of them hold.                     *)
(*                                                                         *)
(* A transaction makes one call.  A method is an operator from contexts to *)
(* contexts, where a context maps the keys it has looked at to their       *)
(* views.  The argument and the result are sets of contexts: the empty set *)
(* is a transaction that has aborted, and there is more than one only      *)
(* where the code leaves a value undefined.  A hash is what it is the hash *)
(* of, so storage keys are tuples.                                         *)
(***************************************************************************)
EXTENDS StorageView

CONSTANTS HashRank(_)      \* the order of hashes

VARIABLES committed,       \* the committed objects
          height,          \* block_number
          needs_allowance  \* if the owner of tokens does: so it is in erc20.cc

At(key) == IF key \in DOMAIN committed THEN committed[key] ELSE NoObject

-----------------------------------------------------------------------------
(* sdk                                                                     *)

ViewOf(c, key) == IF key \in DOMAIN c THEN c[key] ELSE Fresh(At(key))
Object(c, key) == IF ViewOf(c, key).is_deleted THEN NoObject ELSE ViewOf(c, key).current

Put(c, key, v) == [k \in DOMAIN c \cup {key} |-> IF k = key THEN v ELSE c[k]]
Syscall(C, key, op(_)) == UNION {{Put(c, key, v) : v \in op(ViewOf(c, key))} : c \in C}

int64_add(C, key, d) == Syscall(C, key, LAMBDA v : nonnegative_int64_add(v, d))
int64_set_add(C, key, n, d) == Syscall(C, key, LAMBDA v : TryApply(v, SetAdd(n, d)))
set_raw_memory(C, key, value) == Syscall(C, key, LAMBDA v : TryApply(v, Write(value)))
hashset_insert(C, key, h, n) ==
    Syscall(C, key, LAMBDA v : TryApply(v, Insert([index |-> n, hash |-> h])))
hashset_increase(C, key, n) == Syscall(C, key, LAMBDA v : hashset_increase_limit(v, n))
hashset_clear(C, key, n) == Syscall(C, key, LAMBDA v : TryApply(v, Clear(n)))
delete_last(C, key) == Syscall(C, key, LAMBDA v : TryApply(v, DeleteLast))

has_key(c, key) == Object(c, key) # NoObject
int64_get(c, key) == IF has_key(c, key) THEN Object(c, key).value ELSE 0

\* if (!condition) abort();
Require(C, condition(_)) == {c \in C : condition(c)}
\* get_raw_memory: what follows is given the value that is there.
get_raw_memory(C, key, Then(_, _)) ==
    UNION {Then({c}, Object(c, key).value) : c \in Require(C, LAMBDA c : has_key(c, key))}

\* The elements of a hash set in their order, the greatest first.
Ahead(g, h) == \/ g.index > h.index
               \/ g.index = h.index /\ HashRank(g.hash) > HashRank(h.hash)
Sorted(S) ==
    [i \in 1 .. Cardinality(S) |-> CHOOSE h \in S : Cardinality({g \in S : Ahead(g, h)}) = i - 1]
Entries(c, key) == Sorted(Hashes(Object(c, key)))

\* Mutant of acquire_semaphore: one too many.
acquire_semaphore_Wider(C, key, count) == int64_set_add(C, key, count + 1, -1)

\* Semaphore::acquire
acquire_semaphore(C, key, count) == int64_set_add(C, key, count, -1)
\* TransientSemaphore::acquire, and its destructor
acquire_transient(C, key) == delete_last(acquire_semaphore(C, key, 1), key)
\* UniqueFlag::acquire
acquire_flag(C, key) ==
    int64_set_add(UNION {IF has_key(c, key) THEN {c} ELSE int64_set_add({c}, key, 1, 0) : c \in C},
                  key, 1, -1)

\* Mutant of record_self_replay: the cache forgets one block too early.
record_self_replay_Forgets(C, self, hash, expiration_time) ==
    IF expiration_time < height THEN {}
    ELSE hashset_clear(hashset_insert(C, <<self, "replay_cache">>, hash, expiration_time),
                       <<self, "replay_cache">>, height + 1)

record_self_replay(C, self, hash, expiration_time) ==
    IF expiration_time < height THEN {}
    ELSE hashset_clear(hashset_insert(C, <<self, "replay_cache">>, hash, expiration_time),
                       <<self, "replay_cache">>, height)

\* auth_single_pk_check_sig: a key is named by who has it.
auth_single_pk_check_sig(C, self, signer) ==
    get_raw_memory(C, <<self, "pk">>, LAMBDA D, pk : IF signer = pk THEN D ELSE {})

-----------------------------------------------------------------------------
(* erc20                                                                   *)

Balance(token, a) == <<token, "balance", a>>
Allowance(token, owner, auth) == <<token, "allowance", owner, auth>>
TotalSupply(token) == <<token, "total_supply">>

transfer(C, token, from, to, amount) ==
    IF amount < 0 THEN {}
    ELSE int64_add(int64_add(C, Balance(token, from), -amount), Balance(token, to), amount)

allowance_delta(C, token, owner, auth, amount) ==
    int64_add(C, Allowance(token, owner, auth), amount)

\* A contract is told the address of its token, which may be another one than
\* erc20.cc.  Tokens differ in whether their owner needs an allowance.
transferFrom(C, token, sender, from, to, amount) ==
    transfer(IF sender = from /\ ~needs_allowance THEN C
             ELSE allowance_delta(C, token, from, sender, -amount), token, from, to, amount)

mint(C, token, to, amount) ==
    IF amount < 0 THEN {}
    ELSE int64_add(int64_add(C, Balance(token, to), amount), TotalSupply(token), amount)

initialize_token(C, token, owner) == set_raw_memory(C, <<token, "owner">>, owner)
set_metadata(C, token, sender, metadata) ==
    get_raw_memory(C, <<token, "owner">>, LAMBDA D, owner :
        IF sender = owner THEN set_raw_memory(D, <<token, "metadata">>, metadata) ELSE {})

RunToken(C, call) ==
    CASE call.method = "allowanceDelta" ->
            allowance_delta(C, call.token, call.sender, call.account, call.amount)
      [] call.method = "transferFrom" ->
            transferFrom(C, call.token, call.sender, call.from, call.to, call.amount)
      [] call.method = "mint" -> mint(C, call.token, call.to, call.amount)
      [] call.method = "initialize" -> initialize_token(C, call.token, call.owner)
      [] call.method = "set_metadata" -> set_metadata(C, call.token, call.sender, call.metadata)
      [] OTHER -> {}
=============================================================================
