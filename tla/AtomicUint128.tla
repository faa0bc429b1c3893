--------------------------- MODULE AtomicUint128 ---------------------------
(***************************************************************************)
(* AtomicUint128 (utils/atomic_uint128.h): the 128-bit sum of the additions*)
(* that a block makes to an integer object, kept in two 64-bit words.  add *)
(* and sub change the low word and then, when it wrapped, the high word in *)
(* a step of its own; the two words are read only behind a barrier, when   *)
(* no call is running.                                                     *)
(***************************************************************************)
EXTENDS Integers, FiniteSets, FiniteSetsExt

CONSTANTS Adds,      \* the additions
          Word,     \* 2^64
          Amounts   \* what they may add

\* Fewer additions than 2^64, each of a 64-bit word: the sum fits in two words.
ASSUME WordAssumption ==
    /\ Word \in Nat \ {0}
    /\ IsFiniteSet(Adds) /\ Cardinality(Adds) <= Word
    /\ Amounts \subseteq 0 .. Word - 1

VARIABLES lowbits, highbits,
          word_pc,        \* idle -> [carry ->] in -> [borrow ->] out
          amount

word_vars == <<lowbits, highbits, word_pc, amount>>

SumInit ==
    /\ lowbits = 0
    /\ highbits = 0
    /\ word_pc = [o \in Adds |-> "idle"]
    /\ amount = [o \in Adds |-> 0]

AddAt(o, l) == word_pc' = [word_pc EXCEPT ![o] = l]

\* Mutant of AddLow: the carry is looked for in the new word.
AddLow_CarryOfSum(o, v) ==
    /\ word_pc[o] = "idle"
    /\ lowbits' = (lowbits + v) % Word
    /\ amount' = [amount EXCEPT ![o] = v]
    /\ AddAt(o, IF lowbits' + v >= Word THEN "carry" ELSE "in")
    /\ UNCHANGED highbits

AddLow(o, v) ==
    /\ word_pc[o] = "idle"
    /\ lowbits' = (lowbits + v) % Word
    /\ amount' = [amount EXCEPT ![o] = v]
    /\ AddAt(o, IF lowbits + v >= Word THEN "carry" ELSE "in")
    /\ UNCHANGED highbits

AddHigh(o) ==
    /\ word_pc[o] = "carry"
    /\ highbits' = (highbits + 1) % Word
    /\ AddAt(o, "in")
    /\ UNCHANGED <<lowbits, amount>>

\* Only what was added is subtracted.
SubLow(o) ==
    /\ word_pc[o] = "in"
    /\ lowbits' = (lowbits - amount[o]) % Word
    /\ AddAt(o, IF lowbits < amount[o] THEN "borrow" ELSE "out")
    /\ UNCHANGED <<highbits, amount>>

SubHigh(o) ==
    /\ word_pc[o] = "borrow"
    /\ highbits' = (highbits - 1) % Word
    /\ AddAt(o, "out")
    /\ UNCHANGED <<lowbits, amount>>

SumQuiescent == \A o \in Adds : word_pc[o] \in {"idle", "in", "out"}

\* Behind the barrier at the end of the block.
SumClear ==
    /\ SumQuiescent
    /\ lowbits' = 0
    /\ highbits' = 0
    /\ word_pc' = [o \in Adds |-> "idle"]
    /\ amount' = [o \in Adds |-> 0]

fetch_cap == IF highbits > 0 THEN Word - 1 ELSE lowbits

SumNext ==
    \/ \E o \in Adds : \/ \E v \in Amounts : AddLow(o, v)
                      \/ AddHigh(o) \/ SubLow(o) \/ SubHigh(o)
    \/ SumClear

SumSpec == SumInit /\ [][SumNext]_word_vars

-----------------------------------------------------------------------------

\* Behind the barrier fetch_cap is the sum of the additions that were not taken
\* back, or UINT64_MAX if that is less: no carry or borrow is lost or seen
\* early, in whatever order they arrive.
BarrierReadsSum ==
    LET sum == SumFunctionOnSet(amount, {o \in Adds : word_pc[o] = "in"})
    IN  SumQuiescent => /\ fetch_cap = Min({sum, Word - 1})
                        /\ highbits * Word + lowbits = sum
=============================================================================
