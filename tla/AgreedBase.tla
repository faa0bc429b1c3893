---------------------------- MODULE AgreedBase ----------------------------
(***************************************************************************)
(* What a RevertableBaseObject promises to the transactions of a block.    *)
(*                                                                         *)
(* During a round (a block) every reservation names the base value that    *)
(* the object must have.  All the reservations that stand at one time name *)
(* the same value; the value is forgotten when the last of them is         *)
(* reverted and nothing was committed, and it is fixed for the rest of the *)
(* round by the first commit.  A reservation may be refused only when some *)
(* other value was the agreed one at a moment of the call.                 *)
(*                                                                         *)
(* Here each operation takes effect in one step.  RevertableBase, which    *)
(* has the loads, the compare-and-swaps and the stores of the code as      *)
(* steps of their own, is shown to implement this specification.           *)
(***************************************************************************)

CONSTANTS Ops,      \* the reservations that a block may make on the object
          Values,   \* the base values (StorageDeltaClass) they may ask for
          NoValue   \* "no agreed value": not one of Values

VARIABLES value,    \* the agreed value, or NoValue
          final,    \* has a reservation been committed in this round?
          st,       \* what became of each reservation
          want,     \* the value each reservation asks for
          seen,     \* the values that were agreed on while it was being tried
          base      \* what the last round made the value of the object

vars == <<value, final, st, want, seen, base>>

Init ==
    /\ value = NoValue
    /\ final = FALSE
    /\ st = [o \in Ops |-> "idle"]
    /\ want = [o \in Ops |-> NoValue]
    /\ seen = [o \in Ops |-> {}]
    /\ base = NoValue

(***************************************************************************)
(* A reservation leaves nothing behind once it is over.                    *)
(***************************************************************************)
Finish(o) ==
    /\ st' = [st EXCEPT ![o] = "done"]
    /\ want' = [want EXCEPT ![o] = NoValue]
    /\ seen' = [seen EXCEPT ![o] = {}]

Begin(o, v) ==
    /\ st[o] = "idle"
    /\ st' = [st EXCEPT ![o] = "trying"]
    /\ want' = [want EXCEPT ![o] = v]
    /\ seen' = [seen EXCEPT ![o] = {value} \ {NoValue}]
    /\ UNCHANGED <<value, final, base>>

Reserve(o) ==
    /\ st[o] = "trying"
    /\ ~final
    /\ value \in {NoValue, want[o]}
    /\ value' = want[o]
    /\ st' = [st EXCEPT ![o] = "held"]
    /\ seen' = [x \in Ops |-> IF x # o /\ st[x] = "trying"
                                THEN seen[x] \cup {want[o]}
                                ELSE IF x = o THEN {} ELSE seen[x]]
    /\ UNCHANGED <<final, want, base>>

\* Once the value is fixed, a reservation that agrees with it needs no undoing.
ReserveFinal(o) ==
    /\ st[o] = "trying"
    /\ final
    /\ value = want[o]
    /\ st' = [st EXCEPT ![o] = "free"]
    /\ seen' = [seen EXCEPT ![o] = {}]
    /\ UNCHANGED <<value, final, want, base>>

Reject(o) ==
    /\ st[o] = "trying"
    /\ \E w \in seen[o] : w # want[o]
    /\ Finish(o)
    /\ UNCHANGED <<value, final, base>>

\* The required type of the object already excludes the value: never tried.
RejectType(o) ==
    /\ st[o] = "idle"
    /\ st' = [st EXCEPT ![o] = "done"]
    /\ UNCHANGED <<value, final, want, seen, base>>

Commit(o) ==
    /\ st[o] = "held"
    /\ final' = TRUE
    /\ Finish(o)
    /\ UNCHANGED <<value, base>>

Revert(o) ==
    /\ st[o] = "held"
    /\ value' = IF ~final /\ \A x \in Ops \ {o} : st[x] # "held"
                  THEN NoValue ELSE value
    /\ Finish(o)
    /\ UNCHANGED <<final, base>>

\* Commit and revert alike: such a reservation changes nothing.
Release(o) ==
    /\ st[o] = "free"
    /\ Finish(o)
    /\ UNCHANGED <<value, final, base>>

(***************************************************************************)
(* The end of a round.  Only a committed value becomes the object's base.  *)
(***************************************************************************)
EndRound(newBase) ==
    /\ \A o \in Ops : st[o] \in {"idle", "done"}
    /\ value' = NoValue
    /\ final' = FALSE
    /\ st' = [o \in Ops |-> "idle"]
    /\ base' = newBase
    /\ UNCHANGED <<want, seen>>

CommitRound == EndRound(IF final THEN value ELSE NoValue)
RewindRound == EndRound(NoValue)

Step(o) ==
    \/ \E v \in Values : Begin(o, v)
    \/ Reserve(o) \/ ReserveFinal(o) \/ Reject(o) \/ RejectType(o)
    \/ Commit(o) \/ Revert(o) \/ Release(o)

Next ==
    \/ \E o \in Ops : Step(o)
    \/ CommitRound
    \/ RewindRound

Spec == Init /\ [][Next]_vars
=============================================================================
