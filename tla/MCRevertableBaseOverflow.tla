---------------------- MODULE MCRevertableBaseOverflow ----------------------
(* One transaction that makes all its reservations on one object, one      *)
(* after the other, and nothing else in the block: the in-flight count has *)
(* its real width.                                                         *)
EXTENDS RevertableBase

CONSTANT a

MCOps == 1 .. 256
MCUids == 1 .. 600
MCTypes == {"hash_set"}
MCTypeOf == [v \in {a} |-> "hash_set"]

\* StorageProxy::push_deltas_to_statedb: the next delta once the last is held.
InOrder(o) == \A x \in Ops : x < o => pc[x] = "held"
PushNext == \E o \in Ops : InOrder(o) /\ pc[o] # "held" /\ Step(o)
PushSpec == Init /\ [][PushNext]_vars
=============================================================================
