-------------------------- MODULE MCRevertableBase --------------------------
(* Instances of RevertableBase for TLC.                                    *)
EXTENDS RevertableBase, TLC

CONSTANTS a, c

MCTypes == {"raw", "int"}
MCTypeOf == (a :> "int") @@ (c :> "raw")

\* The reservations differ only in name, so they are named by the order in
\* which a round makes them.
InOrder == \A o \in Ops :
    pc[o] = "idle" /\ pc'[o] # "idle" => \A x \in Ops : x < o => pc[x] # "idle"
OrderedSpec ==
    Init /\ [][Next /\ InOrder]_vars /\ \A o \in Ops : WF_vars(CallStep(o))
=============================================================================
