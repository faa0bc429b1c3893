------------------------------ MODULE SlotSet ------------------------------
(***************************************************************************)
(* What an AtomicSet promises to the reservations that insert into it: a   *)
(* set in which every element has at most one owner.  An insertion takes   *)
(* effect in one step, takes a slot for the rest of the round, and is      *)
(* refused only if the element is there or no slot is left.  Only the      *)
(* owner of an element erases it, and always succeeds.                     *)
(***************************************************************************)
CONSTANTS Ops,      \* the reservations
          Entries,  \* the elements (HashSetEntry)
          NoEntry   \* not an element

VARIABLES elements,  \* the set
          used,      \* the slots that were taken in this round
          slots,     \* all the slots
          st,        \* what became of each reservation
          arg        \* its element

vars == <<elements, used, slots, st, arg>>

Init ==
    /\ elements = {}
    /\ used = {}
    /\ st = [o \in Ops |-> "idle"]
    /\ arg = [o \in Ops |-> NoEntry]

Become(o, s) == st' = [st EXCEPT ![o] = s]

MayRefuse(h) == h \in elements \/ used = slots

Begin(o, h) ==
    /\ st[o] = "idle"
    /\ arg' = [arg EXCEPT ![o] = h]
    /\ Become(o, "inserting") \/ (MayRefuse(h) /\ Become(o, "out"))
    /\ UNCHANGED <<elements, used, slots>>

Insert(o) ==
    /\ st[o] = "inserting"
    /\ arg[o] \notin elements
    /\ elements' = elements \cup {arg[o]}
    /\ \E s \in slots \ used : used' = used \cup {s}
    /\ Become(o, "in")
    /\ UNCHANGED <<slots, arg>>

Refuse(o) ==
    /\ st[o] = "inserting"
    /\ MayRefuse(arg[o])
    /\ Become(o, "out")
    /\ UNCHANGED <<elements, used, slots, arg>>

Erase(o) ==
    /\ st[o] = "in"
    /\ arg[o] \in elements
    /\ elements' = elements \ {arg[o]}
    /\ Become(o, "out")
    /\ UNCHANGED <<used, slots, arg>>

\* The next reservation of the same thread, in the same or in a later round.
Again(o) ==
    /\ st[o] = "out"
    /\ Become(o, "idle")
    /\ arg' = [arg EXCEPT ![o] = NoEntry]
    /\ UNCHANGED <<elements, used, slots>>

EndRound ==
    /\ \A o \in Ops : st[o] \in {"idle", "in", "out"}
    /\ elements' = {}
    /\ used' = {}
    /\ slots \subseteq slots'
    /\ st' = [o \in Ops |-> "idle"]
    /\ arg' = [o \in Ops |-> NoEntry]

Next ==
    \/ \E o \in Ops : \/ \E h \in Entries : Begin(o, h)
                      \/ Insert(o) \/ Refuse(o) \/ Erase(o) \/ Again(o)
    \/ EndRound

Spec == Init /\ [][Next]_vars
=============================================================================
