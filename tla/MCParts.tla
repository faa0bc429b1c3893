------------------------------ MODULE MCParts ------------------------------
(***************************************************************************)
(* The three data structures inside an object, each on an instance of its  *)
(* own: a behaviour runs one of them.                                      *)
(*                                                                         *)
(* AtomicSet: elements 1 and 4 start at the same slot of a table of three, *)
(* element 3 at the first one.  AtomicUint128: words of two bits, so that  *)
(* the additions reach several carries.  HashSetUtils: every list of up to *)
(* five elements with three indices.                                       *)
(***************************************************************************)
EXTENDS AtomicSet, HashSetUtils, AtomicUint128

VARIABLE part   \* the structure that runs

all == <<part, vars, search_vars, word_vars>>

MCshorthash(h, c) == h % c

\* The structures that do not run stay as they begin.
SearchIdle ==
    /\ list = <<>> /\ normalized = <<>> /\ threshold = 1
    /\ min = 0 /\ max = 0 /\ med = 0 /\ stage = "sort"

PartsInit ==
    /\ part \in {"set", "search", "sum"}
    /\ Init /\ SumInit
    /\ IF part = "search" THEN SearchInit ELSE SearchIdle
    /\ part # "set" => capacity = 2

\* The additions differ only in name: they are made in order.
InOrder == \A o, x \in Adds :
    x < o /\ word_pc[o] = "idle" /\ word_pc'[o] # "idle" => word_pc[x] # "idle"

RunSet == part = "set" /\ Next /\ UNCHANGED <<part, search_vars, word_vars>>
RunSearch == part = "search" /\ SearchNext /\ UNCHANGED <<part, vars, word_vars>>
RunSum ==
    part = "sum" /\ SumNext /\ InOrder /\ UNCHANGED <<part, vars, search_vars>>

PartsNext == RunSet \/ RunSearch \/ RunSum

PartsSpec ==
    /\ PartsInit
    /\ [][PartsNext]_all
    /\ \A o \in Ops : WF_vars(part = "set" /\ CallStep(o))
    /\ WF_search_vars(part = "search" /\ SearchStep)

\* clear_hashset ends: every search that is made comes to its resize.
SearchEnds == part = "search" => Terminates
=============================================================================
