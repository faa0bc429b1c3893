------------------------------ MODULE MCBlock ------------------------------
(***************************************************************************)
(* Small programs over two or three keys.  Two Groundhog machines exchange *)
(* blocks, and a Sisyphus machine executes blocks from elsewhere.          *)
(***************************************************************************)
EXTENDS Block, TLC

CONSTANTS n1, n2, n3

Add(key, d) == [key |-> key, op |-> "add", d |-> d]
SetAdd(key, v, d) == [key |-> key, op |-> "set_add", set_value |-> v, d |-> d]
Write(key, v) == [key |-> key, op |-> "write", data |-> v]
Insert(key, h) == [key |-> key, op |-> "insert", hash |-> h]
Delete(key) == [key |-> key, op |-> "delete"]
Does(reads, writes) == [reads |-> reads, writes |-> writes]

IntObject(v) == [type |-> "NONNEGATIVE_INT64", value |-> v]
HashSet(S, n) == [type |-> "HASH_SET", hashes |-> S, max_size |-> n]
Elem(i) == [index |-> i, hash |-> i]

\* Payments between two accounts, and writes to a third key that conflict.
PayProgram ==
    <<Does({}, <<Add("a", -2), Add("b", 2)>>),
      Does({"c"}, <<Add("a", -1), Add("b", 1)>>),
      Does({}, <<Add("a", 1), Add("b", -1), Write("c", 1)>>),
      Does({}, <<Add("b", -1), Write("c", 2)>>),
      Does({"a"}, <<Delete("c")>>),
      Does({}, <<SetAdd("a", 1, -1), Write("c", 1)>>)>>
PayGenesis == [n \in {n1, n2} |-> ("a" :> IntObject(2)) @@ ("b" :> IntObject(1)) @@ ("c" :> NoObject)]
PayPools ==
    {<<1, 2, 3>>, <<2, 2, 4>>, <<3, 5, 4>>, <<1, 3, 3>>, <<6, 4, 2>>, <<6, 1, 5>>}

\* Transactions that use up a replay cache, and blocks that may not execute.
ReplayProgram ==
    <<Does({}, <<Insert("a", Elem(1)), Add("b", -1)>>),
      Does({}, <<Insert("a", Elem(2)), Add("b", -1)>>),
      Does({}, <<SetAdd("b", 1, 1), Insert("c", Elem(1))>>)>>
ReplayGenesis == [n \in {n3} |-> ("a" :> HashSet({}, 2)) @@ ("b" :> IntObject(1)) @@ ("c" :> NoObject)]
Foreign(tx, n, unused) == [tx |-> tx, n |-> n, unused |-> unused]
ReplayBlocks ==
    {<<Foreign(1, 1, FALSE), Foreign(2, 1, FALSE)>>,
     <<Foreign(1, 2, FALSE), Foreign(3, 1, FALSE)>>,
     <<Foreign(1, 1, FALSE), Foreign(2, 1, FALSE), Foreign(3, 1, FALSE)>>,
     <<Foreign(2, 1, FALSE), Foreign(3, 1, TRUE)>>,
     <<Foreign(2, 1, TRUE)>>}

\* The two together: a behaviour is about the machines it begins with.
AllProgram == PayProgram \o ReplayProgram
AllGenesis == PayGenesis @@ ReplayGenesis
LateBlocks == {[i \in DOMAIN b |-> [b[i] EXCEPT !.tx = @ + Len(PayProgram)]] : b \in ReplayBlocks}
SameMachines ==
    /\ (at \in Sisyphus) <=> (at' \in Sisyphus)
    /\ stage = "idle" /\ stage' = "validating" /\ offer = NoOffer => at' \in Sisyphus
    /\ stage' = "assembling" => at' \notin Sisyphus

\* Threads differ only in name: the first one that is idle takes the work.
InOrder == \A t, x \in Threads :
    x < t /\ th[t].pc = "idle" /\ th'[t].pc # "idle" => th[x].pc # "idle"

MCSpec == Init /\ [][Next /\ SameMachines /\ InOrder]_vars
            /\ WF_vars(Progress /\ InOrder)
=============================================================================
