---------------------------- MODULE MCDatabases ----------------------------
(***************************************************************************)
(* Transactions over two keys and one new contract.                        *)
(***************************************************************************)
EXTENDS Databases

Write(k, v) == [key |-> k, delta |-> [type |-> "RAW_MEMORY_WRITE", data |-> v]]
Delete(k) == [key |-> k, delta |-> [type |-> "DELETE_LAST"]]
Tx(reads, deltas, creates, deploys) ==
    [reads |-> reads, deltas |-> deltas, creates |-> creates, deploys |-> deploys]
Nonce(h, n) == [hash |-> h, nonce |-> n]

\* Writes that conflict, one that fails after its first delta, a deletion and
\* a reader; a contract that is created and deployed, and deployed again.
MCTxs ==
    {Tx({}, <<Write("a", 1)>>, {}, {}),
     Tx({}, <<Write("b", 1), Write("a", 2)>>, {}, {}),
     Tx({"b"}, <<Delete("a")>>, {}, {}),
     Tx({}, <<>>, {"c"}, {Nonce("c", 0)}),
     Tx({}, <<>>, {}, {Nonce("c", 1)})}
=============================================================================
