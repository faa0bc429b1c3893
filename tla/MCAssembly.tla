----------------------------- MODULE MCAssembly -----------------------------
(***************************************************************************)
(* Five transactions: one that calls out, one of gas limit 0, one whose    *)
(* gas is over the limit of a transaction.                                 *)
(***************************************************************************)
EXTENDS Assembly

MCGas == <<2, 3, 0, 9, 2>>
MCBatches == {<<1, 2, 3>>, <<5, 4>>}
SmallBatches == {<<1, 2>>, <<3>>}
=============================================================================
