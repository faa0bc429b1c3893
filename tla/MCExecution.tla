---------------------------- MODULE MCExecution ----------------------------
(***************************************************************************)
(* Two contracts and one that a transaction may deploy.  The first starts  *)
(* with an object of any type, the second with an integer or nothing.      *)
(***************************************************************************)
EXTENDS Execution

Elem(i) == [index |-> i, hash |-> i]
MCObjects ==
    {NoObject,
     [type |-> "NONNEGATIVE_INT64", value |-> 1],
     [type |-> "RAW_MEMORY", value |-> 1],
     [type |-> "KNOWN_SUPPLY_ASSET", value |-> 2],
     [type |-> "HASH_SET", hashes |-> {Elem(1)}, max_size |-> 2]}
MCSetAdds == {<<1, 3>>, <<1, -2>>, <<-1, 1>>}
MCAdds == {-1, 2}
MCElements == {Elem(1), Elem(2)}
=============================================================================
