------------------------- MODULE MCRevertableObject -------------------------
(***************************************************************************)
(* The instance of RevertableObject that TLC checks: objects and deltas of *)
(* every type.  INT64_MAX and UINT64_MAX are scaled down to MaxInt and     *)
(* 2 * MaxInt + 1 so that every bound is within reach of a few deltas.     *)
(***************************************************************************)
EXTENDS RevertableObject, TLC

SetAdd(v, d) ==
    [type |-> "NONNEGATIVE_INT64_SET_ADD", set_value |-> v, delta |-> d]
Write(v) == [type |-> "RAW_MEMORY_WRITE", data |-> v]
AssetAdd(d) == [type |-> "ASSET_OBJECT_ADD", asset_delta |-> d]
Entry(i, h) == [index |-> i, hash |-> h]
Insert(e) == [type |-> "HASH_SET_INSERT", hash |-> e]
IncreaseLimit(n) == [type |-> "HASH_SET_INCREASE_LIMIT", limit_increase |-> n]
Clear(n) == [type |-> "HASH_SET_CLEAR", threshold |-> n]
DeleteLast == [type |-> "DELETE_LAST"]

\* Integers: a base that all agree on, a second one and a negative one.
IntDeltas ==
    {SetAdd(2, d) : d \in {-4, -2, 0, 3}} \cup {SetAdd(1, -1), SetAdd(-1, -1),
      SetAdd(-1, 2), Write(1), DeleteLast}
IntObjects == {[type |-> "NONNEGATIVE_INT64", value |-> 1]}

AssetDeltas == {AssetAdd(d) : d \in {-4, -2, 1, 3}}
AssetObjects == {[type |-> "KNOWN_SUPPLY_ASSET", value |-> v] : v \in {2, 6}}

SetEntries == {Entry(1, 0), Entry(2, 0), Entry(2, 1)}
HashDeltas ==
    {Insert(e) : e \in SetEntries} \cup {IncreaseLimit(1), Clear(1), Clear(2), DeleteLast}
HashObjects ==
    {[type |-> "HASH_SET", hashes |-> {Entry(1, 0)}, max_size |-> 1]}

MCDeltas == IntDeltas \cup AssetDeltas \cup HashDeltas
MCObjects == IntObjects \cup AssetObjects \cup HashObjects

Symmetry == Permutations(Ops)
=============================================================================
