----------------------- MODULE RevertableObjectProofs -----------------------
(***************************************************************************)
(* Proofs about RevertableObject, for any deltas, any objects on disk and  *)
(* any width of the integers.                                              *)
(*                                                                         *)
(* What the properties say of the counters is not inductive: a reservation *)
(* is legal because of what every other delta has put into the counters.   *)
(* The invariant Inv therefore gives every counter as a sum over all       *)
(* deltas of what each adds to it, by its type and by the label it has     *)
(* come to (CountersInv), and says of the deltas which labels they come to *)
(* (LabelInv), that they agree on the base (BaseInv), that the base covers *)
(* what is subtracted (CoverInv), that their elements are distinct, are    *)
(* the ones in new_hashes and have room (HashInv, RoomInv), and which      *)
(* flags are up (ClearInv, DeleteInv).                                     *)
(*                                                                         *)
(* A step moves one delta, so each sum changes by one term (SumsMove).     *)
(* What a step must leave alone for each part of Inv is named (BaseQuiet,  *)
(* ...); one lemma per action and outcome shows the parts that it disturbs.*)
(***************************************************************************)
EXTENDS RevertableObject, SumTheorems

\* Where a delta that was added is: it is in a DeltaRewind or past it.
Applied == {"held", "raise", "final", "committed"}
Past == {"raise", "final", "committed"}

\* The kinds of delta.
IsInt(d) == d.type = "NONNEGATIVE_INT64_SET_ADD"
IsAsset(d) == d.type = "ASSET_OBJECT_ADD"
IsInsert(d) == d.type = "HASH_SET_INSERT"
IsClear(d) == d.type = "HASH_SET_CLEAR"

\* What a delta d that has come to label l adds to each counter.
AddedBy(l, d) == IF IsInt(d) /\ l \in Applied /\ d.delta >= 0 THEN d.delta ELSE 0
SubtractedBy(l, d) == IF IsInt(d) /\ l \in Applied /\ d.delta < 0 THEN d.delta ELSE 0
IncreasedBy(l, d) ==
    IF d.type = "HASH_SET_INCREASE_LIMIT" /\ l \in Applied THEN d.limit_increase ELSE 0
CountedBy(l, d) ==
    IF IsInsert(d) /\ l \in {"insert", "uncount"} \cup Applied THEN 1 ELSE 0
RoomBy(l, d) == IF IsInsert(d) /\ l \in {"insert"} \cup Applied THEN 1 ELSE 0
LowerBy(l, d) ==
    IF IsAsset(d) /\ (l \in Past \/ (l = "held" /\ d.asset_delta < 0))
    THEN d.asset_delta ELSE 0
UpperBy(l, d) ==
    IF IsAsset(d) /\ (l \in Past \/ (l = "held" /\ d.asset_delta >= 0))
    THEN d.asset_delta ELSE 0

\* The same for every delta of a block, as functions to sum.
Added(P, D) == [o \in Ops |-> AddedBy(P[o], D[o])]
Subtracted(P, D) == [o \in Ops |-> SubtractedBy(P[o], D[o])]
Increased(P, D) == [o \in Ops |-> IncreasedBy(P[o], D[o])]
Counted(P, D) == [o \in Ops |-> CountedBy(P[o], D[o])]
Room(P, D) == [o \in Ops |-> RoomBy(P[o], D[o])]
Lower(P, D) == [o \in Ops |-> LowerBy(P[o], D[o])]
Upper(P, D) == [o \in Ops |-> UpperBy(P[o], D[o])]

\* Each counter is the sum of what the deltas that it counts put into it.
CountersInv ==
    /\ mods.total_added = SumFunctionOnSet(Added(pc, delta), Ops)
    /\ mods.total_subtracted = SumFunctionOnSet(Subtracted(pc, delta), Ops)
    /\ mods.size_increase = SumFunctionOnSet(Increased(pc, delta), Ops)
    /\ mods.num_new_elts = SumFunctionOnSet(Counted(pc, delta), Ops)
    /\ mods.available_asset = Supply(committed) + SumFunctionOnSet(Lower(pc, delta), Ops)
    /\ mods.available_asset_upperbound = Supply(committed) + SumFunctionOnSet(Upper(pc, delta), Ops)

\* Which labels a delta comes to.
LabelInv ==
    \A o \in Ops :
      /\ pc[o] = "idle" <=> delta[o] = NoDelta
      /\ pc[o] = "based" =>
           IsInt(delta[o]) \/ IsAsset(delta[o]) \/ IsInsert(delta[o])
             \/ delta[o].type = "HASH_SET_INCREASE_LIMIT"
      /\ pc[o] \in {"insert", "uncount", "erase"} => IsInsert(delta[o])
      /\ pc[o] = "raise" => IsClear(delta[o])
      /\ pc[o] \in {"final", "unbase"} => delta[o].type # "DELETE_LAST"

InBase(l, d) == l \notin {"idle", "void"} /\ d.type # "DELETE_LAST"
Based == {o \in Ops : InBase(pc[o], delta[o])}

\* The deltas in base_obj agree on it, and base_obj knows who they are.
BaseInv ==
    /\ \A o \in Based : base.agreed = DeltaClass(delta[o])
    /\ \A o \in Based : TypeAllowed(committed, base.agreed)
    /\ Based = {} => base.agreed = NoObject
    /\ base.counted \subseteq {o \in Based : pc[o] # "committed"}
    /\ ~base.final => Based \subseteq base.counted
    /\ base.final => \E o \in Based : pc[o] = "committed"

\* The base value covers everything that was subtracted.
CoverInv ==
    \A o \in Ops :
      IsInt(delta[o]) /\ pc[o] \in Applied /\ delta[o].delta < 0 =>
        /\ delta[o].set_value >= 0
        /\ delta[o].set_value + mods.total_subtracted >= 0

\* An element that is in new_hashes, and one that the committed set lacks.
Inserts(l, d) == IsInsert(d) /\ l \in {"held", "erase", "final", "committed"}
NewElement(l, d) ==
    IsInsert(d) /\ l \in {"insert", "held", "erase", "final", "committed"}

\* new_hashes holds what the insertions put there, each its own element.
HashInv ==
    /\ mods.new_hashes = {delta[o].hash : o \in {p \in Ops : Inserts(pc[p], delta[p])}}
    /\ \A o, p \in Ops :
         Inserts(pc[o], delta[o]) /\ Inserts(pc[p], delta[p]) /\ o # p
           => delta[o].hash # delta[p].hash
    /\ \A o \in Ops :
         NewElement(pc[o], delta[o]) => delta[o].hash \notin Hashes(committed)

\* No more elements are counted in than there is room for.
RoomInv ==
    \A o \in Ops : RoomBy(pc[o], delta[o]) = 1 =>
      Cardinality(Hashes(committed)) + SumFunctionOnSet(Room(pc, delta), Ops) <= SizeLimit(committed)

\* The highest threshold that committed is kept, once it is raised.
ClearInv ==
    /\ mods.hashset_clear_committed <=> \E o \in Ops : IsClear(delta[o]) /\ pc[o] \in Past
    /\ \A o \in Ops : IsClear(delta[o]) /\ pc[o] \in {"final", "committed"}
                        => delta[o].threshold <= mods.max_committed_clear_threshold
    /\ mods.max_committed_clear_threshold # 0 =>
         \E o \in Ops : /\ IsClear(delta[o]) /\ pc[o] \in {"final", "committed"}
                        /\ delta[o].threshold = mods.max_committed_clear_threshold

\* delete_last_committed tells whether a DELETE_LAST committed.
DeleteInv ==
    mods.delete_last_committed
      <=> \E o \in Ops : delta[o].type = "DELETE_LAST" /\ pc[o] = "committed"

\* The inductive invariant.
Inv ==
    /\ TypeOK /\ LabelInv /\ BaseInv /\ CountersInv /\ CoverInv
    /\ HashInv /\ RoomInv /\ ClearInv /\ DeleteInv

-----------------------------------------------------------------------------
\* What a delta may be, before and after it is offered.
Delta == Deltas \cup {NoDelta}

\* Which fields a delta of each type has.
LEMMA DeltaShape ==
  ASSUME NEW d \in Delta
  PROVE  /\ d.type \in {"none", "DELETE_LAST", "RAW_MEMORY_WRITE", "NONNEGATIVE_INT64_SET_ADD",
                        "ASSET_OBJECT_ADD", "HASH_SET_INSERT", "HASH_SET_INCREASE_LIMIT", "HASH_SET_CLEAR"}
         /\ d.type = "none" <=> d = NoDelta
         /\ d.type = "RAW_MEMORY_WRITE" => d.data \in Nat
         /\ IsInt(d) => d.delta \in MinInt .. MaxInt /\ d.set_value \in MinInt .. MaxInt
         /\ IsAsset(d) => d.asset_delta \in MinInt .. MaxInt
         /\ IsInsert(d) => d.hash \in Entries
         /\ d.type = "HASH_SET_INCREASE_LIMIT" => d.limit_increase \in Nat
         /\ IsClear(d) => d.threshold \in Nat
<1>1. CASE d = NoDelta
  BY <1>1 DEF NoDelta, IsInt, IsAsset, IsInsert, IsClear
<1>2. CASE d \in Deltas
  <2>1. d \in StorageDeltas
    BY <1>2, ObjectAssumption
  <2> QED BY <1>2, <2>1 DEF StorageDeltas, NoDelta, IsInt, IsAsset, IsInsert, IsClear, Entries
<1> QED BY <1>1, <1>2 DEF Delta

\* A delta that is offered is not the placeholder.
LEMMA RealDelta == ASSUME NEW d \in Deltas PROVE d \in Delta /\ d # NoDelta /\ d.type # "none"
<1>1. d \in StorageDeltas
  BY ObjectAssumption
<1> QED BY <1>1 DEF StorageDeltas, NoDelta, Delta

\* The delta class that each type of delta asks for.
LEMMA DeltaClassType ==
  ASSUME NEW d \in Delta
  PROVE  /\ DeltaClass(d) \in DeltaClasses
         /\ DeltaClass(d) # NoObject
         /\ DeltaClass(d).type =
              CASE IsInt(d) -> "NONNEGATIVE_INT64"
                [] d.type = "RAW_MEMORY_WRITE" -> "RAW_MEMORY"
                [] IsAsset(d) -> "KNOWN_SUPPLY_ASSET"
                [] OTHER -> "HASH_SET"
         /\ IsInt(d) => DeltaClass(d).value = d.set_value
BY DeltaShape DEF DeltaClass, DeltaClasses, NoObject, IsInt, IsAsset

\* The bounds of the integer types.
LEMMA IntBounds == MinInt \in Int /\ MaxInt \in Nat /\ MaxUint \in Nat /\ MinInt < 0
                   /\ MinInt = -MaxInt - 1 /\ MaxUint = 2 * MaxInt + 1
BY ObjectAssumption DEF MinInt, MaxUint

\* What one delta adds to the counters, and that the sure part of an asset is
\* below the possible one.
LEMMA ByTypes ==
  ASSUME NEW l, NEW d \in Delta
  PROVE  /\ AddedBy(l, d) \in Nat
         /\ SubtractedBy(l, d) \in Int /\ SubtractedBy(l, d) <= 0
         /\ IncreasedBy(l, d) \in Nat
         /\ CountedBy(l, d) \in {0, 1} /\ RoomBy(l, d) \in {0, 1}
         /\ RoomBy(l, d) <= CountedBy(l, d)
         /\ LowerBy(l, d) \in Int /\ UpperBy(l, d) \in Int
         /\ LowerBy(l, d) <= UpperBy(l, d)
<1>1. /\ IsInt(d) => d.delta \in Int
      /\ IsAsset(d) => d.asset_delta \in Int
      /\ d.type = "HASH_SET_INCREASE_LIMIT" => d.limit_increase \in Nat
  BY DeltaShape, IntBounds
<1> QED BY <1>1 DEF AddedBy, SubtractedBy, IncreasedBy, CountedBy, RoomBy, LowerBy, UpperBy,
           Applied, Past

-----------------------------------------------------------------------------
\* Only the delta o moves.
Local(o) ==
    /\ pc' \in [Ops -> Labels] /\ delta' \in [Ops -> Delta]
    /\ \A p \in Ops \ {o} : pc'[p] = pc[p] /\ delta'[p] = delta[p]

\* When one delta moves, each sum changes by what that delta adds to it.
LEMMA SumsMove ==
  ASSUME NEW o \in Ops, pc \in [Ops -> Labels], delta \in [Ops -> Delta], Local(o)
  PROVE  /\ SumFunctionOnSet(Added(pc', delta'), Ops) =
              SumFunctionOnSet(Added(pc, delta), Ops) - AddedBy(pc[o], delta[o]) + AddedBy(pc'[o], delta'[o])
         /\ SumFunctionOnSet(Subtracted(pc', delta'), Ops) =
              SumFunctionOnSet(Subtracted(pc, delta), Ops) - SubtractedBy(pc[o], delta[o]) + SubtractedBy(pc'[o], delta'[o])
         /\ SumFunctionOnSet(Increased(pc', delta'), Ops) =
              SumFunctionOnSet(Increased(pc, delta), Ops) - IncreasedBy(pc[o], delta[o]) + IncreasedBy(pc'[o], delta'[o])
         /\ SumFunctionOnSet(Counted(pc', delta'), Ops) =
              SumFunctionOnSet(Counted(pc, delta), Ops) - CountedBy(pc[o], delta[o]) + CountedBy(pc'[o], delta'[o])
         /\ SumFunctionOnSet(Room(pc', delta'), Ops) =
              SumFunctionOnSet(Room(pc, delta), Ops) - RoomBy(pc[o], delta[o]) + RoomBy(pc'[o], delta'[o])
         /\ SumFunctionOnSet(Lower(pc', delta'), Ops) =
              SumFunctionOnSet(Lower(pc, delta), Ops) - LowerBy(pc[o], delta[o]) + LowerBy(pc'[o], delta'[o])
         /\ SumFunctionOnSet(Upper(pc', delta'), Ops) =
              SumFunctionOnSet(Upper(pc, delta), Ops) - UpperBy(pc[o], delta[o]) + UpperBy(pc'[o], delta'[o])
<1>1. pc' \in [Ops -> Labels] /\ delta' \in [Ops -> Delta] /\ IsFiniteSet(Ops)
  BY ObjectAssumption DEF Local
<1>2. SumFunctionOnSet(Added(pc', delta'), Ops) =
        SumFunctionOnSet(Added(pc, delta), Ops) - AddedBy(pc[o], delta[o]) + AddedBy(pc'[o], delta'[o])
  <2>1. \A p \in Ops : Added(pc, delta)[p] \in Int /\ Added(pc', delta')[p] \in Int
    BY <1>1, ByTypes DEF Added
  <2>2. \A p \in Ops \ {o} : Added(pc', delta')[p] = Added(pc, delta)[p]
    BY DEF Added, Local
  <2>3. SumFunctionOnSet(Added(pc', delta'), Ops) =
          SumFunctionOnSet(Added(pc, delta), Ops) - Added(pc, delta)[o] + Added(pc', delta')[o]
    BY <1>1, <2>1, <2>2, SumUpdate
  <2> QED BY <2>3 DEF Added
<1>3. SumFunctionOnSet(Subtracted(pc', delta'), Ops) =
        SumFunctionOnSet(Subtracted(pc, delta), Ops) - SubtractedBy(pc[o], delta[o]) + SubtractedBy(pc'[o], delta'[o])
  <2>1. \A p \in Ops : Subtracted(pc, delta)[p] \in Int /\ Subtracted(pc', delta')[p] \in Int
    BY <1>1, ByTypes DEF Subtracted
  <2>2. \A p \in Ops \ {o} : Subtracted(pc', delta')[p] = Subtracted(pc, delta)[p]
    BY DEF Subtracted, Local
  <2>3. SumFunctionOnSet(Subtracted(pc', delta'), Ops) =
          SumFunctionOnSet(Subtracted(pc, delta), Ops) - Subtracted(pc, delta)[o] + Subtracted(pc', delta')[o]
    BY <1>1, <2>1, <2>2, SumUpdate
  <2> QED BY <2>3 DEF Subtracted
<1>4. SumFunctionOnSet(Increased(pc', delta'), Ops) =
        SumFunctionOnSet(Increased(pc, delta), Ops) - IncreasedBy(pc[o], delta[o]) + IncreasedBy(pc'[o], delta'[o])
  <2>1. \A p \in Ops : Increased(pc, delta)[p] \in Int /\ Increased(pc', delta')[p] \in Int
    BY <1>1, ByTypes DEF Increased
  <2>2. \A p \in Ops \ {o} : Increased(pc', delta')[p] = Increased(pc, delta)[p]
    BY DEF Increased, Local
  <2>3. SumFunctionOnSet(Increased(pc', delta'), Ops) =
          SumFunctionOnSet(Increased(pc, delta), Ops) - Increased(pc, delta)[o] + Increased(pc', delta')[o]
    BY <1>1, <2>1, <2>2, SumUpdate
  <2> QED BY <2>3 DEF Increased
<1>5. SumFunctionOnSet(Counted(pc', delta'), Ops) =
        SumFunctionOnSet(Counted(pc, delta), Ops) - CountedBy(pc[o], delta[o]) + CountedBy(pc'[o], delta'[o])
  <2>1. \A p \in Ops : Counted(pc, delta)[p] \in Int /\ Counted(pc', delta')[p] \in Int
    BY <1>1, ByTypes DEF Counted
  <2>2. \A p \in Ops \ {o} : Counted(pc', delta')[p] = Counted(pc, delta)[p]
    BY DEF Counted, Local
  <2>3. SumFunctionOnSet(Counted(pc', delta'), Ops) =
          SumFunctionOnSet(Counted(pc, delta), Ops) - Counted(pc, delta)[o] + Counted(pc', delta')[o]
    BY <1>1, <2>1, <2>2, SumUpdate
  <2> QED BY <2>3 DEF Counted
<1>6. SumFunctionOnSet(Room(pc', delta'), Ops) =
        SumFunctionOnSet(Room(pc, delta), Ops) - RoomBy(pc[o], delta[o]) + RoomBy(pc'[o], delta'[o])
  <2>1. \A p \in Ops : Room(pc, delta)[p] \in Int /\ Room(pc', delta')[p] \in Int
    BY <1>1, ByTypes DEF Room
  <2>2. \A p \in Ops \ {o} : Room(pc', delta')[p] = Room(pc, delta)[p]
    BY DEF Room, Local
  <2>3. SumFunctionOnSet(Room(pc', delta'), Ops) =
          SumFunctionOnSet(Room(pc, delta), Ops) - Room(pc, delta)[o] + Room(pc', delta')[o]
    BY <1>1, <2>1, <2>2, SumUpdate
  <2> QED BY <2>3 DEF Room
<1>7. SumFunctionOnSet(Lower(pc', delta'), Ops) =
        SumFunctionOnSet(Lower(pc, delta), Ops) - LowerBy(pc[o], delta[o]) + LowerBy(pc'[o], delta'[o])
  <2>1. \A p \in Ops : Lower(pc, delta)[p] \in Int /\ Lower(pc', delta')[p] \in Int
    BY <1>1, ByTypes DEF Lower
  <2>2. \A p \in Ops \ {o} : Lower(pc', delta')[p] = Lower(pc, delta)[p]
    BY DEF Lower, Local
  <2>3. SumFunctionOnSet(Lower(pc', delta'), Ops) =
          SumFunctionOnSet(Lower(pc, delta), Ops) - Lower(pc, delta)[o] + Lower(pc', delta')[o]
    BY <1>1, <2>1, <2>2, SumUpdate
  <2> QED BY <2>3 DEF Lower
<1>8. SumFunctionOnSet(Upper(pc', delta'), Ops) =
        SumFunctionOnSet(Upper(pc, delta), Ops) - UpperBy(pc[o], delta[o]) + UpperBy(pc'[o], delta'[o])
  <2>1. \A p \in Ops : Upper(pc, delta)[p] \in Int /\ Upper(pc', delta')[p] \in Int
    BY <1>1, ByTypes DEF Upper
  <2>2. \A p \in Ops \ {o} : Upper(pc', delta')[p] = Upper(pc, delta)[p]
    BY DEF Upper, Local
  <2>3. SumFunctionOnSet(Upper(pc', delta'), Ops) =
          SumFunctionOnSet(Upper(pc, delta), Ops) - Upper(pc, delta)[o] + Upper(pc', delta')[o]
    BY <1>1, <2>1, <2>2, SumUpdate
  <2> QED BY <2>3 DEF Upper
<1> QED BY <1>2, <1>3, <1>4, <1>5, <1>6, <1>7, <1>8

\* The sums are in the ranges of the counters.
LEMMA SumTypes ==
  ASSUME NEW P \in [Ops -> Labels], NEW D \in [Ops -> Delta]
  PROVE  /\ SumFunctionOnSet(Added(P, D), Ops) \in Nat
         /\ SumFunctionOnSet(Subtracted(P, D), Ops) \in Int /\ SumFunctionOnSet(Subtracted(P, D), Ops) <= 0
         /\ SumFunctionOnSet(Increased(P, D), Ops) \in Nat
         /\ SumFunctionOnSet(Counted(P, D), Ops) \in 0 .. Cardinality(Ops)
         /\ SumFunctionOnSet(Room(P, D), Ops) \in Nat
         /\ SumFunctionOnSet(Room(P, D), Ops) <= SumFunctionOnSet(Counted(P, D), Ops)
         /\ SumFunctionOnSet(Lower(P, D), Ops) \in Int /\ SumFunctionOnSet(Upper(P, D), Ops) \in Int
         /\ SumFunctionOnSet(Lower(P, D), Ops) <= SumFunctionOnSet(Upper(P, D), Ops)
<1> DEFINE Zero == [o \in Ops |-> 0]
<1>0. SumFunctionOnSet(Zero, Ops) = 0 /\ IsFiniteSet(Ops)
  BY SumZero, ObjectAssumption
<1>1. \A o \in Ops : Added(P, D)[o] \in Nat
  BY ByTypes DEF Added
<1>2. \A o \in Ops : Subtracted(P, D)[o] \in Int /\ Subtracted(P, D)[o] <= 0
  BY ByTypes DEF Subtracted
<1>3. \A o \in Ops : Increased(P, D)[o] \in Nat
  BY ByTypes DEF Increased
<1>4. \A o \in Ops : Counted(P, D)[o] \in 0 .. 1 /\ Room(P, D)[o] \in 0 .. 1 /\ Room(P, D)[o] <= Counted(P, D)[o]
  BY ByTypes DEF Counted, Room
<1>5. \A o \in Ops : Lower(P, D)[o] \in Int /\ Upper(P, D)[o] \in Int /\ Lower(P, D)[o] <= Upper(P, D)[o]
  BY ByTypes DEF Lower, Upper
<1>6. SumFunctionOnSet(Added(P, D), Ops) \in Nat
  <2>1. SumFunctionOnSet(Zero, Ops) <= SumFunctionOnSet(Added(P, D), Ops)
    BY <1>0, <1>1, SumLe
  <2>2. SumFunctionOnSet(Added(P, D), Ops) \in Int
    BY <1>0, <1>1, SumInt
  <2> QED BY <1>0, <2>1, <2>2
<1>7. SumFunctionOnSet(Subtracted(P, D), Ops) \in Int /\ SumFunctionOnSet(Subtracted(P, D), Ops) <= 0
  <2>1. SumFunctionOnSet(Subtracted(P, D), Ops) <= SumFunctionOnSet(Zero, Ops)
    BY <1>0, <1>2, SumLe
  <2>2. SumFunctionOnSet(Subtracted(P, D), Ops) \in Int
    BY <1>0, <1>2, SumInt
  <2> QED BY <1>0, <2>1, <2>2
<1>8. SumFunctionOnSet(Increased(P, D), Ops) \in Nat
  <2>1. SumFunctionOnSet(Zero, Ops) <= SumFunctionOnSet(Increased(P, D), Ops)
    BY <1>0, <1>3, SumLe
  <2>2. SumFunctionOnSet(Increased(P, D), Ops) \in Int
    BY <1>0, <1>3, SumInt
  <2> QED BY <1>0, <2>1, <2>2
<1>9. SumFunctionOnSet(Counted(P, D), Ops) \in 0 .. Cardinality(Ops)
  <2>1. SumFunctionOnSet(Counted(P, D), Ops) \in 0 .. 1 * Cardinality(Ops)
    BY <1>0, <1>4, SumBound
  <2> QED BY <1>0, <2>1, FS_CardinalityType
<1>10. SumFunctionOnSet(Room(P, D), Ops) \in Nat
       /\ SumFunctionOnSet(Room(P, D), Ops) <= SumFunctionOnSet(Counted(P, D), Ops)
  <2>1. SumFunctionOnSet(Room(P, D), Ops) \in 0 .. 1 * Cardinality(Ops)
    BY <1>0, <1>4, SumBound
  <2>2. SumFunctionOnSet(Room(P, D), Ops) <= SumFunctionOnSet(Counted(P, D), Ops)
    BY <1>0, <1>4, SumLe
  <2> QED BY <1>0, <2>1, <2>2, FS_CardinalityType
<1>11. SumFunctionOnSet(Lower(P, D), Ops) \in Int /\ SumFunctionOnSet(Upper(P, D), Ops) \in Int
       /\ SumFunctionOnSet(Lower(P, D), Ops) <= SumFunctionOnSet(Upper(P, D), Ops)
  <2>1. SumFunctionOnSet(Lower(P, D), Ops) <= SumFunctionOnSet(Upper(P, D), Ops)
    BY <1>0, <1>5, SumLe
  <2>2. SumFunctionOnSet(Lower(P, D), Ops) \in Int /\ SumFunctionOnSet(Upper(P, D), Ops) \in Int
    BY <1>0, <1>5, SumInt
  <2> QED BY <2>1, <2>2
<1> QED BY <1>6, <1>7, <1>8, <1>9, <1>10, <1>11

\* The committed supply of an asset is a uint64.
LEMMA SupplyNat == ASSUME TypeOK PROVE Supply(committed) \in 0 .. MaxUint
<1>1. CASE committed = NoObject
  BY <1>1, IntBounds DEF Supply, NoObject
<1>2. CASE committed \in Objects
  BY <1>2, IntBounds DEF Supply, Objects
<1> QED BY <1>1, <1>2 DEF TypeOK

\* What is held of an asset lies between the two bounds.
LEMMA HeldGap ==
  ASSUME TypeOK, CountersInv, NEW o \in Ops
  PROVE  UpperBy(pc[o], delta[o]) - LowerBy(pc[o], delta[o])
           <= mods.available_asset_upperbound - mods.available_asset
<1>1. pc \in [Ops -> Labels] /\ delta \in [Ops -> Delta]
  BY DEF TypeOK, Delta
<1>2. \A p \in Ops : Lower(pc, delta)[p] \in Int /\ Upper(pc, delta)[p] \in Int /\ Lower(pc, delta)[p] <= Upper(pc, delta)[p]
  BY <1>1, ByTypes DEF Lower, Upper
<1>3. Upper(pc, delta)[o] - Lower(pc, delta)[o] <= SumFunctionOnSet(Upper(pc, delta), Ops) - SumFunctionOnSet(Lower(pc, delta), Ops)
  BY <1>2, SumGap, ObjectAssumption
<1>4. SumFunctionOnSet(Upper(pc, delta), Ops) \in Int /\ SumFunctionOnSet(Lower(pc, delta), Ops) \in Int
  BY <1>1, SumTypes
<1>5. Supply(committed) \in Int
  BY SupplyNat, IntBounds
<1> QED BY <1>2, <1>3, <1>4, <1>5 DEF CountersInv, Lower, Upper

-----------------------------------------------------------------------------
\* A step of o that changes each counter by what o adds to it.
Books(o) ==
    /\ Local(o)
    /\ committed' = committed
    /\ mods'.total_added - AddedBy(pc'[o], delta'[o])
         = mods.total_added - AddedBy(pc[o], delta[o])
    /\ mods'.total_subtracted - SubtractedBy(pc'[o], delta'[o])
         = mods.total_subtracted - SubtractedBy(pc[o], delta[o])
    /\ mods'.size_increase - IncreasedBy(pc'[o], delta'[o])
         = mods.size_increase - IncreasedBy(pc[o], delta[o])
    /\ mods'.num_new_elts - CountedBy(pc'[o], delta'[o])
         = mods.num_new_elts - CountedBy(pc[o], delta[o])
    /\ mods'.available_asset - LowerBy(pc'[o], delta'[o])
         = mods.available_asset - LowerBy(pc[o], delta[o])
    /\ mods'.available_asset_upperbound - UpperBy(pc'[o], delta'[o])
         = mods.available_asset_upperbound - UpperBy(pc[o], delta[o])

\* The counters without their bounds.
ModFields ==
    [total_subtracted : Int, total_added : Int, size_increase : Int,
     new_hashes : SUBSET Entries, used : Nat, num_new_elts : Int,
     hashset_clear_committed : BOOLEAN, max_committed_clear_threshold : Nat,
     delete_last_committed : BOOLEAN,
     available_asset : Int, available_asset_upperbound : Int]

\* Such a step keeps the counters equal to their sums.
LEMMA CountersStep ==
  ASSUME TypeOK, CountersInv, NEW o \in Ops, Books(o), mods' \in ModFields
  PROVE  /\ CountersInv'
         /\ mods'.total_added \in Nat
         /\ mods'.total_subtracted <= 0
         /\ mods'.size_increase \in Nat
         /\ mods'.num_new_elts \in 0 .. Cardinality(Ops)
         /\ mods'.available_asset <= mods'.available_asset_upperbound
         /\ SumFunctionOnSet(Room(pc', delta'), Ops) = SumFunctionOnSet(Room(pc, delta), Ops)
                - RoomBy(pc[o], delta[o]) + RoomBy(pc'[o], delta'[o])
<1>1. pc \in [Ops -> Labels] /\ delta \in [Ops -> Delta] /\ Local(o)
  BY DEF TypeOK, Delta, Books
<1>2. pc' \in [Ops -> Labels] /\ delta' \in [Ops -> Delta]
  BY DEF Books, Local
<1>3. Supply(committed) \in Int /\ Supply(committed)' = Supply(committed)
  BY SupplyNat, IntBounds DEF Supply, Books
<1>4. delta[o] \in Delta /\ delta'[o] \in Delta
  BY <1>1, <1>2
<1>5. CountersInv'
  <2> USE DEF CountersInv, Books, ModFields
  <2>1. mods'.total_added = SumFunctionOnSet(Added(pc', delta'), Ops)
    BY <1>1, <1>4, SumsMove, SumTypes, ByTypes
  <2>2. mods'.total_subtracted = SumFunctionOnSet(Subtracted(pc', delta'), Ops)
    BY <1>1, <1>4, SumsMove, SumTypes, ByTypes
  <2>3. mods'.size_increase = SumFunctionOnSet(Increased(pc', delta'), Ops)
    BY <1>1, <1>4, SumsMove, SumTypes, ByTypes
  <2>4. mods'.num_new_elts = SumFunctionOnSet(Counted(pc', delta'), Ops)
    BY <1>1, <1>4, SumsMove, SumTypes, ByTypes
  <2>5. mods'.available_asset = Supply(committed)' + SumFunctionOnSet(Lower(pc', delta'), Ops)
    BY <1>1, <1>3, <1>4, SumsMove, SumTypes, ByTypes
  <2>6. mods'.available_asset_upperbound = Supply(committed)' + SumFunctionOnSet(Upper(pc', delta'), Ops)
    BY <1>1, <1>3, <1>4, SumsMove, SumTypes, ByTypes
  <2> QED BY <2>1, <2>2, <2>3, <2>4, <2>5, <2>6
<1>6. /\ SumFunctionOnSet(Added(pc', delta'), Ops) \in Nat
      /\ SumFunctionOnSet(Subtracted(pc', delta'), Ops) <= 0
      /\ SumFunctionOnSet(Increased(pc', delta'), Ops) \in Nat
      /\ SumFunctionOnSet(Counted(pc', delta'), Ops) \in 0 .. Cardinality(Ops)
      /\ SumFunctionOnSet(Lower(pc', delta'), Ops) \in Int
      /\ SumFunctionOnSet(Upper(pc', delta'), Ops) \in Int
      /\ SumFunctionOnSet(Lower(pc', delta'), Ops) <= SumFunctionOnSet(Upper(pc', delta'), Ops)
  BY <1>2, SumTypes
<1> QED BY <1>1, <1>3, <1>5, <1>6, SumsMove DEF CountersInv
-----------------------------------------------------------------------------
(* What a step of o must leave alone for a part of the invariant to hold.  *)

\* The step changes neither base_obj nor who is in it.
BaseQuiet(o) ==
    /\ base' = base
    /\ InBase(pc'[o], delta'[o]) <=> InBase(pc[o], delta[o])
    /\ InBase(pc[o], delta[o]) =>
         delta'[o] = delta[o] /\ (pc'[o] = "committed" <=> pc[o] = "committed")

\* It subtracts nothing.
CoverQuiet(o) ==
    /\ mods'.total_subtracted >= mods.total_subtracted
    /\ IsInt(delta'[o]) /\ pc'[o] \in Applied /\ delta'[o].delta < 0
         => IsInt(delta[o]) /\ pc[o] \in Applied /\ delta'[o] = delta[o]

\* It inserts and erases nothing.
HashQuiet(o) ==
    /\ mods'.new_hashes = mods.new_hashes
    /\ Inserts(pc'[o], delta'[o]) <=> Inserts(pc[o], delta[o])
    /\ NewElement(pc'[o], delta'[o]) =>
         NewElement(pc[o], delta[o]) /\ delta'[o] = delta[o]

\* It takes no room.
RoomQuiet(o) == RoomBy(pc'[o], delta'[o]) <= RoomBy(pc[o], delta[o])

\* It neither commits a clear nor raises the threshold.
ClearQuiet(o) ==
    /\ mods'.hashset_clear_committed = mods.hashset_clear_committed
    /\ mods'.max_committed_clear_threshold = mods.max_committed_clear_threshold
    /\ IsClear(delta[o]) \/ IsClear(delta'[o]) =>
         \/ pc[o] \notin Past /\ pc'[o] \notin Past
         \/ /\ pc[o] \in {"final", "committed"} /\ pc'[o] \in {"final", "committed"}
            /\ delta'[o] = delta[o]

\* It commits no DELETE_LAST.
DeleteQuiet(o) ==
    /\ mods'.delete_last_committed = mods.delete_last_committed
    /\ delta'[o].type = "DELETE_LAST" /\ pc'[o] = "committed"
         <=> delta[o].type = "DELETE_LAST" /\ pc[o] = "committed"

\* A step that is quiet about base_obj keeps its invariant.
LEMMA BaseStill ==
  ASSUME TypeOK, BaseInv, NEW o \in Ops, Books(o), BaseQuiet(o) PROVE BaseInv'
<1>1. committed' = committed /\ base' = base
  BY DEF Books, BaseQuiet
<1>2. Based' = Based
  BY DEF Based, Books, Local, BaseQuiet
<1>3. \A p \in Based : delta'[p] = delta[p] /\ (pc'[p] = "committed" <=> pc[p] = "committed")
  BY DEF Based, Books, Local, BaseQuiet
<1>4. /\ \A p \in Based : base'.agreed = DeltaClass(delta'[p])
      /\ \A p \in Based : TypeAllowed(committed', base'.agreed)
  BY <1>1, <1>3 DEF BaseInv
<1>5. base'.counted \subseteq {p \in Based : pc'[p] # "committed"}
  BY <1>1, <1>3 DEF BaseInv
<1>6. /\ Based = {} => base'.agreed = NoObject
      /\ ~base'.final => Based \subseteq base'.counted
      /\ base'.final => \E p \in Based : pc'[p] = "committed"
  BY <1>1, <1>3 DEF BaseInv
<1> QED BY <1>2, <1>4, <1>5, <1>6 DEF BaseInv

\* A step that subtracts nothing keeps the base value above what is
\* subtracted.
LEMMA CoverStill ==
  ASSUME TypeOK, CoverInv, NEW o \in Ops, Books(o), mods' \in ModFields, CoverQuiet(o)
  PROVE  CoverInv'
<1> SUFFICES ASSUME NEW p \in Ops, IsInt(delta'[p]), pc'[p] \in Applied, delta'[p].delta < 0
             PROVE  delta'[p].set_value >= 0 /\ delta'[p].set_value + mods'.total_subtracted >= 0
  BY DEF CoverInv
<1>1. IsInt(delta[p]) /\ pc[p] \in Applied /\ delta'[p] = delta[p]
  BY DEF CoverQuiet, Books, Local
<1>2. delta[p].set_value \in Int
  BY <1>1, DeltaShape, IntBounds DEF TypeOK, Delta
<1>3. mods.total_subtracted \in Int /\ mods'.total_subtracted \in Int
  BY IntBounds DEF TypeOK, ModFields
<1>4. delta[p].set_value >= 0 /\ delta[p].set_value + mods.total_subtracted >= 0
  BY <1>1 DEF CoverInv
<1>5. mods'.total_subtracted >= mods.total_subtracted
  BY DEF CoverQuiet
<1> HIDE DEF ModFields
<1> QED BY <1>1, <1>2, <1>3, <1>4, <1>5

\* A step that inserts and erases nothing keeps new_hashes.
LEMMA HashStill ==
  ASSUME HashInv, NEW o \in Ops, Books(o), HashQuiet(o) PROVE HashInv'
<1>1. \A p \in Ops : Inserts(pc'[p], delta'[p]) <=> Inserts(pc[p], delta[p])
  BY DEF Books, Local, HashQuiet
<1>2. \A p \in Ops : NewElement(pc'[p], delta'[p])
                       => NewElement(pc[p], delta[p]) /\ delta'[p] = delta[p]
  BY DEF Books, Local, HashQuiet
<1>3. \A p \in Ops : Inserts(pc[p], delta[p]) => delta'[p] = delta[p]
  BY <1>1, <1>2 DEF Inserts, NewElement
<1>4. {p \in Ops : Inserts(pc'[p], delta'[p])} = {p \in Ops : Inserts(pc[p], delta[p])}
  BY <1>1
<1> DEFINE I == {p \in Ops : Inserts(pc[p], delta[p])}
<1>5. {delta'[p].hash : p \in I} = {delta[p].hash : p \in I}
  BY <1>3
<1>6. committed' = committed /\ mods'.new_hashes = mods.new_hashes
  BY DEF Books, HashQuiet
<1>7. mods'.new_hashes = {delta'[p].hash : p \in {q \in Ops : Inserts(pc'[q], delta'[q])}}
  BY <1>4, <1>5, <1>6 DEF HashInv
<1>8. \A p, q \in Ops : Inserts(pc'[p], delta'[p]) /\ Inserts(pc'[q], delta'[q]) /\ p # q
                          => delta'[p].hash # delta'[q].hash
  BY <1>1, <1>3 DEF HashInv
<1>9. \A p \in Ops : NewElement(pc'[p], delta'[p]) => delta'[p].hash \notin Hashes(committed)'
  BY <1>2, <1>6 DEF HashInv
<1> QED BY <1>7, <1>8, <1>9 DEF HashInv

\* Finitely many deltas insert finitely many elements.
LEMMA EntriesFinite == IsFiniteSet(Entries)
<1> DEFINE I == {x \in Deltas : x.type = "HASH_SET_INSERT"}
             f == [x \in I |-> x.hash]
<1>1. IsFiniteSet(I)
  BY FS_Subset, ObjectAssumption
<1>2. f \in Surjection(I, Entries)
  BY DEF Surjection, Entries
<1> HIDE DEF I, f
<1> QED BY <1>1, <1>2, FS_Surjection

\* A set object holds a finite number of elements within a natural limit.
LEMMA HashesNat ==
  ASSUME NEW object \in Objects \cup {NoObject}
  PROVE  /\ Hashes(object) \subseteq Entries
         /\ IsFiniteSet(Hashes(object)) /\ Cardinality(Hashes(object)) \in Nat
         /\ SizeLimit(object) \in Nat
<1>1. IsFiniteSet(Entries)
  BY EntriesFinite
<1>2. Hashes(object) \subseteq Entries /\ SizeLimit(object) \in Nat
  BY ObjectAssumption DEF Hashes, SizeLimit, Objects, NoObject
<1> QED BY <1>1, <1>2, FS_Subset, FS_CardinalityType

\* A step that leaves o with no more room than it had.
LEMMA RoomStill ==
  ASSUME TypeOK, CountersInv, RoomInv, NEW o \in Ops, Books(o), mods' \in ModFields,
         RoomQuiet(o)
  PROVE  RoomInv'
<1>1. pc \in [Ops -> Labels] /\ delta \in [Ops -> Delta]
  BY DEF TypeOK, Delta
<1>2. pc' \in [Ops -> Labels] /\ delta' \in [Ops -> Delta] /\ committed' = committed
  BY DEF Books, Local
<1>3. \A p \in Ops : RoomBy(pc'[p], delta'[p]) <= RoomBy(pc[p], delta[p])
  BY <1>1, <1>2, ByTypes DEF Books, Local, RoomQuiet
<1>4. \A p \in Ops : RoomBy(pc'[p], delta'[p]) \in {0, 1} /\ RoomBy(pc[p], delta[p]) \in {0, 1}
  BY <1>1, <1>2, ByTypes
<1>5. \A p \in Ops : RoomBy(pc'[p], delta'[p]) = 1 => RoomBy(pc[p], delta[p]) = 1
  BY <1>3, <1>4
<1>6. /\ SumFunctionOnSet(Room(pc, delta), Ops) \in Nat
      /\ SumFunctionOnSet(Room(pc', delta'), Ops) \in Nat
  BY <1>1, <1>2, SumTypes
<1>7. SumFunctionOnSet(Room(pc', delta'), Ops) <= SumFunctionOnSet(Room(pc, delta), Ops)
  BY <1>4, <1>6, CountersStep DEF RoomQuiet
<1>8. Cardinality(Hashes(committed)) \in Nat /\ SizeLimit(committed) \in Nat
  BY HashesNat DEF TypeOK
<1> QED BY <1>2, <1>5, <1>6, <1>7, <1>8 DEF RoomInv

\* A step that commits and raises nothing keeps the threshold.
LEMMA ClearStill ==
  ASSUME ClearInv, NEW o \in Ops, Books(o), ClearQuiet(o) PROVE ClearInv'
<1>1. \A p \in Ops : IsClear(delta'[p]) /\ pc'[p] \in Past <=> IsClear(delta[p]) /\ pc[p] \in Past
  BY DEF Books, Local, ClearQuiet, Past
<1>2. \A p \in Ops : IsClear(delta'[p]) /\ pc'[p] \in {"final", "committed"}
                       <=> IsClear(delta[p]) /\ pc[p] \in {"final", "committed"}
  BY DEF Books, Local, ClearQuiet, Past
<1>3. \A p \in Ops : IsClear(delta[p]) /\ pc[p] \in {"final", "committed"} => delta'[p] = delta[p]
  BY DEF Books, Local, ClearQuiet, Past
<1>4. /\ mods'.hashset_clear_committed = mods.hashset_clear_committed
      /\ mods'.max_committed_clear_threshold = mods.max_committed_clear_threshold
  BY DEF ClearQuiet
<1> QED BY <1>1, <1>2, <1>3, <1>4 DEF ClearInv

\* A step that commits no DELETE_LAST keeps its flag.
LEMMA DeleteStill ==
  ASSUME DeleteInv, NEW o \in Ops, Books(o), DeleteQuiet(o) PROVE DeleteInv'
<1>1. \A p \in Ops : delta'[p].type = "DELETE_LAST" /\ pc'[p] = "committed"
                       <=> delta[p].type = "DELETE_LAST" /\ pc[p] = "committed"
  BY DEF Books, Local, DeleteQuiet
<1> QED BY <1>1 DEF DeleteInv, DeleteQuiet

\* What a step of o keeps, if it is quiet about it.
LEMMA StillStep ==
  ASSUME Inv, NEW o \in Ops, Books(o), mods' \in ModFields
  PROVE  /\ CountersInv'
         /\ BaseQuiet(o) => BaseInv'
         /\ CoverQuiet(o) => CoverInv'
         /\ HashQuiet(o) => HashInv'
         /\ RoomQuiet(o) => RoomInv'
         /\ ClearQuiet(o) => ClearInv'
         /\ DeleteQuiet(o) => DeleteInv'
BY CountersStep, BaseStill, CoverStill, HashStill, RoomStill, ClearStill, DeleteStill DEF Inv

-----------------------------------------------------------------------------
\* The type invariant without the bounds of the counters.
LEMMA ModsTyped ==
  ASSUME TypeOK
  PROVE  /\ mods \in ModFields
         /\ slots \in Nat
         /\ pc \in [Ops -> Labels] /\ delta \in [Ops -> Delta]
<1>1. MinInt .. 0 \subseteq Int /\ 0 .. MaxUint \subseteq Int /\ 0 .. slots \subseteq Nat
      /\ 0 .. Cardinality(Ops) \subseteq Int
  BY IntBounds DEF TypeOK
<1> QED BY <1>1 DEF TypeOK, ModFields, Delta

\* The type of base_obj.
BaseType == [agreed : DeltaClasses \cup {NoObject}, counted : SUBSET Ops, final : BOOLEAN]

\* The bounds of the counters follow from the sums, but for the three that
\* the tests of try_add_delta guard.
LEMMA TypeStep ==
  ASSUME TypeOK, CountersInv, NEW o \in Ops, Books(o), mods' \in ModFields,
         slots' = slots, base' \in BaseType,
         mods'.new_hashes \cap Hashes(committed) = {},
         mods'.used <= slots, Cardinality(mods'.new_hashes) <= mods'.used,
         mods'.total_subtracted >= MinInt,
         mods'.available_asset >= 0, mods'.available_asset_upperbound <= MaxUint
  PROVE  TypeOK'
<1>1. /\ mods'.total_added \in Nat
      /\ mods'.total_subtracted <= 0
      /\ mods'.size_increase \in Nat
      /\ mods'.num_new_elts \in 0 .. Cardinality(Ops)
      /\ mods'.available_asset <= mods'.available_asset_upperbound
  BY CountersStep
<1>2. committed' = committed /\ slots' = slots
  BY DEF Books
<1>3. /\ mods'.total_subtracted \in MinInt .. 0
      /\ mods'.available_asset \in 0 .. MaxUint
      /\ mods'.available_asset_upperbound \in 0 .. MaxUint
      /\ mods'.used \in 0 .. slots
  BY <1>1, IntBounds DEF ModFields, TypeOK
<1>4. mods'.new_hashes \in SUBSET (Entries \ Hashes(committed))
  BY DEF ModFields
<1>5. mods' \in [total_subtracted : MinInt .. 0, total_added : Nat,
                 size_increase : Nat,
                 new_hashes : SUBSET (Entries \ Hashes(committed)), used : 0 .. slots,
                 num_new_elts : 0 .. Cardinality(Ops),
                 hashset_clear_committed : BOOLEAN,
                 max_committed_clear_threshold : Nat,
                 delete_last_committed : BOOLEAN,
                 available_asset : 0 .. MaxUint,
                 available_asset_upperbound : 0 .. MaxUint]
  BY <1>1, <1>3, <1>4 DEF ModFields
<1>6. slots' \in Nat /\ committed' \in Objects \cup {NoObject}
  BY <1>2 DEF TypeOK
<1>7. pc' \in [Ops -> Labels] /\ delta' \in [Ops -> Deltas \cup {NoDelta}]
  BY DEF Books, Local, Delta
<1> QED BY <1>2, <1>5, <1>6, <1>7 DEF TypeOK, BaseType

\* The bounds that the type invariant gives.
LEMMA Ranges ==
  ASSUME TypeOK
  PROVE  /\ mods.new_hashes \cap Hashes(committed) = {}
         /\ mods.used <= slots /\ Cardinality(mods.new_hashes) <= mods.used
         /\ mods.total_subtracted >= MinInt
         /\ mods.available_asset >= 0 /\ mods.available_asset_upperbound <= MaxUint
BY IntBounds DEF TypeOK

\* Modular arithmetic is exact within the range.
LEMMA WrapsTo == ASSUME NEW n \in 0 .. MaxUint PROVE wrap(n) = n
BY IntBounds DEF wrap

-----------------------------------------------------------------------------
(* One lemma per action.                                                   *)

\* try_add_delta of a DELETE_LAST.
LEMMA AddDeleteLastStep ==
  ASSUME Inv, NEW o \in Ops, NEW d \in Deltas, AddDeleteLast(o, d)
  PROVE  Inv'
<1>1. /\ mods \in ModFields /\ slots \in Nat /\ base \in BaseType
      /\ pc \in [Ops -> Labels] /\ delta \in [Ops -> Delta] /\ TypeOK /\ CountersInv
  BY ModsTyped DEF Inv, TypeOK, BaseType
<1>2. /\ mods' = mods /\ base' = base /\ slots' = slots /\ committed' = committed
      /\ pc[o] = "idle" /\ pc'[o] = "held" /\ delta[o] = NoDelta
      /\ delta'[o] = d /\ d.type = "DELETE_LAST"
  BY <1>1 DEF AddDeleteLast, Goto, shared, Inv, LabelInv
<1>3. Local(o)
  BY <1>1 DEF AddDeleteLast, Goto, Local, Labels, Delta
<1>4. mods' \in ModFields
  BY <1>1, <1>2, DeltaShape DEF ModFields
<1>5. Books(o)
  BY <1>1, <1>2, <1>3, DeltaShape, IntBounds
  DEF Books, ModFields, AddedBy, SubtractedBy, IncreasedBy, CountedBy,
     LowerBy, UpperBy, Applied, Past, IsInt, IsAsset, IsInsert, IsClear, NoDelta
<1>6. TypeOK'
  <2>1. /\ mods'.new_hashes = mods.new_hashes /\ mods'.used = mods.used
        /\ mods'.total_subtracted >= MinInt
        /\ mods'.available_asset >= 0 /\ mods'.available_asset_upperbound <= MaxUint
    BY <1>1, <1>2, Ranges, DeltaShape, IntBounds DEF ModFields
  <2> QED BY <1>1, <1>2, <1>4, <1>5, <2>1, Ranges, TypeStep
<1>7. LabelInv'
  BY <1>1, <1>2, <1>3 DEF Inv, LabelInv, Local, IsInt, IsAsset, IsInsert, IsClear, NoDelta
<1>8. BaseQuiet(o) /\ CoverQuiet(o) /\ HashQuiet(o) /\ RoomQuiet(o) /\ ClearQuiet(o) /\ DeleteQuiet(o)
  BY <1>1, <1>2, DeltaShape, IntBounds
  DEF ModFields, BaseQuiet, InBase, CoverQuiet, Applied, HashQuiet, Inserts, NewElement,
      RoomQuiet, RoomBy, ClearQuiet, Past, DeleteQuiet,
      IsInt, IsAsset, IsInsert, IsClear, NoDelta
<1> QED BY <1>4, <1>5, <1>6, <1>7, <1>8, StillStep DEF Inv

\* try_add_delta when the base object refuses the class.
LEMMA AddRefusedStep ==
  ASSUME Inv, NEW o \in Ops, NEW d \in Deltas, AddDelta(o, d), ~CanSet(DeltaClass(d))
  PROVE  Inv'
<1>1. /\ mods \in ModFields /\ slots \in Nat /\ base \in BaseType
      /\ pc \in [Ops -> Labels] /\ delta \in [Ops -> Delta] /\ TypeOK /\ CountersInv
  BY ModsTyped DEF Inv, TypeOK, BaseType
<1>2. /\ mods' = mods /\ base' = base /\ slots' = slots /\ committed' = committed
      /\ pc[o] = "idle" /\ pc'[o] = "void" /\ delta[o] = NoDelta
      /\ delta'[o] = d /\ d.type # "DELETE_LAST" /\ d # NoDelta /\ d \in Delta
  BY <1>1, RealDelta DEF AddDelta, Goto, shared, Inv, LabelInv
<1>3. Local(o)
  BY <1>1, RealDelta DEF AddDelta, Goto, Local, Labels, Delta
<1>4. mods' \in ModFields
  BY <1>1, <1>2, DeltaShape DEF ModFields
<1>5. Books(o)
  BY <1>1, <1>2, <1>3, DeltaShape, IntBounds
  DEF Books, ModFields, AddedBy, SubtractedBy, IncreasedBy, CountedBy,
     LowerBy, UpperBy, Applied, Past, IsInt, IsAsset, IsInsert, IsClear, NoDelta
<1>6. TypeOK'
  <2>1. /\ mods'.new_hashes = mods.new_hashes /\ mods'.used = mods.used
        /\ mods'.total_subtracted >= MinInt
        /\ mods'.available_asset >= 0 /\ mods'.available_asset_upperbound <= MaxUint
    BY <1>1, <1>2, Ranges, DeltaShape, IntBounds DEF ModFields
  <2> QED BY <1>1, <1>2, <1>4, <1>5, <2>1, Ranges, TypeStep
<1>7. LabelInv'
  BY <1>1, <1>2, <1>3 DEF Inv, LabelInv, Local, IsInt, IsAsset, IsInsert, IsClear, NoDelta
<1>8. BaseQuiet(o) /\ CoverQuiet(o) /\ HashQuiet(o) /\ RoomQuiet(o) /\ ClearQuiet(o) /\ DeleteQuiet(o)
  BY <1>1, <1>2, DeltaShape, IntBounds
  DEF ModFields, BaseQuiet, InBase, CoverQuiet, Applied, HashQuiet, Inserts, NewElement,
      RoomQuiet, RoomBy, ClearQuiet, Past, DeleteQuiet,
      IsInt, IsAsset, IsInsert, IsClear, NoDelta
<1> QED BY <1>4, <1>5, <1>6, <1>7, <1>8, StillStep DEF Inv

\* A subtraction from an integer that the base value covers.
LEMMA AddSubtractStep ==
  ASSUME Inv, NEW o \in Ops, ApplySetAdd(o), delta[o].delta < 0,
         SubtractFits(delta[o].set_value, mods.total_subtracted + delta[o].delta)
  PROVE  Inv'
<1>1. /\ mods \in ModFields /\ slots \in Nat /\ base \in BaseType
      /\ pc \in [Ops -> Labels] /\ delta \in [Ops -> Delta] /\ TypeOK /\ CountersInv
  BY ModsTyped DEF Inv, TypeOK, BaseType
<1>2. /\ base' = base /\ slots' = slots /\ committed' = committed /\ delta' = delta
      /\ pc[o] = "based" /\ pc'[o] = "held" /\ IsInt(delta[o])
      /\ mods' = [mods EXCEPT !.total_subtracted = @ + delta[o].delta]
  BY <1>1, DeltaShape, IntBounds DEF ApplySetAdd, IsInt, Goto, shared, Inv, LabelInv
<1>3. Local(o)
  BY <1>1, DeltaShape, IntBounds DEF ApplySetAdd, IsInt, Goto, Local, Labels, Delta
<1>4. mods' \in ModFields
  BY <1>1, <1>2, DeltaShape DEF ModFields
<1>5. Books(o)
  BY <1>1, <1>2, <1>3, DeltaShape, IntBounds
  DEF Books, ModFields, AddedBy, SubtractedBy, IncreasedBy, CountedBy,
     LowerBy, UpperBy, Applied, Past, IsInt, IsAsset, IsInsert, IsClear, NoDelta
<1>6. TypeOK'
  <2>1. mods'.total_subtracted >= MinInt
    BY <1>1, <1>2 DEF SubtractFits, ModFields
  <2> QED BY <1>1, <1>2, <1>4, <1>5, <2>1, TypeStep, IntBounds DEF TypeOK, ModFields
<1>7. LabelInv'
  BY <1>1, <1>2, <1>3 DEF Inv, LabelInv, Local, IsInt, IsAsset, IsInsert, IsClear, NoDelta
<1>8. CoverInv'
  <2> SUFFICES ASSUME NEW p \in Ops, IsInt(delta[p]), pc'[p] \in Applied, delta[p].delta < 0
               PROVE  delta[p].set_value >= 0 /\ delta[p].set_value + mods'.total_subtracted >= 0
    BY <1>2 DEF CoverInv
  <2>1. mods'.total_subtracted = mods.total_subtracted + delta[o].delta
    BY <1>1, <1>2 DEF ModFields
  <2>2. o \in Based /\ p \in Based
    BY <1>2, <1>3 DEF Based, InBase, IsInt, Applied, Local
  <2>3. DeltaClass(delta[o]) = DeltaClass(delta[p])
    BY <2>2 DEF Inv, BaseInv
  <2>4. delta[o].set_value = delta[p].set_value
    BY <1>2, <2>3 DEF DeltaClass, IsInt
  <2> QED BY <2>1, <2>4 DEF SubtractFits
<1>9. BaseQuiet(o) /\ HashQuiet(o) /\ RoomQuiet(o) /\ ClearQuiet(o) /\ DeleteQuiet(o)
  BY <1>1, <1>2, DeltaShape, IntBounds
  DEF ModFields, BaseQuiet, InBase, HashQuiet, Inserts, NewElement, RoomQuiet, RoomBy,
      Applied, ClearQuiet, Past, DeleteQuiet,
      IsInt, IsAsset, IsInsert, IsClear, NoDelta
<1> QED BY <1>4, <1>5, <1>6, <1>7, <1>8, <1>9, StillStep DEF Inv

\* An addition to an integer.
LEMMA AddAddStep ==
  ASSUME Inv, NEW o \in Ops, ApplySetAdd(o), delta[o].delta >= 0
  PROVE  Inv'
<1>1. /\ mods \in ModFields /\ slots \in Nat /\ base \in BaseType
      /\ pc \in [Ops -> Labels] /\ delta \in [Ops -> Delta] /\ TypeOK /\ CountersInv
  BY ModsTyped DEF Inv, TypeOK, BaseType
<1>2. /\ base' = base /\ slots' = slots /\ committed' = committed /\ delta' = delta
      /\ pc[o] = "based" /\ pc'[o] = "held" /\ IsInt(delta[o])
      /\ mods' = [mods EXCEPT !.total_added = @ + delta[o].delta]
  BY <1>1, DeltaShape, IntBounds DEF ApplySetAdd, IsInt, Goto, shared, Inv, LabelInv
<1>3. Local(o)
  BY <1>1, DeltaShape, IntBounds DEF ApplySetAdd, IsInt, Goto, Local, Labels, Delta
<1>4. mods' \in ModFields
  BY <1>1, <1>2, DeltaShape DEF ModFields
<1>5. Books(o)
  BY <1>1, <1>2, <1>3, DeltaShape, IntBounds
  DEF Books, ModFields, AddedBy, SubtractedBy, IncreasedBy, CountedBy,
     LowerBy, UpperBy, Applied, Past, IsInt, IsAsset, IsInsert, IsClear, NoDelta
<1>6. TypeOK'
  <2>1. /\ mods'.new_hashes = mods.new_hashes /\ mods'.used = mods.used
        /\ mods'.total_subtracted >= MinInt
        /\ mods'.available_asset >= 0 /\ mods'.available_asset_upperbound <= MaxUint
    BY <1>1, <1>2, Ranges, DeltaShape, IntBounds DEF ModFields
  <2> QED BY <1>1, <1>2, <1>4, <1>5, <2>1, Ranges, TypeStep
<1>7. LabelInv'
  BY <1>1, <1>2, <1>3 DEF Inv, LabelInv, Local, IsInt, IsAsset, IsInsert, IsClear, NoDelta
<1>8. BaseQuiet(o) /\ CoverQuiet(o) /\ HashQuiet(o) /\ RoomQuiet(o) /\ ClearQuiet(o) /\ DeleteQuiet(o)
  BY <1>1, <1>2, DeltaShape, IntBounds
  DEF ModFields, BaseQuiet, InBase, CoverQuiet, Applied, HashQuiet, Inserts, NewElement,
      RoomQuiet, RoomBy, ClearQuiet, Past, DeleteQuiet,
      IsInt, IsAsset, IsInsert, IsClear, NoDelta
<1> QED BY <1>4, <1>5, <1>6, <1>7, <1>8, StillStep DEF Inv

\* A subtraction that the base value does not cover.
LEMMA SubtractRefusedStep ==
  ASSUME Inv, NEW o \in Ops, ApplySetAdd(o), delta[o].delta < 0,
         ~SubtractFits(delta[o].set_value, mods.total_subtracted + delta[o].delta)
  PROVE  Inv'
<1>1. /\ mods \in ModFields /\ slots \in Nat /\ base \in BaseType
      /\ pc \in [Ops -> Labels] /\ delta \in [Ops -> Delta] /\ TypeOK /\ CountersInv
  BY ModsTyped DEF Inv, TypeOK, BaseType
<1>2. /\ base' = base /\ slots' = slots /\ committed' = committed /\ delta' = delta
      /\ pc[o] = "based" /\ pc'[o] = "unbase" /\ IsInt(delta[o])
      /\ mods' = mods
  BY <1>1, DeltaShape, IntBounds DEF ApplySetAdd, IsInt, Goto, shared, Inv, LabelInv
<1>3. Local(o)
  BY <1>1, DeltaShape, IntBounds DEF ApplySetAdd, IsInt, Goto, Local, Labels, Delta
<1>4. mods' \in ModFields
  BY <1>1, <1>2, DeltaShape DEF ModFields
<1>5. Books(o)
  BY <1>1, <1>2, <1>3, DeltaShape, IntBounds
  DEF Books, ModFields, AddedBy, SubtractedBy, IncreasedBy, CountedBy,
     LowerBy, UpperBy, Applied, Past, IsInt, IsAsset, IsInsert, IsClear, NoDelta
<1>6. TypeOK'
  <2>1. /\ mods'.new_hashes = mods.new_hashes /\ mods'.used = mods.used
        /\ mods'.total_subtracted >= MinInt
        /\ mods'.available_asset >= 0 /\ mods'.available_asset_upperbound <= MaxUint
    BY <1>1, <1>2, Ranges, DeltaShape, IntBounds DEF ModFields
  <2> QED BY <1>1, <1>2, <1>4, <1>5, <2>1, Ranges, TypeStep
<1>7. LabelInv'
  BY <1>1, <1>2, <1>3 DEF Inv, LabelInv, Local, IsInt, IsAsset, IsInsert, IsClear, NoDelta
<1>8. BaseQuiet(o) /\ CoverQuiet(o) /\ HashQuiet(o) /\ RoomQuiet(o) /\ ClearQuiet(o) /\ DeleteQuiet(o)
  BY <1>1, <1>2, DeltaShape, IntBounds
  DEF ModFields, BaseQuiet, InBase, CoverQuiet, Applied, HashQuiet, Inserts, NewElement,
      RoomQuiet, RoomBy, ClearQuiet, Past, DeleteQuiet,
      IsInt, IsAsset, IsInsert, IsClear, NoDelta
<1> QED BY <1>4, <1>5, <1>6, <1>7, <1>8, StillStep DEF Inv

\* A subtraction from an asset, reserved in available_asset.
LEMMA AssetTakeStep ==
  ASSUME Inv, NEW o \in Ops, ApplyAssetAdd(o), delta[o].asset_delta < 0,
         try_add_uint64(delta[o].asset_delta, mods.available_asset)
  PROVE  Inv'
<1>1. /\ mods \in ModFields /\ slots \in Nat /\ base \in BaseType
      /\ pc \in [Ops -> Labels] /\ delta \in [Ops -> Delta] /\ TypeOK /\ CountersInv
  BY ModsTyped DEF Inv, TypeOK, BaseType
<1>2. /\ base' = base /\ slots' = slots /\ committed' = committed /\ delta' = delta
      /\ pc[o] = "based" /\ pc'[o] = "held" /\ IsAsset(delta[o])
      /\ mods' = [mods EXCEPT !.available_asset = @ + delta[o].asset_delta]
  BY <1>1, DeltaShape, IntBounds DEF ApplyAssetAdd, IsAsset, Goto, shared, Inv, LabelInv
<1>3. Local(o)
  BY <1>1, DeltaShape, IntBounds DEF ApplyAssetAdd, IsAsset, Goto, Local, Labels, Delta
<1>4. mods' \in ModFields
  BY <1>1, <1>2, DeltaShape DEF ModFields
<1>5. Books(o)
  BY <1>1, <1>2, <1>3, DeltaShape, IntBounds
  DEF Books, ModFields, AddedBy, SubtractedBy, IncreasedBy, CountedBy,
     LowerBy, UpperBy, Applied, Past, IsInt, IsAsset, IsInsert, IsClear, NoDelta
<1>6. TypeOK'
  <2>1. mods'.available_asset >= 0
    BY <1>1, <1>2, IntBounds DEF try_add_uint64, ModFields
  <2> QED BY <1>1, <1>2, <1>4, <1>5, <2>1, TypeStep, IntBounds DEF TypeOK, ModFields
<1>7. LabelInv'
  BY <1>1, <1>2, <1>3 DEF Inv, LabelInv, Local, IsInt, IsAsset, IsInsert, IsClear, NoDelta
<1>8. BaseQuiet(o) /\ CoverQuiet(o) /\ HashQuiet(o) /\ RoomQuiet(o) /\ ClearQuiet(o) /\ DeleteQuiet(o)
  BY <1>1, <1>2, DeltaShape, IntBounds
  DEF ModFields, BaseQuiet, InBase, CoverQuiet, Applied, HashQuiet, Inserts, NewElement,
      RoomQuiet, RoomBy, ClearQuiet, Past, DeleteQuiet,
      IsInt, IsAsset, IsInsert, IsClear, NoDelta
<1> QED BY <1>4, <1>5, <1>6, <1>7, <1>8, StillStep DEF Inv

\* An addition to an asset, reserved in available_asset_upperbound.
LEMMA AssetGiveStep ==
  ASSUME Inv, NEW o \in Ops, ApplyAssetAdd(o), delta[o].asset_delta >= 0,
         try_add_uint64(delta[o].asset_delta, mods.available_asset_upperbound)
  PROVE  Inv'
<1>1. /\ mods \in ModFields /\ slots \in Nat /\ base \in BaseType
      /\ pc \in [Ops -> Labels] /\ delta \in [Ops -> Delta] /\ TypeOK /\ CountersInv
  BY ModsTyped DEF Inv, TypeOK, BaseType
<1>2. /\ base' = base /\ slots' = slots /\ committed' = committed /\ delta' = delta
      /\ pc[o] = "based" /\ pc'[o] = "held" /\ IsAsset(delta[o])
      /\ mods' = [mods EXCEPT !.available_asset_upperbound = @ + delta[o].asset_delta]
  BY <1>1, DeltaShape, IntBounds DEF ApplyAssetAdd, IsAsset, Goto, shared, Inv, LabelInv
<1>3. Local(o)
  BY <1>1, DeltaShape, IntBounds DEF ApplyAssetAdd, IsAsset, Goto, Local, Labels, Delta
<1>4. mods' \in ModFields
  BY <1>1, <1>2, DeltaShape DEF ModFields
<1>5. Books(o)
  BY <1>1, <1>2, <1>3, DeltaShape, IntBounds
  DEF Books, ModFields, AddedBy, SubtractedBy, IncreasedBy, CountedBy,
     LowerBy, UpperBy, Applied, Past, IsInt, IsAsset, IsInsert, IsClear, NoDelta
<1>6. TypeOK'
  <2>1. mods'.available_asset_upperbound <= MaxUint
    BY <1>1, <1>2, IntBounds DEF try_add_uint64, ModFields
  <2> QED BY <1>1, <1>2, <1>4, <1>5, <2>1, TypeStep, IntBounds DEF TypeOK, ModFields
<1>7. LabelInv'
  BY <1>1, <1>2, <1>3 DEF Inv, LabelInv, Local, IsInt, IsAsset, IsInsert, IsClear, NoDelta
<1>8. BaseQuiet(o) /\ CoverQuiet(o) /\ HashQuiet(o) /\ RoomQuiet(o) /\ ClearQuiet(o) /\ DeleteQuiet(o)
  BY <1>1, <1>2, DeltaShape, IntBounds
  DEF ModFields, BaseQuiet, InBase, CoverQuiet, Applied, HashQuiet, Inserts, NewElement,
      RoomQuiet, RoomBy, ClearQuiet, Past, DeleteQuiet,
      IsInt, IsAsset, IsInsert, IsClear, NoDelta
<1> QED BY <1>4, <1>5, <1>6, <1>7, <1>8, StillStep DEF Inv

\* An amount of an asset that would pass a bound.
LEMMA AssetRefusedStep ==
  ASSUME Inv, NEW o \in Ops, ApplyAssetAdd(o),
         IF delta[o].asset_delta < 0
         THEN ~try_add_uint64(delta[o].asset_delta, mods.available_asset)
         ELSE ~try_add_uint64(delta[o].asset_delta, mods.available_asset_upperbound)
  PROVE  Inv'
<1>1. /\ mods \in ModFields /\ slots \in Nat /\ base \in BaseType
      /\ pc \in [Ops -> Labels] /\ delta \in [Ops -> Delta] /\ TypeOK /\ CountersInv
  BY ModsTyped DEF Inv, TypeOK, BaseType
<1>2. /\ base' = base /\ slots' = slots /\ committed' = committed /\ delta' = delta
      /\ pc[o] = "based" /\ pc'[o] = "unbase" /\ IsAsset(delta[o])
      /\ mods' = mods
  BY <1>1, DeltaShape, IntBounds DEF ApplyAssetAdd, IsAsset, Goto, shared, Inv, LabelInv
<1>3. Local(o)
  BY <1>1, DeltaShape, IntBounds DEF ApplyAssetAdd, IsAsset, Goto, Local, Labels, Delta
<1>4. mods' \in ModFields
  BY <1>1, <1>2, DeltaShape DEF ModFields
<1>5. Books(o)
  BY <1>1, <1>2, <1>3, DeltaShape, IntBounds
  DEF Books, ModFields, AddedBy, SubtractedBy, IncreasedBy, CountedBy,
     LowerBy, UpperBy, Applied, Past, IsInt, IsAsset, IsInsert, IsClear, NoDelta
<1>6. TypeOK'
  <2>1. /\ mods'.new_hashes = mods.new_hashes /\ mods'.used = mods.used
        /\ mods'.total_subtracted >= MinInt
        /\ mods'.available_asset >= 0 /\ mods'.available_asset_upperbound <= MaxUint
    BY <1>1, <1>2, Ranges, DeltaShape, IntBounds DEF ModFields
  <2> QED BY <1>1, <1>2, <1>4, <1>5, <2>1, Ranges, TypeStep
<1>7. LabelInv'
  BY <1>1, <1>2, <1>3 DEF Inv, LabelInv, Local, IsInt, IsAsset, IsInsert, IsClear, NoDelta
<1>8. BaseQuiet(o) /\ CoverQuiet(o) /\ HashQuiet(o) /\ RoomQuiet(o) /\ ClearQuiet(o) /\ DeleteQuiet(o)
  BY <1>1, <1>2, DeltaShape, IntBounds
  DEF ModFields, BaseQuiet, InBase, CoverQuiet, Applied, HashQuiet, Inserts, NewElement,
      RoomQuiet, RoomBy, ClearQuiet, Past, DeleteQuiet,
      IsInt, IsAsset, IsInsert, IsClear, NoDelta
<1> QED BY <1>4, <1>5, <1>6, <1>7, <1>8, StillStep DEF Inv

\* An increase of the limit of a set.
LEMMA IncreaseStep ==
  ASSUME Inv, NEW o \in Ops, ApplyIncreaseLimit(o)
  PROVE  Inv'
<1>1. /\ mods \in ModFields /\ slots \in Nat /\ base \in BaseType
      /\ pc \in [Ops -> Labels] /\ delta \in [Ops -> Delta] /\ TypeOK /\ CountersInv
  BY ModsTyped DEF Inv, TypeOK, BaseType
<1>2. /\ base' = base /\ slots' = slots /\ committed' = committed /\ delta' = delta
      /\ pc[o] = "based" /\ pc'[o] = "held" /\ delta[o].type = "HASH_SET_INCREASE_LIMIT"
      /\ mods' = [mods EXCEPT !.size_increase = @ + delta[o].limit_increase]
  BY <1>1 DEF ApplyIncreaseLimit, Goto, shared, Inv, LabelInv
<1>3. Local(o)
  BY <1>1 DEF ApplyIncreaseLimit, Goto, Local, Labels, Delta
<1>4. mods' \in ModFields
  BY <1>1, <1>2, DeltaShape DEF ModFields
<1>5. Books(o)
  BY <1>1, <1>2, <1>3, DeltaShape, IntBounds
  DEF Books, ModFields, AddedBy, SubtractedBy, IncreasedBy, CountedBy,
     LowerBy, UpperBy, Applied, Past, IsInt, IsAsset, IsInsert, IsClear, NoDelta
<1>6. TypeOK'
  <2>1. /\ mods'.new_hashes = mods.new_hashes /\ mods'.used = mods.used
        /\ mods'.total_subtracted >= MinInt
        /\ mods'.available_asset >= 0 /\ mods'.available_asset_upperbound <= MaxUint
    BY <1>1, <1>2, Ranges, DeltaShape, IntBounds DEF ModFields
  <2> QED BY <1>1, <1>2, <1>4, <1>5, <2>1, Ranges, TypeStep
<1>7. LabelInv'
  BY <1>1, <1>2, <1>3 DEF Inv, LabelInv, Local, IsInt, IsAsset, IsInsert, IsClear, NoDelta
<1>8. BaseQuiet(o) /\ CoverQuiet(o) /\ HashQuiet(o) /\ RoomQuiet(o) /\ ClearQuiet(o) /\ DeleteQuiet(o)
  BY <1>1, <1>2, DeltaShape, IntBounds
  DEF ModFields, BaseQuiet, InBase, CoverQuiet, Applied, HashQuiet, Inserts, NewElement,
      RoomQuiet, RoomBy, ClearQuiet, Past, DeleteQuiet,
      IsInt, IsAsset, IsInsert, IsClear, NoDelta
<1> QED BY <1>4, <1>5, <1>6, <1>7, <1>8, StillStep DEF Inv

\* An element that the committed set holds.
LEMMA CountKnownStep ==
  ASSUME Inv, NEW o \in Ops, CountElement(o), delta[o].hash \in Hashes(committed)
  PROVE  Inv'
<1>1. /\ mods \in ModFields /\ slots \in Nat /\ base \in BaseType
      /\ pc \in [Ops -> Labels] /\ delta \in [Ops -> Delta] /\ TypeOK /\ CountersInv
  BY ModsTyped DEF Inv, TypeOK, BaseType
<1>2. /\ base' = base /\ slots' = slots /\ committed' = committed /\ delta' = delta
      /\ pc[o] = "based" /\ pc'[o] = "unbase" /\ IsInsert(delta[o])
      /\ mods' = mods
  BY <1>1 DEF CountElement, IsInsert, Goto, shared, Inv, LabelInv
<1>3. Local(o)
  BY <1>1 DEF CountElement, IsInsert, Goto, Local, Labels, Delta
<1>4. mods' \in ModFields
  BY <1>1, <1>2, DeltaShape DEF ModFields
<1>5. Books(o)
  BY <1>1, <1>2, <1>3, DeltaShape, IntBounds
  DEF Books, ModFields, AddedBy, SubtractedBy, IncreasedBy, CountedBy,
     LowerBy, UpperBy, Applied, Past, IsInt, IsAsset, IsInsert, IsClear, NoDelta
<1>6. TypeOK'
  <2>1. /\ mods'.new_hashes = mods.new_hashes /\ mods'.used = mods.used
        /\ mods'.total_subtracted >= MinInt
        /\ mods'.available_asset >= 0 /\ mods'.available_asset_upperbound <= MaxUint
    BY <1>1, <1>2, Ranges, DeltaShape, IntBounds DEF ModFields
  <2> QED BY <1>1, <1>2, <1>4, <1>5, <2>1, Ranges, TypeStep
<1>7. LabelInv'
  BY <1>1, <1>2, <1>3 DEF Inv, LabelInv, Local, IsInt, IsAsset, IsInsert, IsClear, NoDelta
<1>8. BaseQuiet(o) /\ CoverQuiet(o) /\ HashQuiet(o) /\ RoomQuiet(o) /\ ClearQuiet(o) /\ DeleteQuiet(o)
  BY <1>1, <1>2, DeltaShape, IntBounds
  DEF ModFields, BaseQuiet, InBase, CoverQuiet, Applied, HashQuiet, Inserts, NewElement,
      RoomQuiet, RoomBy, ClearQuiet, Past, DeleteQuiet,
      IsInt, IsAsset, IsInsert, IsClear, NoDelta
<1> QED BY <1>4, <1>5, <1>6, <1>7, <1>8, StillStep DEF Inv

\* An element that is counted and finds no room.
LEMMA CountFullStep ==
  ASSUME Inv, NEW o \in Ops, CountElement(o), delta[o].hash \notin Hashes(committed),
         ~RoomFor(mods.num_new_elts + 1)
  PROVE  Inv'
<1>1. /\ mods \in ModFields /\ slots \in Nat /\ base \in BaseType
      /\ pc \in [Ops -> Labels] /\ delta \in [Ops -> Delta] /\ TypeOK /\ CountersInv
  BY ModsTyped DEF Inv, TypeOK, BaseType
<1>2. /\ base' = base /\ slots' = slots /\ committed' = committed /\ delta' = delta
      /\ pc[o] = "based" /\ pc'[o] = "uncount" /\ IsInsert(delta[o])
      /\ mods' = [mods EXCEPT !.num_new_elts = @ + 1]
  BY <1>1 DEF CountElement, IsInsert, Goto, shared, Inv, LabelInv
<1>3. Local(o)
  BY <1>1 DEF CountElement, IsInsert, Goto, Local, Labels, Delta
<1>4. mods' \in ModFields
  BY <1>1, <1>2, DeltaShape DEF ModFields
<1>5. Books(o)
  BY <1>1, <1>2, <1>3, DeltaShape, IntBounds
  DEF Books, ModFields, AddedBy, SubtractedBy, IncreasedBy, CountedBy,
     LowerBy, UpperBy, Applied, Past, IsInt, IsAsset, IsInsert, IsClear, NoDelta
<1>6. TypeOK'
  <2>1. /\ mods'.new_hashes = mods.new_hashes /\ mods'.used = mods.used
        /\ mods'.total_subtracted >= MinInt
        /\ mods'.available_asset >= 0 /\ mods'.available_asset_upperbound <= MaxUint
    BY <1>1, <1>2, Ranges, DeltaShape, IntBounds DEF ModFields
  <2> QED BY <1>1, <1>2, <1>4, <1>5, <2>1, Ranges, TypeStep
<1>7. LabelInv'
  BY <1>1, <1>2, <1>3 DEF Inv, LabelInv, Local, IsInt, IsAsset, IsInsert, IsClear, NoDelta
<1>8. BaseQuiet(o) /\ CoverQuiet(o) /\ HashQuiet(o) /\ RoomQuiet(o) /\ ClearQuiet(o) /\ DeleteQuiet(o)
  BY <1>1, <1>2, DeltaShape, IntBounds
  DEF ModFields, BaseQuiet, InBase, CoverQuiet, Applied, HashQuiet, Inserts, NewElement,
      RoomQuiet, RoomBy, ClearQuiet, Past, DeleteQuiet,
      IsInt, IsAsset, IsInsert, IsClear, NoDelta
<1> QED BY <1>4, <1>5, <1>6, <1>7, <1>8, StillStep DEF Inv

\* An element that is counted and finds room.
LEMMA CountStep ==
  ASSUME Inv, NEW o \in Ops, CountElement(o), delta[o].hash \notin Hashes(committed),
         RoomFor(mods.num_new_elts + 1)
  PROVE  Inv'
<1>1. /\ mods \in ModFields /\ slots \in Nat /\ base \in BaseType
      /\ pc \in [Ops -> Labels] /\ delta \in [Ops -> Delta] /\ TypeOK /\ CountersInv
  BY ModsTyped DEF Inv, TypeOK, BaseType
<1>2. /\ base' = base /\ slots' = slots /\ committed' = committed /\ delta' = delta
      /\ pc[o] = "based" /\ pc'[o] = "insert" /\ IsInsert(delta[o])
      /\ mods' = [mods EXCEPT !.num_new_elts = @ + 1]
  BY <1>1 DEF CountElement, IsInsert, Goto, shared, Inv, LabelInv
<1>3. Local(o)
  BY <1>1 DEF CountElement, IsInsert, Goto, Local, Labels, Delta
<1>4. mods' \in ModFields
  BY <1>1, <1>2, DeltaShape DEF ModFields
<1>5. Books(o)
  BY <1>1, <1>2, <1>3, DeltaShape, IntBounds
  DEF Books, ModFields, AddedBy, SubtractedBy, IncreasedBy, CountedBy,
     LowerBy, UpperBy, Applied, Past, IsInt, IsAsset, IsInsert, IsClear, NoDelta
<1>6. TypeOK'
  <2>1. /\ mods'.new_hashes = mods.new_hashes /\ mods'.used = mods.used
        /\ mods'.total_subtracted >= MinInt
        /\ mods'.available_asset >= 0 /\ mods'.available_asset_upperbound <= MaxUint
    BY <1>1, <1>2, Ranges, DeltaShape, IntBounds DEF ModFields
  <2> QED BY <1>1, <1>2, <1>4, <1>5, <2>1, Ranges, TypeStep
<1>7. CountersInv'
  BY <1>1, <1>4, <1>5, CountersStep
<1>8. LabelInv'
  BY <1>1, <1>2, <1>3 DEF Inv, LabelInv, Local, IsInt, IsAsset, IsInsert, IsClear, NoDelta
<1>9. HashInv'
  <2>1. \A p \in Ops : Inserts(pc'[p], delta[p]) <=> Inserts(pc[p], delta[p])
    BY <1>2, <1>3 DEF Local, Inserts
  <2>2. \A p \in Ops : NewElement(pc'[p], delta[p]) => p = o \/ NewElement(pc[p], delta[p])
    BY <1>3 DEF Local
  <2>3. {p \in Ops : Inserts(pc'[p], delta[p])} = {p \in Ops : Inserts(pc[p], delta[p])}
    BY <2>1
  <2>4. mods'.new_hashes = mods.new_hashes
    BY <1>1, <1>2 DEF ModFields
  <2>5. mods'.new_hashes = {delta'[p].hash : p \in {q \in Ops : Inserts(pc'[q], delta'[q])}}
    BY <1>2, <2>3, <2>4 DEF Inv, HashInv
  <2>6. \A p, q \in Ops :
          Inserts(pc'[p], delta[p]) /\ Inserts(pc'[q], delta[q]) /\ p # q
            => delta[p].hash # delta[q].hash
    BY <2>1 DEF Inv, HashInv
  <2>7. \A p \in Ops : NewElement(pc'[p], delta[p]) => delta[p].hash \notin Hashes(committed)
    BY <2>2 DEF Inv, HashInv
  <2> QED BY <1>2, <2>5, <2>6, <2>7 DEF HashInv
<1>10. RoomInv'
  <2>1. SumFunctionOnSet(Room(pc', delta'), Ops) <= SumFunctionOnSet(Counted(pc', delta'), Ops)
        /\ SumFunctionOnSet(Room(pc', delta'), Ops) \in Nat
        /\ SumFunctionOnSet(Counted(pc', delta'), Ops) \in 0 .. Cardinality(Ops)
    BY <1>3, SumTypes DEF Local
  <2>2. SumFunctionOnSet(Counted(pc', delta'), Ops) = mods.num_new_elts + 1
    BY <1>1, <1>2, <1>7 DEF CountersInv, ModFields
  <2>3. Cardinality(Hashes(committed)) \in Nat /\ SizeLimit(committed) \in Nat
    BY <1>1, HashesNat DEF TypeOK
  <2>4. Cardinality(Hashes(committed)) + SumFunctionOnSet(Room(pc', delta'), Ops)
          <= SizeLimit(committed)
    BY <2>1, <2>2, <2>3 DEF RoomFor
  <2> QED BY <1>2, <2>4 DEF RoomInv
<1>11. BaseQuiet(o) /\ CoverQuiet(o) /\ ClearQuiet(o) /\ DeleteQuiet(o)
  BY <1>1, <1>2, DeltaShape, IntBounds
  DEF ModFields, BaseQuiet, InBase, CoverQuiet, Applied, ClearQuiet, Past, DeleteQuiet,
      IsInt, IsAsset, IsInsert, IsClear, NoDelta
<1> QED BY <1>4, <1>5, <1>6, <1>8, <1>9, <1>10, <1>11, StillStep DEF Inv

\* An element that new_hashes takes.
LEMMA InsertStep ==
  ASSUME Inv, NEW o \in Ops, InsertHash(o), delta[o].hash \notin mods.new_hashes, mods.used < slots
  PROVE  Inv'
<1>1. /\ mods \in ModFields /\ slots \in Nat /\ base \in BaseType
      /\ pc \in [Ops -> Labels] /\ delta \in [Ops -> Delta] /\ TypeOK /\ CountersInv
  BY ModsTyped DEF Inv, TypeOK, BaseType
<1>2. /\ base' = base /\ slots' = slots /\ committed' = committed /\ delta' = delta
      /\ pc[o] = "insert" /\ pc'[o] = "held" /\ IsInsert(delta[o])
      /\ mods' = [mods EXCEPT !.new_hashes = @ \cup {delta[o].hash}, !.used = @ + 1]
      /\ delta[o].hash \notin Hashes(committed)
  BY <1>1 DEF InsertHash, HashInv, NewElement, Goto, shared, Inv, LabelInv
<1>3. Local(o)
  BY <1>1 DEF InsertHash, HashInv, NewElement, Goto, Local, Labels, Delta
<1>4. mods' \in ModFields
  <2>1. delta[o].hash \in Entries
    BY <1>1, <1>2, DeltaShape
  <2>2. mods.new_hashes \cup {delta[o].hash} \in SUBSET Entries /\ mods.used + 1 \in Nat
    BY <1>1, <2>1 DEF ModFields
  <2> QED BY <1>1, <1>2, <2>2, Zenon DEF ModFields
<1>5. Books(o)
  BY <1>1, <1>2, <1>3, DeltaShape, IntBounds
  DEF Books, ModFields, AddedBy, SubtractedBy, IncreasedBy, CountedBy,
     LowerBy, UpperBy, Applied, Past, IsInt, IsAsset, IsInsert, IsClear, NoDelta
<1>6. TypeOK'
  <2>1. IsFiniteSet(mods.new_hashes)
    BY <1>1, EntriesFinite, FS_Subset DEF ModFields
  <2>2. Cardinality(mods.new_hashes \cup {delta[o].hash}) = Cardinality(mods.new_hashes) + 1
        /\ Cardinality(mods.new_hashes) \in Nat
    BY <2>1, FS_AddElement, FS_CardinalityType
  <2>3. Cardinality(mods'.new_hashes) <= mods'.used /\ mods'.used <= slots
    BY <1>1, <1>2, <2>2 DEF TypeOK, ModFields
  <2>4. mods'.new_hashes \cap Hashes(committed) = {}
    BY <1>1, <1>2 DEF TypeOK, ModFields
  <2>5. /\ mods'.total_subtracted >= MinInt
        /\ mods'.available_asset >= 0 /\ mods'.available_asset_upperbound <= MaxUint
    BY <1>1, <1>2, IntBounds DEF TypeOK, ModFields
  <2> QED BY <1>1, <1>2, <1>4, <1>5, <2>3, <2>4, <2>5, TypeStep
<1>7. LabelInv'
  BY <1>1, <1>2, <1>3 DEF Inv, LabelInv, Local, IsInt, IsAsset, IsInsert, IsClear, NoDelta
<1>8. HashInv'
  <2> DEFINE I == {p \in Ops : Inserts(pc[p], delta[p])}
  <2>1. {p \in Ops : Inserts(pc'[p], delta[p])} = I \cup {o}
    BY <1>2, <1>3 DEF Local, Inserts
  <2>2. \A p \in Ops : NewElement(pc'[p], delta[p]) <=> NewElement(pc[p], delta[p])
    BY <1>2, <1>3 DEF Local, NewElement
  <2>3. mods.new_hashes = {delta[p].hash : p \in I}
    BY DEF Inv, HashInv
  <2>4. mods'.new_hashes = mods.new_hashes \cup {delta[o].hash}
    BY <1>1, <1>2 DEF ModFields
  <2>5. mods'.new_hashes = {delta[p].hash : p \in I \cup {o}}
    BY <2>3, <2>4
  <2>6. \A p \in I : delta[p].hash # delta[o].hash
    BY <2>3
  <2>7. \A p, q \in I \cup {o} : p # q => delta[p].hash # delta[q].hash
    BY <2>6 DEF Inv, HashInv
  <2>8. \A p, q \in Ops :
          Inserts(pc'[p], delta[p]) /\ Inserts(pc'[q], delta[q]) /\ p # q
            => delta[p].hash # delta[q].hash
    BY <2>1, <2>7
  <2>9. \A p \in Ops : NewElement(pc'[p], delta[p]) => delta[p].hash \notin Hashes(committed)
    BY <2>2 DEF Inv, HashInv
  <2> QED BY <1>2, <2>1, <2>5, <2>8, <2>9 DEF HashInv
<1>9. BaseQuiet(o) /\ CoverQuiet(o) /\ RoomQuiet(o) /\ ClearQuiet(o) /\ DeleteQuiet(o)
  BY <1>1, <1>2, DeltaShape, IntBounds
  DEF ModFields, BaseQuiet, InBase, CoverQuiet, Applied, RoomQuiet, RoomBy, ClearQuiet,
      Past, DeleteQuiet,
      IsInt, IsAsset, IsInsert, IsClear, NoDelta
<1> QED BY <1>4, <1>5, <1>6, <1>7, <1>8, <1>9, StillStep DEF Inv

\* An element that new_hashes holds already or has no slot for.
LEMMA InsertRefusedStep ==
  ASSUME Inv, NEW o \in Ops, InsertHash(o), delta[o].hash \in mods.new_hashes \/ mods.used = slots
  PROVE  Inv'
<1>1. /\ mods \in ModFields /\ slots \in Nat /\ base \in BaseType
      /\ pc \in [Ops -> Labels] /\ delta \in [Ops -> Delta] /\ TypeOK /\ CountersInv
  BY ModsTyped DEF Inv, TypeOK, BaseType
<1>2. /\ base' = base /\ slots' = slots /\ committed' = committed /\ delta' = delta
      /\ pc[o] = "insert" /\ pc'[o] = "uncount" /\ IsInsert(delta[o])
      /\ mods' = mods
  BY <1>1 DEF InsertHash, ModFields, Goto, shared, Inv, LabelInv
<1>3. Local(o)
  BY <1>1 DEF InsertHash, ModFields, Goto, Local, Labels, Delta
<1>4. mods' \in ModFields
  BY <1>1, <1>2, DeltaShape DEF ModFields
<1>5. Books(o)
  BY <1>1, <1>2, <1>3, DeltaShape, IntBounds
  DEF Books, ModFields, AddedBy, SubtractedBy, IncreasedBy, CountedBy,
     LowerBy, UpperBy, Applied, Past, IsInt, IsAsset, IsInsert, IsClear, NoDelta
<1>6. TypeOK'
  <2>1. /\ mods'.new_hashes = mods.new_hashes /\ mods'.used = mods.used
        /\ mods'.total_subtracted >= MinInt
        /\ mods'.available_asset >= 0 /\ mods'.available_asset_upperbound <= MaxUint
    BY <1>1, <1>2, Ranges, DeltaShape, IntBounds DEF ModFields
  <2> QED BY <1>1, <1>2, <1>4, <1>5, <2>1, Ranges, TypeStep
<1>7. LabelInv'
  BY <1>1, <1>2, <1>3 DEF Inv, LabelInv, Local, IsInt, IsAsset, IsInsert, IsClear, NoDelta
<1>8. BaseQuiet(o) /\ CoverQuiet(o) /\ HashQuiet(o) /\ RoomQuiet(o) /\ ClearQuiet(o) /\ DeleteQuiet(o)
  BY <1>1, <1>2, DeltaShape, IntBounds
  DEF ModFields, BaseQuiet, InBase, CoverQuiet, Applied, HashQuiet, Inserts, NewElement,
      RoomQuiet, RoomBy, ClearQuiet, Past, DeleteQuiet,
      IsInt, IsAsset, IsInsert, IsClear, NoDelta
<1> QED BY <1>4, <1>5, <1>6, <1>7, <1>8, StillStep DEF Inv

\* A refused element is taken off the count.
LEMMA UncountStep ==
  ASSUME Inv, NEW o \in Ops, UncountElement(o)
  PROVE  Inv'
<1>1. /\ mods \in ModFields /\ slots \in Nat /\ base \in BaseType
      /\ pc \in [Ops -> Labels] /\ delta \in [Ops -> Delta] /\ TypeOK /\ CountersInv
  BY ModsTyped DEF Inv, TypeOK, BaseType
<1>2. /\ base' = base /\ slots' = slots /\ committed' = committed /\ delta' = delta
      /\ pc[o] = "uncount" /\ pc'[o] = "unbase" /\ IsInsert(delta[o])
      /\ mods' = [mods EXCEPT !.num_new_elts = @ - 1]
  BY <1>1 DEF UncountElement, Goto, shared, Inv, LabelInv
<1>3. Local(o)
  BY <1>1 DEF UncountElement, Goto, Local, Labels, Delta
<1>4. mods' \in ModFields
  BY <1>1, <1>2, DeltaShape DEF ModFields
<1>5. Books(o)
  BY <1>1, <1>2, <1>3, DeltaShape, IntBounds
  DEF Books, ModFields, AddedBy, SubtractedBy, IncreasedBy, CountedBy,
     LowerBy, UpperBy, Applied, Past, IsInt, IsAsset, IsInsert, IsClear, NoDelta
<1>6. TypeOK'
  <2>1. /\ mods'.new_hashes = mods.new_hashes /\ mods'.used = mods.used
        /\ mods'.total_subtracted >= MinInt
        /\ mods'.available_asset >= 0 /\ mods'.available_asset_upperbound <= MaxUint
    BY <1>1, <1>2, Ranges, DeltaShape, IntBounds DEF ModFields
  <2> QED BY <1>1, <1>2, <1>4, <1>5, <2>1, Ranges, TypeStep
<1>7. LabelInv'
  BY <1>1, <1>2, <1>3 DEF Inv, LabelInv, Local, IsInt, IsAsset, IsInsert, IsClear, NoDelta
<1>8. BaseQuiet(o) /\ CoverQuiet(o) /\ HashQuiet(o) /\ RoomQuiet(o) /\ ClearQuiet(o) /\ DeleteQuiet(o)
  BY <1>1, <1>2, DeltaShape, IntBounds
  DEF ModFields, BaseQuiet, InBase, CoverQuiet, Applied, HashQuiet, Inserts, NewElement,
      RoomQuiet, RoomBy, ClearQuiet, Past, DeleteQuiet,
      IsInt, IsAsset, IsInsert, IsClear, NoDelta
<1> QED BY <1>4, <1>5, <1>6, <1>7, <1>8, StillStep DEF Inv

\* try_add_delta when the base object takes the class.
LEMMA AddSetStep ==
  ASSUME Inv, NEW o \in Ops, NEW d \in Deltas, AddDelta(o, d), CanSet(DeltaClass(d))
  PROVE  Inv'
<1>1. /\ mods \in ModFields /\ slots \in Nat /\ base \in BaseType
      /\ pc \in [Ops -> Labels] /\ delta \in [Ops -> Delta] /\ TypeOK /\ CountersInv
  BY ModsTyped DEF Inv, TypeOK, BaseType
<1>2. /\ mods' = mods /\ slots' = slots /\ committed' = committed
      /\ pc[o] = "idle" /\ pc'[o] = (IF AddsNothing(d) THEN "held" ELSE "based")
      /\ delta[o] = NoDelta /\ delta'[o] = d /\ d.type # "DELETE_LAST" /\ d # NoDelta /\ d \in Delta
      /\ base' = [base EXCEPT !.agreed = DeltaClass(d),
                            !.counted = IF base.final THEN @ ELSE @ \cup {o}]
  BY <1>1, RealDelta DEF AddDelta, BaseSet, Goto, shared, Inv, LabelInv
<1>3. Local(o)
  BY <1>1, RealDelta DEF AddDelta, BaseSet, Goto, Local, Labels, Delta
<1>4. mods' \in ModFields
  BY <1>1, <1>2, DeltaShape DEF ModFields
<1>5. Books(o)
  BY <1>1, <1>2, <1>3, DeltaShape, IntBounds
  DEF Books, ModFields, AddsNothing, AddedBy, SubtractedBy, IncreasedBy, CountedBy,
     LowerBy, UpperBy, Applied, Past, IsInt, IsAsset, IsInsert, IsClear, NoDelta
<1>6. TypeOK'
  <2>1. DeltaClass(d) \in DeltaClasses
    BY <1>2, DeltaClassType
  <2>2. base' \in BaseType
    BY <1>1, <1>2, <2>1 DEF BaseType
  <2> QED BY <1>1, <1>2, <1>4, <1>5, <2>2, TypeStep, IntBounds DEF TypeOK, ModFields
<1>7. LabelInv'
  <2>1. d.type \in {"RAW_MEMORY_WRITE", "NONNEGATIVE_INT64_SET_ADD", "ASSET_OBJECT_ADD",
                    "HASH_SET_INSERT", "HASH_SET_INCREASE_LIMIT", "HASH_SET_CLEAR"}
    BY <1>2, DeltaShape
  <2> QED BY <1>1, <1>2, <1>3, <2>1
          DEF Inv, LabelInv, AddsNothing, Local, IsInt, IsAsset, IsInsert, IsClear, NoDelta
<1>8. BaseInv'
  <2>1. Based' = Based \cup {o} /\ o \notin Based
    BY <1>2, <1>3 DEF Based, InBase, Local
  <2>2. \A p \in Based : delta'[p] = delta[p] /\ pc'[p] = pc[p]
    BY <1>3, <2>1 DEF Local, Based
  <2>3. \A p \in Based : DeltaClass(delta[p]) = DeltaClass(d)
    <3>1. DeltaClass(d) # NoObject /\ \A p \in Based : DeltaClass(delta[p]) # NoObject
      BY <1>1, <1>2, DeltaClassType DEF Based
    <3> QED BY <3>1 DEF Inv, BaseInv, CanSet
  <2>4. base'.agreed = DeltaClass(d) /\ base'.final = base.final
        /\ base'.counted = IF base.final THEN base.counted ELSE base.counted \cup {o}
    BY <1>1, <1>2 DEF BaseType
  <2>5. TypeAllowed(committed, DeltaClass(d))
    BY DEF CanSet
  <2>6. \A p \in Based' : base'.agreed = DeltaClass(delta'[p])
    BY <1>2, <2>1, <2>2, <2>3, <2>4
  <2>7. base'.counted \subseteq {p \in Based' : pc'[p] # "committed"}
    BY <1>2, <2>1, <2>2, <2>4 DEF Inv, BaseInv
  <2>8. ~base'.final => Based' \subseteq base'.counted
    BY <2>1, <2>4 DEF Inv, BaseInv
  <2>9. base'.final => \E p \in Based' : pc'[p] = "committed"
    BY <2>1, <2>2, <2>4 DEF Inv, BaseInv
  <2> QED BY <1>2, <2>1, <2>4, <2>5, <2>6, <2>7, <2>8, <2>9 DEF BaseInv
<1>9. CoverQuiet(o) /\ HashQuiet(o) /\ RoomQuiet(o) /\ ClearQuiet(o) /\ DeleteQuiet(o)
  BY <1>1, <1>2, DeltaShape, IntBounds
  DEF ModFields, CoverQuiet, Applied, HashQuiet, Inserts, NewElement, RoomQuiet, RoomBy,
      ClearQuiet, Past, DeleteQuiet, AddsNothing,
      IsInt, IsAsset, IsInsert, IsClear, NoDelta
<1> QED BY <1>4, <1>5, <1>6, <1>7, <1>8, <1>9, StillStep DEF Inv

\* The Rewind of base_obj is destroyed.
LEMMA UnbaseStep ==
  ASSUME Inv, NEW o \in Ops, Unbase(o)
  PROVE  Inv'
<1>1. /\ mods \in ModFields /\ slots \in Nat /\ base \in BaseType
      /\ pc \in [Ops -> Labels] /\ delta \in [Ops -> Delta] /\ TypeOK /\ CountersInv
  BY ModsTyped DEF Inv, TypeOK, BaseType
<1>2. /\ mods' = mods /\ slots' = slots /\ committed' = committed /\ delta' = delta
      /\ pc[o] = "unbase" /\ pc'[o] = "void" /\ delta[o] # NoDelta
      /\ delta[o].type # "DELETE_LAST"
      /\ base' = [base EXCEPT !.counted = @ \ {o},
                            !.agreed = IF o \in base.counted /\ ~base.final /\ base.counted = {o}
                                       THEN NoObject ELSE @]
  BY <1>1 DEF Unbase, BaseRevert, Goto, shared, Inv, LabelInv
<1>3. Local(o)
  BY <1>1 DEF Unbase, BaseRevert, Goto, Local, Labels, Delta
<1>4. mods' \in ModFields
  BY <1>1, <1>2, DeltaShape DEF ModFields
<1>5. Books(o)
  BY <1>1, <1>2, <1>3, DeltaShape, IntBounds
  DEF Books, ModFields, AddedBy, SubtractedBy, IncreasedBy, CountedBy,
     LowerBy, UpperBy, Applied, Past, IsInt, IsAsset, IsInsert, IsClear, NoDelta
<1>6. TypeOK'
  <2>1. base' \in BaseType
    BY <1>1, <1>2 DEF BaseType
  <2> QED BY <1>1, <1>2, <1>4, <1>5, <2>1, Ranges, TypeStep
<1>7. LabelInv'
  BY <1>1, <1>2, <1>3 DEF Inv, LabelInv, Local, IsInt, IsAsset, IsInsert, IsClear, NoDelta
<1>8. BaseInv'
  <2>1. Based' = Based \ {o} /\ o \in Based
    BY <1>2, <1>3 DEF Based, InBase, Local
  <2>2. \A p \in Based' : pc'[p] = pc[p]
    BY <1>3, <2>1 DEF Local, Based
  <2>3. /\ base'.final = base.final /\ base'.counted = base.counted \ {o}
        /\ base'.agreed = IF o \in base.counted /\ ~base.final /\ base.counted = {o}
                          THEN NoObject ELSE base.agreed
    BY <1>1, <1>2 DEF BaseType
  <2>4. base.final => \E p \in Based' : pc'[p] = "committed"
    BY <1>2, <2>1, <2>2 DEF Inv, BaseInv
  <2>5. base'.counted \subseteq {p \in Based' : pc'[p] # "committed"}
    BY <2>1, <2>2, <2>3 DEF Inv, BaseInv
  <2>6. ~base'.final => Based' \subseteq base'.counted
    BY <2>1, <2>3 DEF Inv, BaseInv
  <2>7. CASE base.final
    BY <1>2, <2>1, <2>3, <2>4, <2>5, <2>6, <2>7 DEF Inv, BaseInv
  <2>8. CASE ~base.final
    <3>1. base.counted = Based
      BY <2>8 DEF Inv, BaseInv
    <3>2. Based' # {} => base'.agreed = base.agreed
      BY <2>1, <2>3, <3>1
    <3>3. Based' = {} => base'.agreed = NoObject
      BY <2>1, <2>3, <2>8, <3>1
    <3> QED BY <1>2, <2>1, <2>3, <2>5, <2>6, <2>8, <3>2, <3>3 DEF Inv, BaseInv
  <2> QED BY <2>7, <2>8
<1>9. CoverQuiet(o) /\ HashQuiet(o) /\ RoomQuiet(o) /\ ClearQuiet(o) /\ DeleteQuiet(o)
  BY <1>1, <1>2, DeltaShape, IntBounds
  DEF ModFields, CoverQuiet, Applied, HashQuiet, Inserts, NewElement, RoomQuiet, RoomBy,
      ClearQuiet, Past, DeleteQuiet,
      IsInt, IsAsset, IsInsert, IsClear, NoDelta
<1> QED BY <1>4, <1>5, <1>6, <1>7, <1>8, <1>9, StillStep DEF Inv

\* The Rewind of base_obj is committed.
LEMMA FinalizeStep ==
  ASSUME Inv, NEW o \in Ops, FinalizeBase(o)
  PROVE  Inv'
<1>1. /\ mods \in ModFields /\ slots \in Nat /\ base \in BaseType
      /\ pc \in [Ops -> Labels] /\ delta \in [Ops -> Delta] /\ TypeOK /\ CountersInv
  BY ModsTyped DEF Inv, TypeOK, BaseType
<1>2. /\ mods' = mods /\ slots' = slots /\ committed' = committed /\ delta' = delta
      /\ pc[o] = "final" /\ pc'[o] = "committed" /\ delta[o] # NoDelta
      /\ delta[o].type # "DELETE_LAST"
      /\ base' = [base EXCEPT !.final = @ \/ o \in base.counted, !.counted = @ \ {o}]
  BY <1>1 DEF FinalizeBase, BaseCommit, Goto, shared, Inv, LabelInv
<1>3. Local(o)
  BY <1>1 DEF FinalizeBase, BaseCommit, Goto, Local, Labels, Delta
<1>4. mods' \in ModFields
  BY <1>1, <1>2, DeltaShape DEF ModFields
<1>5. Books(o)
  BY <1>1, <1>2, <1>3, DeltaShape, IntBounds
  DEF Books, ModFields, AddedBy, SubtractedBy, IncreasedBy, CountedBy,
     LowerBy, UpperBy, Applied, Past, IsInt, IsAsset, IsInsert, IsClear, NoDelta
<1>6. TypeOK'
  <2>1. base' \in BaseType
    BY <1>1, <1>2 DEF BaseType
  <2> QED BY <1>1, <1>2, <1>4, <1>5, <2>1, Ranges, TypeStep
<1>7. LabelInv'
  BY <1>1, <1>2, <1>3 DEF Inv, LabelInv, Local, IsInt, IsAsset, IsInsert, IsClear, NoDelta
<1>8. BaseInv'
  <2>1. Based' = Based /\ o \in Based
    BY <1>2, <1>3 DEF Based, InBase, Local
  <2>2. \A p \in Based \ {o} : pc'[p] = pc[p]
    BY <1>3 DEF Local, Based
  <2>3. /\ base'.counted = base.counted \ {o} /\ base'.agreed = base.agreed
        /\ base'.final <=> base.final \/ o \in base.counted
    BY <1>1, <1>2 DEF BaseType
  <2>4. base'.final
    BY <2>1, <2>3 DEF Inv, BaseInv
  <2>5. base'.counted \subseteq {p \in Based' : pc'[p] # "committed"}
    BY <2>1, <2>2, <2>3 DEF Inv, BaseInv
  <2> QED BY <1>2, <2>1, <2>3, <2>4, <2>5 DEF Inv, BaseInv
<1>9. CoverQuiet(o) /\ HashQuiet(o) /\ RoomQuiet(o) /\ ClearQuiet(o) /\ DeleteQuiet(o)
  BY <1>1, <1>2, DeltaShape, IntBounds
  DEF ModFields, CoverQuiet, Applied, HashQuiet, Inserts, NewElement, RoomQuiet, RoomBy,
      ClearQuiet, Past, DeleteQuiet,
      IsInt, IsAsset, IsInsert, IsClear, NoDelta
<1> QED BY <1>4, <1>5, <1>6, <1>7, <1>8, <1>9, StillStep DEF Inv

\* commit_delta of a DELETE_LAST.
LEMMA CommitDeleteStep ==
  ASSUME Inv, NEW o \in Ops, CommitDelta(o), delta[o].type = "DELETE_LAST"
  PROVE  Inv'
<1>1. /\ mods \in ModFields /\ slots \in Nat /\ base \in BaseType
      /\ pc \in [Ops -> Labels] /\ delta \in [Ops -> Delta] /\ TypeOK /\ CountersInv
  BY ModsTyped DEF Inv, TypeOK, BaseType
<1>2. /\ base' = base /\ slots' = slots /\ committed' = committed /\ delta' = delta
      /\ pc[o] = "held" /\ pc'[o] = "committed" /\ delta[o] # NoDelta
      /\ mods' = [mods EXCEPT !.delete_last_committed = TRUE]
  BY <1>1 DEF CommitDelta, CommittedMods, IsAsset, IsClear, IsInsert, IsInt, Goto, shared,
     Inv, LabelInv
<1>3. Local(o)
  BY <1>1 DEF CommitDelta, CommittedMods, IsAsset, IsClear, IsInsert, IsInt, Goto, Local,
     Labels, Delta
<1>4. mods' \in ModFields
  BY <1>1, <1>2, DeltaShape DEF ModFields
<1>5. Books(o)
  BY <1>1, <1>2, <1>3, DeltaShape, IntBounds
  DEF Books, ModFields, AddedBy, SubtractedBy, IncreasedBy, CountedBy,
     LowerBy, UpperBy, Applied, Past, IsInt, IsAsset, IsInsert, IsClear, NoDelta
<1>6. TypeOK'
  <2>1. /\ mods'.new_hashes = mods.new_hashes /\ mods'.used = mods.used
        /\ mods'.total_subtracted >= MinInt
        /\ mods'.available_asset >= 0 /\ mods'.available_asset_upperbound <= MaxUint
    BY <1>1, <1>2, Ranges, DeltaShape, IntBounds DEF ModFields
  <2> QED BY <1>1, <1>2, <1>4, <1>5, <2>1, Ranges, TypeStep
<1>7. LabelInv'
  BY <1>1, <1>2, <1>3 DEF Inv, LabelInv, Local, IsInt, IsAsset, IsInsert, IsClear, NoDelta
<1>8. DeleteInv'
  BY <1>1, <1>2 DEF ModFields, DeleteInv
<1>9. BaseQuiet(o) /\ CoverQuiet(o) /\ HashQuiet(o) /\ RoomQuiet(o) /\ ClearQuiet(o)
  BY <1>1, <1>2, DeltaShape, IntBounds
  DEF ModFields, BaseQuiet, InBase, CoverQuiet, Applied, HashQuiet, Inserts, NewElement,
      RoomQuiet, RoomBy, ClearQuiet, Past,
      IsInt, IsAsset, IsInsert, IsClear, NoDelta
<1> QED BY <1>4, <1>5, <1>6, <1>7, <1>8, <1>9, StillStep DEF Inv

\* commit_delta of a HASH_SET_CLEAR, before the threshold is raised.
LEMMA CommitClearStep ==
  ASSUME Inv, NEW o \in Ops, CommitDelta(o), IsClear(delta[o])
  PROVE  Inv'
<1>1. /\ mods \in ModFields /\ slots \in Nat /\ base \in BaseType
      /\ pc \in [Ops -> Labels] /\ delta \in [Ops -> Delta] /\ TypeOK /\ CountersInv
  BY ModsTyped DEF Inv, TypeOK, BaseType
<1>2. /\ base' = base /\ slots' = slots /\ committed' = committed /\ delta' = delta
      /\ pc[o] = "held" /\ pc'[o] = "raise" /\ delta[o] # NoDelta
      /\ mods' = [mods EXCEPT !.hashset_clear_committed = TRUE]
  BY <1>1 DEF CommitDelta, CommittedMods, IsAsset, IsClear, IsInsert, IsInt, Goto, shared,
     Inv, LabelInv
<1>3. Local(o)
  BY <1>1 DEF CommitDelta, CommittedMods, IsAsset, IsClear, IsInsert, IsInt, Goto, Local,
     Labels, Delta
<1>4. mods' \in ModFields
  BY <1>1, <1>2, DeltaShape DEF ModFields
<1>5. Books(o)
  BY <1>1, <1>2, <1>3, DeltaShape, IntBounds
  DEF Books, ModFields, AddedBy, SubtractedBy, IncreasedBy, CountedBy,
     LowerBy, UpperBy, Applied, Past, IsInt, IsAsset, IsInsert, IsClear, NoDelta
<1>6. TypeOK'
  <2>1. /\ mods'.new_hashes = mods.new_hashes /\ mods'.used = mods.used
        /\ mods'.total_subtracted >= MinInt
        /\ mods'.available_asset >= 0 /\ mods'.available_asset_upperbound <= MaxUint
    BY <1>1, <1>2, Ranges, DeltaShape, IntBounds DEF ModFields
  <2> QED BY <1>1, <1>2, <1>4, <1>5, <2>1, Ranges, TypeStep
<1>7. LabelInv'
  BY <1>1, <1>2, <1>3 DEF Inv, LabelInv, Local, IsInt, IsAsset, IsInsert, IsClear, NoDelta
<1>8. ClearInv'
  <2>1. mods'.hashset_clear_committed /\ \E p \in Ops : IsClear(delta'[p]) /\ pc'[p] \in Past
    BY <1>1, <1>2 DEF ModFields, Past
  <2>2. mods'.max_committed_clear_threshold = mods.max_committed_clear_threshold
    BY <1>1, <1>2 DEF ModFields
  <2>3. \A p \in Ops : pc'[p] \in {"final", "committed"} <=> pc[p] \in {"final", "committed"}
    BY <1>2, <1>3 DEF Local
  <2> QED BY <1>2, <2>1, <2>2, <2>3 DEF Inv, ClearInv
<1>9. BaseQuiet(o) /\ CoverQuiet(o) /\ HashQuiet(o) /\ RoomQuiet(o) /\ DeleteQuiet(o)
  BY <1>1, <1>2, DeltaShape, IntBounds
  DEF ModFields, BaseQuiet, InBase, CoverQuiet, Applied, HashQuiet, Inserts, NewElement,
      RoomQuiet, RoomBy, DeleteQuiet,
      IsInt, IsAsset, IsInsert, IsClear, NoDelta
<1> QED BY <1>4, <1>5, <1>6, <1>7, <1>8, <1>9, StillStep DEF Inv

\* commit_delta of a delta that changes no counter.
LEMMA CommitOtherStep ==
  ASSUME Inv, NEW o \in Ops, CommitDelta(o), delta[o].type # "DELETE_LAST",
         ~IsClear(delta[o]), ~IsAsset(delta[o])
  PROVE  Inv'
<1>1. /\ mods \in ModFields /\ slots \in Nat /\ base \in BaseType
      /\ pc \in [Ops -> Labels] /\ delta \in [Ops -> Delta] /\ TypeOK /\ CountersInv
  BY ModsTyped DEF Inv, TypeOK, BaseType
<1>2. /\ base' = base /\ slots' = slots /\ committed' = committed /\ delta' = delta
      /\ pc[o] = "held" /\ pc'[o] = "final" /\ delta[o] # NoDelta
      /\ mods' = mods
  BY <1>1 DEF CommitDelta, CommittedMods, IsAsset, IsClear, IsInsert, IsInt, Goto, shared,
     Inv, LabelInv
<1>3. Local(o)
  BY <1>1 DEF CommitDelta, CommittedMods, IsAsset, IsClear, IsInsert, IsInt, Goto, Local,
     Labels, Delta
<1>4. mods' \in ModFields
  BY <1>1, <1>2, DeltaShape DEF ModFields
<1>5. Books(o)
  BY <1>1, <1>2, <1>3, DeltaShape, IntBounds
  DEF Books, ModFields, AddedBy, SubtractedBy, IncreasedBy, CountedBy,
     LowerBy, UpperBy, Applied, Past, IsInt, IsAsset, IsInsert, IsClear, NoDelta
<1>6. TypeOK'
  <2>1. /\ mods'.new_hashes = mods.new_hashes /\ mods'.used = mods.used
        /\ mods'.total_subtracted >= MinInt
        /\ mods'.available_asset >= 0 /\ mods'.available_asset_upperbound <= MaxUint
    BY <1>1, <1>2, Ranges, DeltaShape, IntBounds DEF ModFields
  <2> QED BY <1>1, <1>2, <1>4, <1>5, <2>1, Ranges, TypeStep
<1>7. LabelInv'
  BY <1>1, <1>2, <1>3 DEF Inv, LabelInv, Local, IsInt, IsAsset, IsInsert, IsClear, NoDelta
<1>8. BaseQuiet(o) /\ CoverQuiet(o) /\ HashQuiet(o) /\ RoomQuiet(o) /\ ClearQuiet(o) /\ DeleteQuiet(o)
  BY <1>1, <1>2, DeltaShape, IntBounds
  DEF ModFields, BaseQuiet, InBase, CoverQuiet, Applied, HashQuiet, Inserts, NewElement,
      RoomQuiet, RoomBy, ClearQuiet, Past, DeleteQuiet,
      IsInt, IsAsset, IsInsert, IsClear, NoDelta
<1> QED BY <1>4, <1>5, <1>6, <1>7, <1>8, StillStep DEF Inv

\* commit_delta of a subtraction: the upper bound follows and does not wrap.
LEMMA CommitTakeStep ==
  ASSUME Inv, NEW o \in Ops, CommitDelta(o), IsAsset(delta[o]), delta[o].asset_delta < 0
  PROVE  Inv'
<1>1. /\ mods \in ModFields /\ slots \in Nat /\ base \in BaseType
      /\ pc \in [Ops -> Labels] /\ delta \in [Ops -> Delta] /\ TypeOK /\ CountersInv
  BY ModsTyped DEF Inv, TypeOK, BaseType
<1>0. mods.available_asset_upperbound + delta[o].asset_delta \in 0 .. MaxUint
      /\ wrap(mods.available_asset_upperbound + delta[o].asset_delta) = mods.available_asset_upperbound + delta[o].asset_delta
      /\ delta[o].asset_delta \in Int
  <2>2. delta[o].asset_delta \in Int
    BY <1>1, DeltaShape, IntBounds
  <2>1. LowerBy(pc[o], delta[o]) = delta[o].asset_delta /\ UpperBy(pc[o], delta[o]) = 0
    BY <2>2 DEF CommitDelta, LowerBy, UpperBy, IsAsset, Past
  <2>3. UpperBy(pc[o], delta[o]) - LowerBy(pc[o], delta[o])
           <= mods.available_asset_upperbound - mods.available_asset
    BY <1>1, HeldGap
  <2>4. mods.available_asset \in 0 .. MaxUint /\ mods.available_asset_upperbound \in 0 .. MaxUint
    BY <1>1 DEF TypeOK
  <2>5. mods.available_asset_upperbound + delta[o].asset_delta \in 0 .. MaxUint
    BY <2>1, <2>2, <2>3, <2>4, IntBounds
  <2> QED BY <2>2, <2>5, WrapsTo
<1>2. /\ base' = base /\ slots' = slots /\ committed' = committed /\ delta' = delta
      /\ pc[o] = "held" /\ pc'[o] = "final" /\ delta[o] # NoDelta
      /\ mods' = [mods EXCEPT !.available_asset_upperbound = @ + delta[o].asset_delta]
  BY <1>1, <1>0 DEF CommitDelta, CommittedMods, IsAsset, IsClear, IsInsert, IsInt, Goto,
     shared, Inv, LabelInv
<1>3. Local(o)
  BY <1>1, <1>0 DEF CommitDelta, CommittedMods, IsAsset, IsClear, IsInsert, IsInt, Goto,
     Local, Labels, Delta
<1>4. mods' \in ModFields
  BY <1>1, <1>2, DeltaShape DEF ModFields
<1>5. Books(o)
  BY <1>1, <1>2, <1>3, DeltaShape, IntBounds
  DEF Books, ModFields, AddedBy, SubtractedBy, IncreasedBy, CountedBy,
     LowerBy, UpperBy, Applied, Past, IsInt, IsAsset, IsInsert, IsClear, NoDelta
<1>6. TypeOK'
  <2>1. mods'.available_asset >= 0 /\ mods'.available_asset_upperbound <= MaxUint
    BY <1>0, <1>1, <1>2, Ranges DEF ModFields
  <2> QED BY <1>1, <1>2, <1>4, <1>5, <2>1, TypeStep, Ranges DEF TypeOK, ModFields
<1>7. LabelInv'
  BY <1>1, <1>2, <1>3 DEF Inv, LabelInv, Local, IsInt, IsAsset, IsInsert, IsClear, NoDelta
<1>8. BaseQuiet(o) /\ CoverQuiet(o) /\ HashQuiet(o) /\ RoomQuiet(o) /\ ClearQuiet(o) /\ DeleteQuiet(o)
  BY <1>1, <1>2, DeltaShape, IntBounds
  DEF ModFields, BaseQuiet, InBase, CoverQuiet, Applied, HashQuiet, Inserts, NewElement,
      RoomQuiet, RoomBy, ClearQuiet, Past, DeleteQuiet,
      IsInt, IsAsset, IsInsert, IsClear, NoDelta
<1> QED BY <1>4, <1>5, <1>6, <1>7, <1>8, StillStep DEF Inv

\* commit_delta of an addition: what is available follows and does not wrap.
LEMMA CommitGiveStep ==
  ASSUME Inv, NEW o \in Ops, CommitDelta(o), IsAsset(delta[o]), delta[o].asset_delta >= 0
  PROVE  Inv'
<1>1. /\ mods \in ModFields /\ slots \in Nat /\ base \in BaseType
      /\ pc \in [Ops -> Labels] /\ delta \in [Ops -> Delta] /\ TypeOK /\ CountersInv
  BY ModsTyped DEF Inv, TypeOK, BaseType
<1>0. mods.available_asset + delta[o].asset_delta \in 0 .. MaxUint
      /\ wrap(mods.available_asset + delta[o].asset_delta) = mods.available_asset + delta[o].asset_delta
      /\ delta[o].asset_delta \in Int
  <2>2. delta[o].asset_delta \in Int
    BY <1>1, DeltaShape, IntBounds
  <2>1. LowerBy(pc[o], delta[o]) = 0 /\ UpperBy(pc[o], delta[o]) = delta[o].asset_delta
    BY <2>2 DEF CommitDelta, LowerBy, UpperBy, IsAsset, Past
  <2>3. UpperBy(pc[o], delta[o]) - LowerBy(pc[o], delta[o])
           <= mods.available_asset_upperbound - mods.available_asset
    BY <1>1, HeldGap
  <2>4. mods.available_asset \in 0 .. MaxUint /\ mods.available_asset_upperbound \in 0 .. MaxUint
    BY <1>1 DEF TypeOK
  <2>5. mods.available_asset + delta[o].asset_delta \in 0 .. MaxUint
    BY <2>1, <2>2, <2>3, <2>4, IntBounds
  <2> QED BY <2>2, <2>5, WrapsTo
<1>2. /\ base' = base /\ slots' = slots /\ committed' = committed /\ delta' = delta
      /\ pc[o] = "held" /\ pc'[o] = "final" /\ delta[o] # NoDelta
      /\ mods' = [mods EXCEPT !.available_asset = @ + delta[o].asset_delta]
  BY <1>1, <1>0 DEF CommitDelta, CommittedMods, IsAsset, IsClear, IsInsert, IsInt, Goto,
     shared, Inv, LabelInv
<1>3. Local(o)
  BY <1>1, <1>0 DEF CommitDelta, CommittedMods, IsAsset, IsClear, IsInsert, IsInt, Goto,
     Local, Labels, Delta
<1>4. mods' \in ModFields
  BY <1>1, <1>2, DeltaShape DEF ModFields
<1>5. Books(o)
  BY <1>1, <1>2, <1>3, DeltaShape, IntBounds
  DEF Books, ModFields, AddedBy, SubtractedBy, IncreasedBy, CountedBy,
     LowerBy, UpperBy, Applied, Past, IsInt, IsAsset, IsInsert, IsClear, NoDelta
<1>6. TypeOK'
  <2>1. mods'.available_asset >= 0 /\ mods'.available_asset_upperbound <= MaxUint
    BY <1>0, <1>1, <1>2, Ranges DEF ModFields
  <2> QED BY <1>1, <1>2, <1>4, <1>5, <2>1, TypeStep, Ranges DEF TypeOK, ModFields
<1>7. LabelInv'
  BY <1>1, <1>2, <1>3 DEF Inv, LabelInv, Local, IsInt, IsAsset, IsInsert, IsClear, NoDelta
<1>8. BaseQuiet(o) /\ CoverQuiet(o) /\ HashQuiet(o) /\ RoomQuiet(o) /\ ClearQuiet(o) /\ DeleteQuiet(o)
  BY <1>1, <1>2, DeltaShape, IntBounds
  DEF ModFields, BaseQuiet, InBase, CoverQuiet, Applied, HashQuiet, Inserts, NewElement,
      RoomQuiet, RoomBy, ClearQuiet, Past, DeleteQuiet,
      IsInt, IsAsset, IsInsert, IsClear, NoDelta
<1> QED BY <1>4, <1>5, <1>6, <1>7, <1>8, StillStep DEF Inv

\* revert_delta of a subtraction from an asset does not wrap.
LEMMA RevertTakeStep ==
  ASSUME Inv, NEW o \in Ops, RevertDelta(o), IsAsset(delta[o]), delta[o].asset_delta < 0
  PROVE  Inv'
<1>1. /\ mods \in ModFields /\ slots \in Nat /\ base \in BaseType
      /\ pc \in [Ops -> Labels] /\ delta \in [Ops -> Delta] /\ TypeOK /\ CountersInv
  BY ModsTyped DEF Inv, TypeOK, BaseType
<1>0. mods.available_asset - delta[o].asset_delta \in 0 .. MaxUint
      /\ wrap(mods.available_asset - delta[o].asset_delta) = mods.available_asset - delta[o].asset_delta
      /\ delta[o].asset_delta \in Int
  <2>2. delta[o].asset_delta \in Int
    BY <1>1, DeltaShape, IntBounds
  <2>1. LowerBy(pc[o], delta[o]) = delta[o].asset_delta /\ UpperBy(pc[o], delta[o]) = 0
    BY <2>2 DEF RevertDelta, LowerBy, UpperBy, IsAsset, Past
  <2>3. UpperBy(pc[o], delta[o]) - LowerBy(pc[o], delta[o])
           <= mods.available_asset_upperbound - mods.available_asset
    BY <1>1, HeldGap
  <2>4. mods.available_asset \in 0 .. MaxUint /\ mods.available_asset_upperbound \in 0 .. MaxUint
    BY <1>1 DEF TypeOK
  <2>5. mods.available_asset - delta[o].asset_delta \in 0 .. MaxUint
    BY <2>1, <2>2, <2>3, <2>4, IntBounds
  <2> QED BY <2>2, <2>5, WrapsTo
<1>2. /\ base' = base /\ slots' = slots /\ committed' = committed /\ delta' = delta
      /\ pc[o] = "held" /\ pc'[o] = "unbase" /\ delta[o] # NoDelta
      /\ mods' = [mods EXCEPT !.available_asset = @ - delta[o].asset_delta]
  BY <1>1, <1>0 DEF RevertDelta, RevertedMods, IsAsset, IsClear, IsInsert, IsInt, Goto,
     shared, Inv, LabelInv
<1>3. Local(o)
  BY <1>1, <1>0 DEF RevertDelta, RevertedMods, IsAsset, IsClear, IsInsert, IsInt, Goto,
     Local, Labels, Delta
<1>4. mods' \in ModFields
  BY <1>1, <1>2, DeltaShape DEF ModFields
<1>5. Books(o)
  BY <1>1, <1>2, <1>3, DeltaShape, IntBounds
  DEF Books, ModFields, AddedBy, SubtractedBy, IncreasedBy, CountedBy,
     LowerBy, UpperBy, Applied, Past, IsInt, IsAsset, IsInsert, IsClear, NoDelta
<1>6. TypeOK'
  <2>1. mods'.available_asset >= 0 /\ mods'.available_asset_upperbound <= MaxUint
    BY <1>0, <1>1, <1>2, Ranges DEF ModFields
  <2> QED BY <1>1, <1>2, <1>4, <1>5, <2>1, TypeStep, Ranges DEF TypeOK, ModFields
<1>7. LabelInv'
  BY <1>1, <1>2, <1>3 DEF Inv, LabelInv, Local, IsInt, IsAsset, IsInsert, IsClear, NoDelta
<1>8. BaseQuiet(o) /\ CoverQuiet(o) /\ HashQuiet(o) /\ RoomQuiet(o) /\ ClearQuiet(o) /\ DeleteQuiet(o)
  BY <1>1, <1>2, DeltaShape, IntBounds
  DEF ModFields, BaseQuiet, InBase, CoverQuiet, Applied, HashQuiet, Inserts, NewElement,
      RoomQuiet, RoomBy, ClearQuiet, Past, DeleteQuiet,
      IsInt, IsAsset, IsInsert, IsClear, NoDelta
<1> QED BY <1>4, <1>5, <1>6, <1>7, <1>8, StillStep DEF Inv

\* revert_delta of an addition to an asset does not wrap.
LEMMA RevertGiveStep ==
  ASSUME Inv, NEW o \in Ops, RevertDelta(o), IsAsset(delta[o]), delta[o].asset_delta >= 0
  PROVE  Inv'
<1>1. /\ mods \in ModFields /\ slots \in Nat /\ base \in BaseType
      /\ pc \in [Ops -> Labels] /\ delta \in [Ops -> Delta] /\ TypeOK /\ CountersInv
  BY ModsTyped DEF Inv, TypeOK, BaseType
<1>0. mods.available_asset_upperbound - delta[o].asset_delta \in 0 .. MaxUint
      /\ wrap(mods.available_asset_upperbound - delta[o].asset_delta) = mods.available_asset_upperbound - delta[o].asset_delta
      /\ delta[o].asset_delta \in Int
  <2>2. delta[o].asset_delta \in Int
    BY <1>1, DeltaShape, IntBounds
  <2>1. LowerBy(pc[o], delta[o]) = 0 /\ UpperBy(pc[o], delta[o]) = delta[o].asset_delta
    BY <2>2 DEF RevertDelta, LowerBy, UpperBy, IsAsset, Past
  <2>3. UpperBy(pc[o], delta[o]) - LowerBy(pc[o], delta[o])
           <= mods.available_asset_upperbound - mods.available_asset
    BY <1>1, HeldGap
  <2>4. mods.available_asset \in 0 .. MaxUint /\ mods.available_asset_upperbound \in 0 .. MaxUint
    BY <1>1 DEF TypeOK
  <2>5. mods.available_asset_upperbound - delta[o].asset_delta \in 0 .. MaxUint
    BY <2>1, <2>2, <2>3, <2>4, IntBounds
  <2> QED BY <2>2, <2>5, WrapsTo
<1>2. /\ base' = base /\ slots' = slots /\ committed' = committed /\ delta' = delta
      /\ pc[o] = "held" /\ pc'[o] = "unbase" /\ delta[o] # NoDelta
      /\ mods' = [mods EXCEPT !.available_asset_upperbound = @ - delta[o].asset_delta]
  BY <1>1, <1>0 DEF RevertDelta, RevertedMods, IsAsset, IsClear, IsInsert, IsInt, Goto,
     shared, Inv, LabelInv
<1>3. Local(o)
  BY <1>1, <1>0 DEF RevertDelta, RevertedMods, IsAsset, IsClear, IsInsert, IsInt, Goto,
     Local, Labels, Delta
<1>4. mods' \in ModFields
  BY <1>1, <1>2, DeltaShape DEF ModFields
<1>5. Books(o)
  BY <1>1, <1>2, <1>3, DeltaShape, IntBounds
  DEF Books, ModFields, AddedBy, SubtractedBy, IncreasedBy, CountedBy,
     LowerBy, UpperBy, Applied, Past, IsInt, IsAsset, IsInsert, IsClear, NoDelta
<1>6. TypeOK'
  <2>1. mods'.available_asset >= 0 /\ mods'.available_asset_upperbound <= MaxUint
    BY <1>0, <1>1, <1>2, Ranges DEF ModFields
  <2> QED BY <1>1, <1>2, <1>4, <1>5, <2>1, TypeStep, Ranges DEF TypeOK, ModFields
<1>7. LabelInv'
  BY <1>1, <1>2, <1>3 DEF Inv, LabelInv, Local, IsInt, IsAsset, IsInsert, IsClear, NoDelta
<1>8. BaseQuiet(o) /\ CoverQuiet(o) /\ HashQuiet(o) /\ RoomQuiet(o) /\ ClearQuiet(o) /\ DeleteQuiet(o)
  BY <1>1, <1>2, DeltaShape, IntBounds
  DEF ModFields, BaseQuiet, InBase, CoverQuiet, Applied, HashQuiet, Inserts, NewElement,
      RoomQuiet, RoomBy, ClearQuiet, Past, DeleteQuiet,
      IsInt, IsAsset, IsInsert, IsClear, NoDelta
<1> QED BY <1>4, <1>5, <1>6, <1>7, <1>8, StillStep DEF Inv

\* revert_delta of a DELETE_LAST.
LEMMA RevertDeleteStep ==
  ASSUME Inv, NEW o \in Ops, RevertDelta(o), delta[o].type = "DELETE_LAST"
  PROVE  Inv'
<1>1. /\ mods \in ModFields /\ slots \in Nat /\ base \in BaseType
      /\ pc \in [Ops -> Labels] /\ delta \in [Ops -> Delta] /\ TypeOK /\ CountersInv
  BY ModsTyped DEF Inv, TypeOK, BaseType
<1>2. /\ base' = base /\ slots' = slots /\ committed' = committed /\ delta' = delta
      /\ pc[o] = "held" /\ pc'[o] = "void" /\ delta[o] # NoDelta
      /\ mods' = mods
  BY <1>1 DEF RevertDelta, RevertedMods, IsAsset, IsClear, IsInsert, IsInt, Goto, shared,
     Inv, LabelInv
<1>3. Local(o)
  BY <1>1 DEF RevertDelta, RevertedMods, IsAsset, IsClear, IsInsert, IsInt, Goto, Local,
     Labels, Delta
<1>4. mods' \in ModFields
  BY <1>1, <1>2, DeltaShape DEF ModFields
<1>5. Books(o)
  BY <1>1, <1>2, <1>3, DeltaShape, IntBounds
  DEF Books, ModFields, AddedBy, SubtractedBy, IncreasedBy, CountedBy,
     LowerBy, UpperBy, Applied, Past, IsInt, IsAsset, IsInsert, IsClear, NoDelta
<1>6. TypeOK'
  <2>1. /\ mods'.new_hashes = mods.new_hashes /\ mods'.used = mods.used
        /\ mods'.total_subtracted >= MinInt
        /\ mods'.available_asset >= 0 /\ mods'.available_asset_upperbound <= MaxUint
    BY <1>1, <1>2, Ranges, DeltaShape, IntBounds DEF ModFields
  <2> QED BY <1>1, <1>2, <1>4, <1>5, <2>1, Ranges, TypeStep
<1>7. LabelInv'
  BY <1>1, <1>2, <1>3 DEF Inv, LabelInv, Local, IsInt, IsAsset, IsInsert, IsClear, NoDelta
<1>8. BaseQuiet(o) /\ CoverQuiet(o) /\ HashQuiet(o) /\ RoomQuiet(o) /\ ClearQuiet(o) /\ DeleteQuiet(o)
  BY <1>1, <1>2, DeltaShape, IntBounds
  DEF ModFields, BaseQuiet, InBase, CoverQuiet, Applied, HashQuiet, Inserts, NewElement,
      RoomQuiet, RoomBy, ClearQuiet, Past, DeleteQuiet,
      IsInt, IsAsset, IsInsert, IsClear, NoDelta
<1> QED BY <1>4, <1>5, <1>6, <1>7, <1>8, StillStep DEF Inv

\* revert_delta of a subtraction from an integer.
LEMMA RevertSubtractStep ==
  ASSUME Inv, NEW o \in Ops, RevertDelta(o), IsInt(delta[o]), delta[o].delta < 0
  PROVE  Inv'
<1>1. /\ mods \in ModFields /\ slots \in Nat /\ base \in BaseType
      /\ pc \in [Ops -> Labels] /\ delta \in [Ops -> Delta] /\ TypeOK /\ CountersInv
  BY ModsTyped DEF Inv, TypeOK, BaseType
<1>2. /\ base' = base /\ slots' = slots /\ committed' = committed /\ delta' = delta
      /\ pc[o] = "held" /\ pc'[o] = "unbase" /\ delta[o] # NoDelta
      /\ mods' = [mods EXCEPT !.total_subtracted = @ - delta[o].delta]
  BY <1>1 DEF RevertDelta, RevertedMods, IsAsset, IsClear, IsInsert, IsInt, Goto, shared,
     Inv, LabelInv
<1>3. Local(o)
  BY <1>1 DEF RevertDelta, RevertedMods, IsAsset, IsClear, IsInsert, IsInt, Goto, Local,
     Labels, Delta
<1>4. mods' \in ModFields
  BY <1>1, <1>2, DeltaShape DEF ModFields
<1>5. Books(o)
  BY <1>1, <1>2, <1>3, DeltaShape, IntBounds
  DEF Books, ModFields, AddedBy, SubtractedBy, IncreasedBy, CountedBy,
     LowerBy, UpperBy, Applied, Past, IsInt, IsAsset, IsInsert, IsClear, NoDelta
<1>6. TypeOK'
  <2>1. /\ mods'.new_hashes = mods.new_hashes /\ mods'.used = mods.used
        /\ mods'.total_subtracted >= MinInt
        /\ mods'.available_asset >= 0 /\ mods'.available_asset_upperbound <= MaxUint
    BY <1>1, <1>2, Ranges, DeltaShape, IntBounds DEF ModFields
  <2> QED BY <1>1, <1>2, <1>4, <1>5, <2>1, Ranges, TypeStep
<1>7. LabelInv'
  BY <1>1, <1>2, <1>3 DEF Inv, LabelInv, Local, IsInt, IsAsset, IsInsert, IsClear, NoDelta
<1>8. BaseQuiet(o) /\ CoverQuiet(o) /\ HashQuiet(o) /\ RoomQuiet(o) /\ ClearQuiet(o) /\ DeleteQuiet(o)
  BY <1>1, <1>2, DeltaShape, IntBounds
  DEF ModFields, BaseQuiet, InBase, CoverQuiet, Applied, HashQuiet, Inserts, NewElement,
      RoomQuiet, RoomBy, ClearQuiet, Past, DeleteQuiet,
      IsInt, IsAsset, IsInsert, IsClear, NoDelta
<1> QED BY <1>4, <1>5, <1>6, <1>7, <1>8, StillStep DEF Inv

\* revert_delta of an addition to an integer.
LEMMA RevertAddStep ==
  ASSUME Inv, NEW o \in Ops, RevertDelta(o), IsInt(delta[o]), delta[o].delta >= 0
  PROVE  Inv'
<1>1. /\ mods \in ModFields /\ slots \in Nat /\ base \in BaseType
      /\ pc \in [Ops -> Labels] /\ delta \in [Ops -> Delta] /\ TypeOK /\ CountersInv
  BY ModsTyped DEF Inv, TypeOK, BaseType
<1>2. /\ base' = base /\ slots' = slots /\ committed' = committed /\ delta' = delta
      /\ pc[o] = "held" /\ pc'[o] = "unbase" /\ delta[o] # NoDelta
      /\ mods' = [mods EXCEPT !.total_added = @ - delta[o].delta]
  BY <1>1, DeltaShape, IntBounds DEF RevertDelta, RevertedMods, IsAsset, IsClear, IsInsert,
     IsInt, Goto, shared, Inv, LabelInv
<1>3. Local(o)
  BY <1>1, DeltaShape, IntBounds DEF RevertDelta, RevertedMods, IsAsset, IsClear, IsInsert,
     IsInt, Goto, Local, Labels, Delta
<1>4. mods' \in ModFields
  BY <1>1, <1>2, DeltaShape DEF ModFields
<1>5. Books(o)
  BY <1>1, <1>2, <1>3, DeltaShape, IntBounds
  DEF Books, ModFields, AddedBy, SubtractedBy, IncreasedBy, CountedBy,
     LowerBy, UpperBy, Applied, Past, IsInt, IsAsset, IsInsert, IsClear, NoDelta
<1>6. TypeOK'
  <2>1. /\ mods'.new_hashes = mods.new_hashes /\ mods'.used = mods.used
        /\ mods'.total_subtracted >= MinInt
        /\ mods'.available_asset >= 0 /\ mods'.available_asset_upperbound <= MaxUint
    BY <1>1, <1>2, Ranges, DeltaShape, IntBounds DEF ModFields
  <2> QED BY <1>1, <1>2, <1>4, <1>5, <2>1, Ranges, TypeStep
<1>7. LabelInv'
  BY <1>1, <1>2, <1>3 DEF Inv, LabelInv, Local, IsInt, IsAsset, IsInsert, IsClear, NoDelta
<1>8. BaseQuiet(o) /\ CoverQuiet(o) /\ HashQuiet(o) /\ RoomQuiet(o) /\ ClearQuiet(o) /\ DeleteQuiet(o)
  BY <1>1, <1>2, DeltaShape, IntBounds
  DEF ModFields, BaseQuiet, InBase, CoverQuiet, Applied, HashQuiet, Inserts, NewElement,
      RoomQuiet, RoomBy, ClearQuiet, Past, DeleteQuiet,
      IsInt, IsAsset, IsInsert, IsClear, NoDelta
<1> QED BY <1>4, <1>5, <1>6, <1>7, <1>8, StillStep DEF Inv

\* revert_delta of an increase of the limit.
LEMMA RevertIncreaseStep ==
  ASSUME Inv, NEW o \in Ops, RevertDelta(o), delta[o].type = "HASH_SET_INCREASE_LIMIT"
  PROVE  Inv'
<1>1. /\ mods \in ModFields /\ slots \in Nat /\ base \in BaseType
      /\ pc \in [Ops -> Labels] /\ delta \in [Ops -> Delta] /\ TypeOK /\ CountersInv
  BY ModsTyped DEF Inv, TypeOK, BaseType
<1>2. /\ base' = base /\ slots' = slots /\ committed' = committed /\ delta' = delta
      /\ pc[o] = "held" /\ pc'[o] = "unbase" /\ delta[o] # NoDelta
      /\ mods' = [mods EXCEPT !.size_increase = @ - delta[o].limit_increase]
  BY <1>1 DEF RevertDelta, RevertedMods, IsAsset, IsClear, IsInsert, IsInt, Goto, shared,
     Inv, LabelInv
<1>3. Local(o)
  BY <1>1 DEF RevertDelta, RevertedMods, IsAsset, IsClear, IsInsert, IsInt, Goto, Local,
     Labels, Delta
<1>4. mods' \in ModFields
  BY <1>1, <1>2, DeltaShape DEF ModFields
<1>5. Books(o)
  BY <1>1, <1>2, <1>3, DeltaShape, IntBounds
  DEF Books, ModFields, AddedBy, SubtractedBy, IncreasedBy, CountedBy,
     LowerBy, UpperBy, Applied, Past, IsInt, IsAsset, IsInsert, IsClear, NoDelta
<1>6. TypeOK'
  <2>1. /\ mods'.new_hashes = mods.new_hashes /\ mods'.used = mods.used
        /\ mods'.total_subtracted >= MinInt
        /\ mods'.available_asset >= 0 /\ mods'.available_asset_upperbound <= MaxUint
    BY <1>1, <1>2, Ranges, DeltaShape, IntBounds DEF ModFields
  <2> QED BY <1>1, <1>2, <1>4, <1>5, <2>1, Ranges, TypeStep
<1>7. LabelInv'
  BY <1>1, <1>2, <1>3 DEF Inv, LabelInv, Local, IsInt, IsAsset, IsInsert, IsClear, NoDelta
<1>8. BaseQuiet(o) /\ CoverQuiet(o) /\ HashQuiet(o) /\ RoomQuiet(o) /\ ClearQuiet(o) /\ DeleteQuiet(o)
  BY <1>1, <1>2, DeltaShape, IntBounds
  DEF ModFields, BaseQuiet, InBase, CoverQuiet, Applied, HashQuiet, Inserts, NewElement,
      RoomQuiet, RoomBy, ClearQuiet, Past, DeleteQuiet,
      IsInt, IsAsset, IsInsert, IsClear, NoDelta
<1> QED BY <1>4, <1>5, <1>6, <1>7, <1>8, StillStep DEF Inv

\* revert_delta of an insertion, before its element is erased.
LEMMA RevertInsertStep ==
  ASSUME Inv, NEW o \in Ops, RevertDelta(o), IsInsert(delta[o])
  PROVE  Inv'
<1>1. /\ mods \in ModFields /\ slots \in Nat /\ base \in BaseType
      /\ pc \in [Ops -> Labels] /\ delta \in [Ops -> Delta] /\ TypeOK /\ CountersInv
  BY ModsTyped DEF Inv, TypeOK, BaseType
<1>2. /\ base' = base /\ slots' = slots /\ committed' = committed /\ delta' = delta
      /\ pc[o] = "held" /\ pc'[o] = "erase" /\ delta[o] # NoDelta
      /\ mods' = [mods EXCEPT !.num_new_elts = @ - 1]
  BY <1>1 DEF RevertDelta, RevertedMods, IsAsset, IsClear, IsInsert, IsInt, Goto, shared,
     Inv, LabelInv
<1>3. Local(o)
  BY <1>1 DEF RevertDelta, RevertedMods, IsAsset, IsClear, IsInsert, IsInt, Goto, Local,
     Labels, Delta
<1>4. mods' \in ModFields
  BY <1>1, <1>2, DeltaShape DEF ModFields
<1>5. Books(o)
  BY <1>1, <1>2, <1>3, DeltaShape, IntBounds
  DEF Books, ModFields, AddedBy, SubtractedBy, IncreasedBy, CountedBy,
     LowerBy, UpperBy, Applied, Past, IsInt, IsAsset, IsInsert, IsClear, NoDelta
<1>6. TypeOK'
  <2>1. /\ mods'.new_hashes = mods.new_hashes /\ mods'.used = mods.used
        /\ mods'.total_subtracted >= MinInt
        /\ mods'.available_asset >= 0 /\ mods'.available_asset_upperbound <= MaxUint
    BY <1>1, <1>2, Ranges, DeltaShape, IntBounds DEF ModFields
  <2> QED BY <1>1, <1>2, <1>4, <1>5, <2>1, Ranges, TypeStep
<1>7. LabelInv'
  BY <1>1, <1>2, <1>3 DEF Inv, LabelInv, Local, IsInt, IsAsset, IsInsert, IsClear, NoDelta
<1>8. BaseQuiet(o) /\ CoverQuiet(o) /\ HashQuiet(o) /\ RoomQuiet(o) /\ ClearQuiet(o) /\ DeleteQuiet(o)
  BY <1>1, <1>2, DeltaShape, IntBounds
  DEF ModFields, BaseQuiet, InBase, CoverQuiet, Applied, HashQuiet, Inserts, NewElement,
      RoomQuiet, RoomBy, ClearQuiet, Past, DeleteQuiet,
      IsInt, IsAsset, IsInsert, IsClear, NoDelta
<1> QED BY <1>4, <1>5, <1>6, <1>7, <1>8, StillStep DEF Inv

\* revert_delta of a delta that has no counter.
LEMMA RevertOtherStep ==
  ASSUME Inv, NEW o \in Ops, RevertDelta(o), IsClear(delta[o]) \/ delta[o].type = "RAW_MEMORY_WRITE"
  PROVE  Inv'
<1>1. /\ mods \in ModFields /\ slots \in Nat /\ base \in BaseType
      /\ pc \in [Ops -> Labels] /\ delta \in [Ops -> Delta] /\ TypeOK /\ CountersInv
  BY ModsTyped DEF Inv, TypeOK, BaseType
<1>2. /\ base' = base /\ slots' = slots /\ committed' = committed /\ delta' = delta
      /\ pc[o] = "held" /\ pc'[o] = "unbase" /\ delta[o] # NoDelta
      /\ mods' = mods
  BY <1>1 DEF RevertDelta, RevertedMods, IsAsset, IsClear, IsInsert, IsInt, Goto, shared,
     Inv, LabelInv
<1>3. Local(o)
  BY <1>1 DEF RevertDelta, RevertedMods, IsAsset, IsClear, IsInsert, IsInt, Goto, Local,
     Labels, Delta
<1>4. mods' \in ModFields
  BY <1>1, <1>2, DeltaShape DEF ModFields
<1>5. Books(o)
  BY <1>1, <1>2, <1>3, DeltaShape, IntBounds
  DEF Books, ModFields, AddedBy, SubtractedBy, IncreasedBy, CountedBy,
     LowerBy, UpperBy, Applied, Past, IsInt, IsAsset, IsInsert, IsClear, NoDelta
<1>6. TypeOK'
  <2>1. /\ mods'.new_hashes = mods.new_hashes /\ mods'.used = mods.used
        /\ mods'.total_subtracted >= MinInt
        /\ mods'.available_asset >= 0 /\ mods'.available_asset_upperbound <= MaxUint
    BY <1>1, <1>2, Ranges, DeltaShape, IntBounds DEF ModFields
  <2> QED BY <1>1, <1>2, <1>4, <1>5, <2>1, Ranges, TypeStep
<1>7. LabelInv'
  BY <1>1, <1>2, <1>3 DEF Inv, LabelInv, Local, IsInt, IsAsset, IsInsert, IsClear, NoDelta
<1>8. BaseQuiet(o) /\ CoverQuiet(o) /\ HashQuiet(o) /\ RoomQuiet(o) /\ ClearQuiet(o) /\ DeleteQuiet(o)
  BY <1>1, <1>2, DeltaShape, IntBounds
  DEF ModFields, BaseQuiet, InBase, CoverQuiet, Applied, HashQuiet, Inserts, NewElement,
      RoomQuiet, RoomBy, ClearQuiet, Past, DeleteQuiet,
      IsInt, IsAsset, IsInsert, IsClear, NoDelta
<1> QED BY <1>4, <1>5, <1>6, <1>7, <1>8, StillStep DEF Inv

\* The threshold is raised to the highest that committed.
LEMMA RaiseStep ==
  ASSUME Inv, NEW o \in Ops, RaiseThreshold(o)
  PROVE  Inv'
<1>1. /\ mods \in ModFields /\ slots \in Nat /\ base \in BaseType
      /\ pc \in [Ops -> Labels] /\ delta \in [Ops -> Delta] /\ TypeOK /\ CountersInv
  BY ModsTyped DEF Inv, TypeOK, BaseType
<1>2. /\ base' = base /\ slots' = slots /\ committed' = committed /\ delta' = delta
      /\ pc[o] = "raise" /\ pc'[o] = "final" /\ IsClear(delta[o])
      /\ mods' = [mods EXCEPT !.max_committed_clear_threshold = Max({@, delta[o].threshold})]
  BY <1>1 DEF RaiseThreshold, Goto, shared, Inv, LabelInv
<1>3. Local(o)
  BY <1>1 DEF RaiseThreshold, Goto, Local, Labels, Delta
<1>4. mods' \in ModFields
  <2>0. mods.max_committed_clear_threshold \in Nat /\ delta[o].threshold \in Nat
    BY <1>1, <1>2, DeltaShape DEF ModFields
  <2>1. Max({mods.max_committed_clear_threshold, delta[o].threshold}) \in Nat
    BY <2>0, MaxPair
  <2> QED BY <1>1, <1>2, <2>1 DEF ModFields
<1>5. Books(o)
  BY <1>1, <1>2, <1>3, DeltaShape, IntBounds
  DEF Books, ModFields, AddedBy, SubtractedBy, IncreasedBy, CountedBy,
     LowerBy, UpperBy, Applied, Past, IsInt, IsAsset, IsInsert, IsClear, NoDelta
<1>6. TypeOK'
  <2>1. /\ mods'.new_hashes = mods.new_hashes /\ mods'.used = mods.used
        /\ mods'.total_subtracted >= MinInt
        /\ mods'.available_asset >= 0 /\ mods'.available_asset_upperbound <= MaxUint
    BY <1>1, <1>2, Ranges, DeltaShape, IntBounds DEF ModFields
  <2> QED BY <1>1, <1>2, <1>4, <1>5, <2>1, Ranges, TypeStep
<1>7. LabelInv'
  BY <1>1, <1>2, <1>3 DEF Inv, LabelInv, Local, IsInt, IsAsset, IsInsert, IsClear, NoDelta
<1>8. ClearInv'
  <2> DEFINE old == mods.max_committed_clear_threshold
             new == mods'.max_committed_clear_threshold
             t == delta[o].threshold
  <2>1. old \in Nat /\ t \in Nat
    BY <1>1, <1>2, DeltaShape DEF ModFields
  <2>2. new = Max({old, t})
    BY <1>1, <1>2 DEF ModFields
  <2>3. new = IF old <= t THEN t ELSE old
    BY <2>1, <2>2, MaxPair
  <2>4. mods'.hashset_clear_committed = mods.hashset_clear_committed
    BY <1>1, <1>2 DEF ModFields
  <2>5. \A p \in Ops : pc'[p] \in Past <=> pc[p] \in Past
    BY <1>2, <1>3 DEF Local, Past
  <2>6. \A p \in Ops : pc'[p] \in {"final", "committed"} <=> p = o \/ pc[p] \in {"final", "committed"}
    BY <1>2, <1>3 DEF Local
  <2>7. \A p \in Ops : IsClear(delta[p]) /\ pc[p] \in {"final", "committed"}
                        => delta[p].threshold <= old /\ delta[p].threshold \in Nat
    BY <1>1, DeltaShape DEF Inv, ClearInv
  <2>8. old # 0 => \E p \in Ops : /\ IsClear(delta[p]) /\ pc[p] \in {"final", "committed"}
                                   /\ delta[p].threshold = old
    BY DEF Inv, ClearInv
  <2>9. mods.hashset_clear_committed <=> \E p \in Ops : IsClear(delta[p]) /\ pc[p] \in Past
    BY DEF Inv, ClearInv
  <2> HIDE DEF old, new, t
  <2>10. \A p \in Ops : IsClear(delta[p]) /\ pc'[p] \in {"final", "committed"}
                        => delta[p].threshold <= new
    BY <2>1, <2>3, <2>6, <2>7 DEF t
  <2>11. new # 0 => \E p \in Ops : /\ IsClear(delta[p]) /\ pc'[p] \in {"final", "committed"}
                                   /\ delta[p].threshold = new
    BY <1>2, <2>1, <2>3, <2>6, <2>8 DEF t
  <2>12. mods'.hashset_clear_committed <=> \E p \in Ops : IsClear(delta[p]) /\ pc'[p] \in Past
    BY <2>4, <2>5, <2>9
  <2> QED BY <1>2, <2>10, <2>11, <2>12 DEF ClearInv, new
<1>9. BaseQuiet(o) /\ CoverQuiet(o) /\ HashQuiet(o) /\ RoomQuiet(o) /\ DeleteQuiet(o)
  BY <1>1, <1>2, DeltaShape, IntBounds
  DEF ModFields, BaseQuiet, InBase, CoverQuiet, Applied, HashQuiet, Inserts, NewElement,
      RoomQuiet, RoomBy, DeleteQuiet,
      IsInt, IsAsset, IsInsert, IsClear, NoDelta
<1> QED BY <1>4, <1>5, <1>6, <1>7, <1>8, <1>9, StillStep DEF Inv

\* The element of a reverted insertion is erased: nobody else has it.
LEMMA EraseStep ==
  ASSUME Inv, NEW o \in Ops, EraseHash(o)
  PROVE  Inv'
<1>1. /\ mods \in ModFields /\ slots \in Nat /\ base \in BaseType
      /\ pc \in [Ops -> Labels] /\ delta \in [Ops -> Delta] /\ TypeOK /\ CountersInv
  BY ModsTyped DEF Inv, TypeOK, BaseType
<1>2. /\ base' = base /\ slots' = slots /\ committed' = committed /\ delta' = delta
      /\ pc[o] = "erase" /\ pc'[o] = "unbase" /\ IsInsert(delta[o])
      /\ mods' = [mods EXCEPT !.new_hashes = @ \ {delta[o].hash}]
  BY <1>1 DEF EraseHash, Goto, shared, Inv, LabelInv
<1>3. Local(o)
  BY <1>1 DEF EraseHash, Goto, Local, Labels, Delta
<1>4. mods' \in ModFields
  <2>1. mods.new_hashes \ {delta[o].hash} \in SUBSET Entries
    BY <1>1 DEF ModFields
  <2> QED BY <1>1, <1>2, <2>1 DEF ModFields
<1>5. Books(o)
  BY <1>1, <1>2, <1>3, DeltaShape, IntBounds
  DEF Books, ModFields, AddedBy, SubtractedBy, IncreasedBy, CountedBy,
     LowerBy, UpperBy, Applied, Past, IsInt, IsAsset, IsInsert, IsClear, NoDelta
<1>6. TypeOK'
  <2>1. IsFiniteSet(mods.new_hashes)
    BY <1>1, EntriesFinite, FS_Subset DEF ModFields
  <2>2. Cardinality(mods.new_hashes \ {delta[o].hash}) <= Cardinality(mods.new_hashes)
        /\ Cardinality(mods.new_hashes \ {delta[o].hash}) \in Nat
        /\ Cardinality(mods.new_hashes) \in Nat
    <3>1. IsFiniteSet(mods.new_hashes \ {delta[o].hash})
      BY <2>1, FS_RemoveElement
    <3>2. mods.new_hashes \ {delta[o].hash} \in SUBSET mods.new_hashes
      OBVIOUS
    <3> QED BY <2>1, <3>1, <3>2, FS_Subset, FS_CardinalityType
  <2>3. mods'.new_hashes = mods.new_hashes \ {delta[o].hash} /\ mods'.used = mods.used
    BY <1>1, <1>2 DEF ModFields
  <2>4. mods'.new_hashes \cap Hashes(committed) = {}
        /\ Cardinality(mods'.new_hashes) <= mods'.used /\ mods'.used <= slots
    BY <1>1, <2>2, <2>3, Ranges DEF ModFields
  <2>5. /\ mods'.total_subtracted >= MinInt
        /\ mods'.available_asset >= 0 /\ mods'.available_asset_upperbound <= MaxUint
    BY <1>1, <1>2, Ranges DEF ModFields
  <2> QED BY <1>1, <1>2, <1>4, <1>5, <2>4, <2>5, TypeStep
<1>7. LabelInv'
  BY <1>1, <1>2, <1>3 DEF Inv, LabelInv, Local, IsInt, IsAsset, IsInsert, IsClear, NoDelta
<1>8. HashInv'
  <2> DEFINE I == {p \in Ops : Inserts(pc[p], delta[p])}
  <2>1. {p \in Ops : Inserts(pc'[p], delta[p])} = I \ {o} /\ o \in I
    BY <1>2, <1>3 DEF Local, Inserts
  <2>2. \A p \in Ops : NewElement(pc'[p], delta[p]) => NewElement(pc[p], delta[p])
    BY <1>2, <1>3 DEF Local, NewElement
  <2>3. mods.new_hashes = {delta[p].hash : p \in I}
    BY DEF Inv, HashInv
  <2>4. mods'.new_hashes = mods.new_hashes \ {delta[o].hash}
    BY <1>1, <1>2 DEF ModFields
  <2>5. \A p, q \in I : p # q => delta[p].hash # delta[q].hash
    BY DEF Inv, HashInv
  <2>6. mods'.new_hashes = {delta[p].hash : p \in I \ {o}}
    BY <2>1, <2>3, <2>4, <2>5
  <2>7. \A p, q \in Ops :
          Inserts(pc'[p], delta[p]) /\ Inserts(pc'[q], delta[q]) /\ p # q
            => delta[p].hash # delta[q].hash
    BY <2>1, <2>5
  <2>8. \A p \in Ops : NewElement(pc'[p], delta[p]) => delta[p].hash \notin Hashes(committed)
    BY <2>2 DEF Inv, HashInv
  <2> QED BY <1>2, <2>1, <2>6, <2>7, <2>8 DEF HashInv
<1>9. BaseQuiet(o) /\ CoverQuiet(o) /\ RoomQuiet(o) /\ ClearQuiet(o) /\ DeleteQuiet(o)
  BY <1>1, <1>2, DeltaShape, IntBounds
  DEF ModFields, BaseQuiet, InBase, CoverQuiet, Applied, RoomQuiet, RoomBy, ClearQuiet,
      Past, DeleteQuiet,
      IsInt, IsAsset, IsInsert, IsClear, NoDelta
<1> QED BY <1>4, <1>5, <1>6, <1>7, <1>8, <1>9, StillStep DEF Inv
-----------------------------------------------------------------------------
(* The states in which a block begins.                                     *)

\* An object between two blocks.
Fresh ==
    /\ pc = [o \in Ops |-> "idle"]
    /\ delta = [o \in Ops |-> NoDelta]
    /\ base = NewBase
    /\ committed \in Objects \cup {NoObject}
    /\ slots \in Nat
    /\ mods.used \in 0 .. slots
    /\ mods = NoMods(committed, mods.used)

\* Such an object satisfies the invariant.
LEMMA FreshInv == Fresh => Inv
<1> SUFFICES ASSUME Fresh PROVE Inv
  OBVIOUS
<1>1. /\ pc \in [Ops -> Labels] /\ delta \in [Ops -> Delta]
      /\ \A o \in Ops : pc[o] = "idle" /\ delta[o] = NoDelta
  BY DEF Fresh, Labels, Delta
<1>2. Supply(committed) \in 0 .. MaxUint
  <2>1. CASE committed = NoObject
    BY <2>1, IntBounds DEF Supply, NoObject
  <2>2. CASE committed \in Objects
    BY <2>2, IntBounds DEF Supply, Objects
  <2> QED BY <2>1, <2>2 DEF Fresh
<1>3. /\ mods.total_subtracted = 0 /\ mods.total_added = 0 /\ mods.size_increase = 0
      /\ mods.new_hashes = {} /\ mods.num_new_elts = 0 /\ mods.used \in 0 .. slots
      /\ mods.hashset_clear_committed = FALSE /\ mods.max_committed_clear_threshold = 0
      /\ mods.delete_last_committed = FALSE
      /\ mods.available_asset = Supply(committed)
      /\ mods.available_asset_upperbound = Supply(committed)
  BY DEF Fresh, NoMods
<1>4. TypeOK
  <2>1. base \in BaseType
    BY DEF Fresh, NewBase, BaseType
  <2>2. mods \in [total_subtracted : MinInt .. 0, total_added : Nat,
                 size_increase : Nat,
                 new_hashes : SUBSET (Entries \ Hashes(committed)), used : 0 .. slots,
                 num_new_elts : 0 .. Cardinality(Ops),
                 hashset_clear_committed : BOOLEAN,
                 max_committed_clear_threshold : Nat,
                 delete_last_committed : BOOLEAN,
                 available_asset : 0 .. MaxUint,
                 available_asset_upperbound : 0 .. MaxUint]
    <3>1. Cardinality(Ops) \in Nat /\ 0 \in MinInt .. 0
      BY FS_CardinalityType, ObjectAssumption, IntBounds
    <3>2. mods = NoMods(committed, mods.used) /\ mods.used \in 0 .. slots
      BY DEF Fresh
    <3>3. \A u \in 0 .. slots : NoMods(committed, u) \in
             [total_subtracted : MinInt .. 0, total_added : Nat,
              size_increase : Nat,
              new_hashes : SUBSET (Entries \ Hashes(committed)), used : 0 .. slots,
              num_new_elts : 0 .. Cardinality(Ops),
              hashset_clear_committed : BOOLEAN,
              max_committed_clear_threshold : Nat,
              delete_last_committed : BOOLEAN,
              available_asset : 0 .. MaxUint,
              available_asset_upperbound : 0 .. MaxUint]
      BY <1>2, <3>1 DEF NoMods
    <3> QED BY <3>2, <3>3, Zenon
  <2>3. Cardinality(mods.new_hashes) <= mods.used
    BY <1>3, FS_EmptySet DEF Fresh
  <2> QED BY <1>1, <2>1, <2>2, <2>3 DEF TypeOK, BaseType, Fresh, Delta
<1>5. CountersInv
  <2>1. \A o \in Ops : /\ Added(pc, delta)[o] = 0 /\ Subtracted(pc, delta)[o] = 0
                       /\ Increased(pc, delta)[o] = 0 /\ Counted(pc, delta)[o] = 0
                       /\ Lower(pc, delta)[o] = 0 /\ Upper(pc, delta)[o] = 0
    BY <1>1 DEF Added, Subtracted, Increased, Counted, Lower, Upper, AddedBy, SubtractedBy,
       IncreasedBy, CountedBy, LowerBy, UpperBy, IsInt, IsAsset, IsInsert, NoDelta
  <2>2. /\ SumFunctionOnSet(Added(pc, delta), Ops) = 0
        /\ SumFunctionOnSet(Subtracted(pc, delta), Ops) = 0
        /\ SumFunctionOnSet(Increased(pc, delta), Ops) = 0
        /\ SumFunctionOnSet(Counted(pc, delta), Ops) = 0
        /\ SumFunctionOnSet(Lower(pc, delta), Ops) = 0
        /\ SumFunctionOnSet(Upper(pc, delta), Ops) = 0
    BY <2>1, SumZero, ObjectAssumption
  <2> QED BY <1>2, <1>3, <2>2 DEF CountersInv
<1>6. LabelInv /\ CoverInv /\ RoomInv /\ ClearInv /\ DeleteInv
  BY <1>1, <1>3 DEF LabelInv, CoverInv, RoomInv, ClearInv, DeleteInv, RoomBy,
     IsInt, IsAsset, IsInsert, IsClear, NoDelta
<1>7. BaseInv
  BY <1>1 DEF Fresh, BaseInv, NewBase, Based, InBase
<1>8. HashInv
  BY <1>1, <1>3 DEF HashInv, Inserts, NewElement, IsInsert, NoDelta
<1> QED BY <1>4, <1>5, <1>6, <1>7, <1>8 DEF Inv

\* And so it does in the next state.
LEMMA FreshInvNext == Fresh' => Inv'
BY FreshInv, PTL

\* The constructors leave such an object.
LEMMA InitInv == Init => Inv
<1> SUFFICES ASSUME Init PROVE Fresh
  BY FreshInv
<1>1. committed \in Objects \cup {NoObject}
  BY ObjectAssumption DEF Init
<1>2. slots \in Nat
  BY <1>1, ObjectAssumption DEF Init, SlotsFor, Slots, Objects
<1>3. mods = NoMods(committed, 0) /\ mods.used = 0
  BY DEF Init, clear_mods, NoMods
<1> QED BY <1>1, <1>2, <1>3 DEF Init, Fresh

\* Behind the barrier a delta has committed or has left nothing behind.
LEMMA LeavesNoTraceHolds == Inv => LeavesNoTrace
<1> SUFFICES ASSUME Inv, Quiescent, Committed = {}
             PROVE  base = NewBase /\ mods = NoMods(committed, mods.used)
  BY DEF LeavesNoTrace
<1>1. /\ mods \in ModFields /\ base \in BaseType /\ TypeOK
      /\ pc \in [Ops -> Labels] /\ delta \in [Ops -> Delta]
  BY ModsTyped DEF Inv, TypeOK, BaseType
<1>2. \A o \in Ops : pc[o] \in {"idle", "void"}
  BY DEF Quiescent, Committed
<1>3. Based = {}
  BY <1>2 DEF Based, InBase
<1>4. base = NewBase
  BY <1>1, <1>3 DEF Inv, BaseInv, NewBase, BaseType
<1>5. /\ mods.total_added = 0 /\ mods.total_subtracted = 0 /\ mods.size_increase = 0
      /\ mods.num_new_elts = 0
      /\ mods.available_asset = Supply(committed)
      /\ mods.available_asset_upperbound = Supply(committed)
  <2>1. \A o \in Ops : /\ Added(pc, delta)[o] = 0 /\ Subtracted(pc, delta)[o] = 0
                       /\ Increased(pc, delta)[o] = 0 /\ Counted(pc, delta)[o] = 0
                       /\ Lower(pc, delta)[o] = 0 /\ Upper(pc, delta)[o] = 0
    BY <1>2 DEF Added, Subtracted, Increased, Counted, Lower, Upper, AddedBy, SubtractedBy,
       IncreasedBy, CountedBy, LowerBy, UpperBy, Applied, Past
  <2>2. /\ SumFunctionOnSet(Added(pc, delta), Ops) = 0
        /\ SumFunctionOnSet(Subtracted(pc, delta), Ops) = 0
        /\ SumFunctionOnSet(Increased(pc, delta), Ops) = 0
        /\ SumFunctionOnSet(Counted(pc, delta), Ops) = 0
        /\ SumFunctionOnSet(Lower(pc, delta), Ops) = 0
        /\ SumFunctionOnSet(Upper(pc, delta), Ops) = 0
    BY <2>1, SumZero, ObjectAssumption
  <2>3. Supply(committed) \in Int
    BY <1>1, SupplyNat, IntBounds
  <2> QED BY <2>2, <2>3 DEF Inv, CountersInv
<1>6. /\ mods.new_hashes = {} /\ mods.hashset_clear_committed = FALSE
      /\ mods.max_committed_clear_threshold = 0 /\ mods.delete_last_committed = FALSE
  <2>1. mods.new_hashes = {}
    BY <1>2 DEF Inv, HashInv, Inserts
  <2>2. mods.hashset_clear_committed = FALSE /\ mods.max_committed_clear_threshold = 0
    BY <1>1, <1>2 DEF Inv, ClearInv, Past, ModFields
  <2>3. mods.delete_last_committed = FALSE
    BY <1>1, <1>2 DEF Inv, DeleteInv, ModFields
  <2> QED BY <2>1, <2>2, <2>3
<1>7. mods = NoMods(committed, mods.used)
  BY <1>1, <1>5, <1>6 DEF ModFields, NoMods
<1> QED BY <1>4, <1>7

-----------------------------------------------------------------------------
(* What commit_round merges into.                                          *)

\* The object that commit_round starts from.
Target == IF base.agreed = NoObject THEN committed
          ELSE object_from_delta_class(base.agreed, committed)

\* When something is subtracted, the base value covers all of it.
LEMMA Covered ==
  ASSUME Inv, mods.total_subtracted # 0
  PROVE  \E o \in Based : /\ IsInt(delta[o])
                          /\ delta[o].set_value \in Int
                          /\ delta[o].set_value + mods.total_subtracted >= 0
<1>1. pc \in [Ops -> Labels] /\ delta \in [Ops -> Delta]
  BY DEF Inv, TypeOK, Delta
<1>2. PICK o \in Ops : Subtracted(pc, delta)[o] # 0
  <2>1. SumFunctionOnSet(Subtracted(pc, delta), Ops) # 0
    BY DEF Inv, CountersInv
  <2> QED BY <2>1, SumZero, ObjectAssumption
<1>3. IsInt(delta[o]) /\ pc[o] \in Applied /\ delta[o].delta < 0
  BY <1>2 DEF Subtracted, SubtractedBy
<1>4. o \in Based
  BY <1>3 DEF Based, InBase, IsInt, Applied
<1>5. delta[o].set_value \in Int
  BY <1>1, <1>3, DeltaShape, IntBounds
<1> QED BY <1>3, <1>4, <1>5 DEF Inv, CoverInv

\* What that object can be, and what merging may rely on.
LEMMA TargetShape ==
  ASSUME Inv
  PROVE  \/ Target = NoObject
         \/ \E v \in MinInt .. MaxInt :
              /\ Target = [type |-> "NONNEGATIVE_INT64", value |-> v]
              /\ v + mods.total_subtracted >= MinInt
         \/ \E v \in Nat : Target = [type |-> "RAW_MEMORY", value |-> v]
         \/ Target = [type |-> "HASH_SET", hashes |-> Hashes(committed),
                      max_size |-> SizeLimit(committed)]
         \/ \E v \in 0 .. MaxUint : Target = [type |-> "KNOWN_SUPPLY_ASSET", value |-> v]
<1>1. /\ committed \in Objects \cup {NoObject} /\ base.agreed \in DeltaClasses \cup {NoObject}
      /\ mods.total_subtracted \in MinInt .. 0 /\ TypeOK
      /\ pc \in [Ops -> Labels] /\ delta \in [Ops -> Delta]
  BY DEF Inv, TypeOK, Delta
<1>2. base.agreed = NoObject => Based = {}
  BY <1>1, DeltaClassType DEF Inv, BaseInv, Based
<1>3. base.agreed # NoObject => TypeAllowed(committed, base.agreed)
  BY DEF Inv, BaseInv
<1>4. mods.total_subtracted # 0 =>
        /\ base.agreed.type = "NONNEGATIVE_INT64"
        /\ base.agreed.value + mods.total_subtracted >= 0
  <2> SUFFICES ASSUME mods.total_subtracted # 0
               PROVE  /\ base.agreed.type = "NONNEGATIVE_INT64"
                      /\ base.agreed.value + mods.total_subtracted >= 0
    OBVIOUS
  <2>1. PICK o \in Based : IsInt(delta[o]) /\ delta[o].set_value + mods.total_subtracted >= 0
    BY Covered
  <2>2. base.agreed = DeltaClass(delta[o])
    BY DEF Inv, BaseInv
  <2> QED BY <2>1, <2>2 DEF DeltaClass, IsInt
<1>5. CASE base.agreed = NoObject
  <2>1. Target = committed
    BY <1>5 DEF Target
  <2>2. mods.total_subtracted = 0
    BY <1>2, <1>5, Covered
  <2> QED BY <1>1, <2>1, <2>2, IntBounds DEF Objects, Hashes, SizeLimit
<1>6. CASE base.agreed # NoObject
  <2>1. base.agreed \in DeltaClasses
    BY <1>1, <1>6
  <2>2. Target = object_from_delta_class(base.agreed, committed)
    BY <1>6 DEF Target
  <2>3. CASE base.agreed.type = "NONNEGATIVE_INT64"
    <3>1. Target = base.agreed
      BY <2>2, <2>3 DEF object_from_delta_class
    <3>2. PICK v \in MinInt .. MaxInt : base.agreed = [type |-> "NONNEGATIVE_INT64", value |-> v]
      BY <2>1, <2>3 DEF DeltaClasses
    <3>3. v + mods.total_subtracted >= MinInt
      BY <1>1, <1>4, <3>2, IntBounds
    <3> QED BY <3>1, <3>2, <3>3
  <2>4. CASE base.agreed.type = "RAW_MEMORY"
    BY <2>1, <2>2, <2>4 DEF object_from_delta_class, DeltaClasses
  <2>5. CASE base.agreed.type = "KNOWN_SUPPLY_ASSET"
    <3>1. Target = IF committed = NoObject THEN base.agreed ELSE committed
      BY <2>2, <2>5 DEF object_from_delta_class
    <3>2. committed # NoObject => committed.type = "KNOWN_SUPPLY_ASSET"
      BY <1>3, <1>6, <2>5 DEF TypeAllowed
    <3>3. \E v \in 0 .. MaxUint : Target = [type |-> "KNOWN_SUPPLY_ASSET", value |-> v]
      BY <1>1, <2>1, <2>5, <3>1, <3>2, IntBounds DEF DeltaClasses, Objects
    <3> QED BY <3>3
  <2>6. CASE base.agreed.type = "HASH_SET"
    <3>1. Target = IF committed = NoObject
                   THEN [type |-> "HASH_SET", hashes |-> {}, max_size |-> StartSize]
                   ELSE committed
      BY <2>2, <2>6 DEF object_from_delta_class
    <3>2. committed # NoObject => committed.type = "HASH_SET"
      BY <1>3, <1>6, <2>6 DEF TypeAllowed
    <3>3. Target = [type |-> "HASH_SET", hashes |-> Hashes(committed),
                    max_size |-> SizeLimit(committed)]
      <4>1. CASE committed = NoObject
        <5>1. Hashes(committed) = {} /\ SizeLimit(committed) = StartSize
          BY <4>1 DEF Hashes, SizeLimit, NoObject
        <5> QED BY <3>1, <4>1, <5>1
      <4>2. CASE committed # NoObject
        <5>1. PICK h \in SUBSET Entries, m \in 0 .. MaxSize :
                committed = [type |-> "HASH_SET", hashes |-> h, max_size |-> m]
          BY <1>1, <3>2, <4>2 DEF Objects
        <5>2. Hashes(committed) = h /\ SizeLimit(committed) = m
          BY <5>1 DEF Hashes, SizeLimit
        <5> QED BY <3>1, <4>2, <5>1, <5>2
      <4> QED BY <4>1, <4>2
    <3> QED BY <3>3
  <2> QED BY <2>1, <2>3, <2>4, <2>5, <2>6 DEF DeltaClasses
<1> QED BY <1>5, <1>6

\* The value that commit_round leaves, case by case.
LEMMA MergedIs ==
  ASSUME Inv
  PROVE  /\ Target = NoObject \/ mods.delete_last_committed => Merged = NoObject
         /\ \A v \in MinInt .. MaxInt :
              Target = [type |-> "NONNEGATIVE_INT64", value |-> v] /\ ~mods.delete_last_committed
                => Merged = [type |-> "NONNEGATIVE_INT64",
                             value |-> IF v + mods.total_subtracted + mods.total_added <= MaxInt
                                       THEN v + mods.total_subtracted + mods.total_added
                                       ELSE MaxInt]
         /\ \A v \in Nat :
              Target = [type |-> "RAW_MEMORY", value |-> v] /\ ~mods.delete_last_committed
                => Merged = Target
         /\ Target = [type |-> "HASH_SET", hashes |-> Hashes(committed),
                      max_size |-> SizeLimit(committed)] /\ ~mods.delete_last_committed
              => Merged = [type |-> "HASH_SET",
                           max_size |-> Min({MaxSize, SizeLimit(committed) + mods.size_increase}),
                           hashes |-> {h \in Hashes(committed) \cup mods.new_hashes :
                              ~mods.hashset_clear_committed
                                \/ h.index > mods.max_committed_clear_threshold}]
         /\ \A v \in 0 .. MaxUint :
              Target = [type |-> "KNOWN_SUPPLY_ASSET", value |-> v] /\ ~mods.delete_last_committed
                => Merged = [type |-> "KNOWN_SUPPLY_ASSET", value |-> mods.available_asset]
<1>1. Merged =
        CASE Target = NoObject -> NoObject
          [] Target # NoObject /\ mods.delete_last_committed -> NoObject
          [] OTHER ->
               CASE Target.type = "NONNEGATIVE_INT64" -> MergedInt(Target)
                 [] Target.type = "RAW_MEMORY" -> Target
                 [] Target.type = "HASH_SET" -> MergedHashSet(Target)
                 [] Target.type = "KNOWN_SUPPLY_ASSET" ->
                      [Target EXCEPT !.value = mods.available_asset]
  BY DEF Merged, Target
<1>2. Target = NoObject \/ mods.delete_last_committed => Merged = NoObject
  BY <1>1
<1>3. Target # NoObject /\ ~mods.delete_last_committed =>
        /\ Target.type = "NONNEGATIVE_INT64" => Merged = MergedInt(Target)
        /\ Target.type = "RAW_MEMORY" => Merged = Target
        /\ Target.type = "HASH_SET" => Merged = MergedHashSet(Target)
        /\ Target.type = "KNOWN_SUPPLY_ASSET" =>
             Merged = [Target EXCEPT !.value = mods.available_asset]
  BY <1>1
<1>4. mods.total_subtracted \in Int /\ mods.total_added \in Nat /\ mods.size_increase \in Nat
  BY IntBounds DEF Inv, TypeOK
<1>5. ASSUME NEW v \in MinInt .. MaxInt, ~mods.delete_last_committed,
             Target = [type |-> "NONNEGATIVE_INT64", value |-> v]
      PROVE  Merged = [type |-> "NONNEGATIVE_INT64",
                       value |-> IF v + mods.total_subtracted + mods.total_added <= MaxInt
                                 THEN v + mods.total_subtracted + mods.total_added
                                 ELSE MaxInt]
  <2> DEFINE u == v + mods.total_subtracted
             w == u + fetch_cap(mods.total_added)
  <2>1. u >= MinInt /\ u \in Int
    <3>1. \E x \in MinInt .. MaxInt :
            /\ Target = [type |-> "NONNEGATIVE_INT64", value |-> x]
            /\ x + mods.total_subtracted >= MinInt
      BY <1>5, TargetShape DEF NoObject
    <3> QED BY <1>4, <1>5, <3>1, IntBounds
  <2>2. fetch_cap(mods.total_added) =
          IF mods.total_added <= MaxUint THEN mods.total_added ELSE MaxUint
    BY <1>4, MinPair, IntBounds DEF fetch_cap
  <2>3. w \in Int
    BY <1>4, <2>1, <2>2, IntBounds
  <2>4. Min({MaxInt, w}) = IF MaxInt <= w THEN MaxInt ELSE w
    <3> HIDE DEF w
    <3> QED BY <2>3, MinPair, IntBounds
  <2>5. Min({MaxInt, w}) = IF u + mods.total_added <= MaxInt THEN u + mods.total_added ELSE MaxInt
    BY <1>4, <2>1, <2>2, <2>4, IntBounds
  <2>6. MergedInt(Target) = [Target EXCEPT !.value = Min({MaxInt, w})]
    BY <1>5 DEF MergedInt
  <2>7. Merged = MergedInt(Target)
    BY <1>3, <1>5 DEF NoObject
  <2> HIDE DEF w, u
  <2>8. MergedInt(Target) = [type |-> "NONNEGATIVE_INT64", value |-> Min({MaxInt, w})]
    BY <1>5, <2>6
  <2> QED BY <2>5, <2>7, <2>8 DEF u
<1>6. ASSUME NEW v \in Nat, Target = [type |-> "RAW_MEMORY", value |-> v],
             ~mods.delete_last_committed
      PROVE  Merged = Target
  BY <1>3, <1>6 DEF NoObject
<1>7. ASSUME NEW v \in 0 .. MaxUint, Target = [type |-> "KNOWN_SUPPLY_ASSET", value |-> v],
             ~mods.delete_last_committed
      PROVE  Merged = [type |-> "KNOWN_SUPPLY_ASSET", value |-> mods.available_asset]
  <2>1. Merged = [Target EXCEPT !.value = mods.available_asset]
    BY <1>3, <1>7 DEF NoObject
  <2> QED BY <1>7, <2>1
<1>8. ASSUME Target = [type |-> "HASH_SET", hashes |-> Hashes(committed),
                       max_size |-> SizeLimit(committed)],
             ~mods.delete_last_committed
      PROVE  Merged = [type |-> "HASH_SET",
                       max_size |-> Min({MaxSize, SizeLimit(committed) + mods.size_increase}),
                       hashes |-> {h \in Hashes(committed) \cup mods.new_hashes :
                          ~mods.hashset_clear_committed
                            \/ h.index > mods.max_committed_clear_threshold}]
  <2>1. Merged = MergedHashSet(Target)
    BY <1>3, <1>8 DEF NoObject
  <2> DEFINE m == Min({MaxSize, SizeLimit(committed) + mods.size_increase})
             hs == {h \in Hashes(committed) \cup mods.new_hashes :
                      ~mods.hashset_clear_committed
                        \/ h.index > mods.max_committed_clear_threshold}
  <2>2. MergedHashSet(Target) = [Target EXCEPT !.max_size = m, !.hashes = hs]
    BY <1>8 DEF MergedHashSet
  <2> HIDE DEF m, hs
  <2>3. [Target EXCEPT !.max_size = m, !.hashes = hs]
          = [type |-> "HASH_SET", max_size |-> m, hashes |-> hs]
    <3>1. [Target EXCEPT !.max_size = m]
            = [type |-> "HASH_SET", hashes |-> Hashes(committed), max_size |-> m]
      BY <1>8
    <3>2. [[Target EXCEPT !.max_size = m] EXCEPT !.hashes = hs]
            = [type |-> "HASH_SET", hashes |-> hs, max_size |-> m]
      <4>1. \A r : r = [type |-> "HASH_SET", hashes |-> Hashes(committed), max_size |-> m]
                     => [r EXCEPT !.hashes = hs]
                          = [type |-> "HASH_SET", hashes |-> hs, max_size |-> m]
        OBVIOUS
      <4> QED BY <3>1, <4>1
    <3>3. [[Target EXCEPT !.max_size = m] EXCEPT !.hashes = hs]
            = [Target EXCEPT !.max_size = m, !.hashes = hs]
      BY <1>8
    <3> QED BY <3>2, <3>3
  <2> QED BY <2>1, <2>2, <2>3 DEF m, hs
<1> QED BY <1>2, <1>5, <1>6, <1>7, <1>8

\* The merged value is an object.
LEMMA MergedType == ASSUME Inv PROVE Merged \in Objects \cup {NoObject}
<1>1. CASE Target = NoObject \/ mods.delete_last_committed
  BY <1>1, MergedIs
<1>2. CASE Target # NoObject /\ ~mods.delete_last_committed
  <2>0. mods.total_subtracted \in Int /\ mods.total_added \in Nat /\ mods.size_increase \in Nat
        /\ mods.new_hashes \subseteq Entries /\ mods.available_asset \in 0 .. MaxUint
    BY IntBounds DEF Inv, TypeOK
  <2>1. ASSUME NEW v \in MinInt .. MaxInt, v + mods.total_subtracted >= MinInt,
               Target = [type |-> "NONNEGATIVE_INT64", value |-> v]
        PROVE  Merged \in Objects
    <3> DEFINE w == IF v + mods.total_subtracted + mods.total_added <= MaxInt
                    THEN v + mods.total_subtracted + mods.total_added ELSE MaxInt
    <3>1. w \in MinInt .. MaxInt
      BY <2>0, <2>1, IntBounds
    <3>2. Merged = [type |-> "NONNEGATIVE_INT64", value |-> w]
      BY <1>2, <2>1, MergedIs
    <3> HIDE DEF w
    <3> QED BY <3>1, <3>2 DEF Objects
  <2>2. ASSUME NEW v \in Nat, Target = [type |-> "RAW_MEMORY", value |-> v]
        PROVE  Merged \in Objects
    BY <1>2, <2>2, MergedIs DEF Objects
  <2>3. ASSUME Target = [type |-> "HASH_SET", hashes |-> Hashes(committed),
                         max_size |-> SizeLimit(committed)]
        PROVE  Merged \in Objects
    <3> DEFINE m == Min({MaxSize, SizeLimit(committed) + mods.size_increase})
               hs == {h \in Hashes(committed) \cup mods.new_hashes :
                        ~mods.hashset_clear_committed
                          \/ h.index > mods.max_committed_clear_threshold}
    <3>1. Hashes(committed) \subseteq Entries /\ SizeLimit(committed) \in Nat
      BY HashesNat DEF Inv, TypeOK
    <3>2. hs \in SUBSET Entries
      BY <2>0, <3>1
    <3>3. m \in 0 .. MaxSize
      <4>1. SizeLimit(committed) + mods.size_increase \in Nat /\ MaxSize \in Nat
        BY <2>0, <3>1, ObjectAssumption
      <4> DEFINE n == SizeLimit(committed) + mods.size_increase
      <4> HIDE DEF n
      <4>2. Min({MaxSize, n}) = IF MaxSize <= n THEN MaxSize ELSE n
        BY <4>1, MinPair DEF n
      <4>3. Min({MaxSize, n}) \in 0 .. MaxSize
        BY <4>1, <4>2 DEF n
      <4> QED BY <4>3 DEF n
    <3>4. Merged = [type |-> "HASH_SET", max_size |-> m, hashes |-> hs]
      BY <1>2, <2>3, MergedIs
    <3> HIDE DEF m, hs
    <3> QED BY <3>2, <3>3, <3>4 DEF Objects
  <2>4. ASSUME NEW v \in 0 .. MaxUint, Target = [type |-> "KNOWN_SUPPLY_ASSET", value |-> v]
        PROVE  Merged \in Objects
    <3>1. Merged = [type |-> "KNOWN_SUPPLY_ASSET", value |-> mods.available_asset]
      BY <1>2, <2>4, MergedIs
    <3> QED BY <2>0, <3>1 DEF Objects
  <2> QED BY <1>2, <2>1, <2>2, <2>3, <2>4, TargetShape
<1> QED BY <1>1, <1>2

\* The end of a block leaves a fresh object.
LEMMA RoundStep ==
  ASSUME Inv, CommitRound \/ RewindRound \/ UnloggedRound PROVE Inv'
<1> SUFFICES Fresh'
  BY FreshInvNext
<1>0. TypeOK /\ committed \in Objects \cup {NoObject} /\ slots \in Nat /\ mods.used \in 0 .. slots
  BY DEF Inv, TypeOK
<1>1. ASSUME CommitRound PROVE Fresh'
  <2>1. Merged \in Objects \cup {NoObject}
    BY MergedType
  <2>2. slots' \in Nat
    <3>1. SlotsFor(NoObject) \in Nat
      BY ObjectAssumption DEF SlotsFor, Slots
    <3>2. GrownSlots \in Nat
      <4> DEFINE n == Slots(mods.size_increase + SizeLimit(committed))
      <4>1. n \in Nat
        <5>1. SizeLimit(committed) \in Nat /\ mods.size_increase \in Nat
          BY <1>0, HashesNat DEF TypeOK
        <5> QED BY <5>1 DEF Slots
      <4> HIDE DEF n
      <4>2. Max({slots, n}) \in Nat
        BY <1>0, <4>1, MaxPair
      <4> QED BY <1>0, <4>2 DEF GrownSlots, n
    <3> QED BY <1>1, <3>1, <3>2 DEF CommitRound
  <2>3. mods' = NoMods(committed', 0) /\ mods'.used = 0
    BY <1>1 DEF CommitRound, clear_mods, NoMods
  <2> QED BY <1>1, <2>1, <2>2, <2>3 DEF CommitRound, NextBlock, Fresh
<1>2. ASSUME RewindRound PROVE Fresh'
  <2>1. mods' = NoMods(committed', 0) /\ mods'.used = 0
    BY <1>2 DEF RewindRound, clear_mods, NoMods
  <2> QED BY <1>0, <1>2, <2>1 DEF RewindRound, NextBlock, Fresh
<1>3. ASSUME UnloggedRound PROVE Fresh'
  <2>1. base = NewBase /\ mods = NoMods(committed, mods.used)
    BY <1>3, LeavesNoTraceHolds DEF LeavesNoTrace, UnloggedRound
  <2> QED BY <1>0, <1>3, <2>1 DEF UnloggedRound, NextBlock, Fresh, shared
<1> QED BY <1>1, <1>2, <1>3

\* Every step keeps the invariant.
LEMMA StepInv == Inv /\ [Next]_vars => Inv'
<1> SUFFICES ASSUME Inv, [Next]_vars PROVE Inv'
  OBVIOUS
<1>0. delta \in [Ops -> Delta]
  BY DEF Inv, TypeOK, Delta
<1>1. ASSUME NEW o \in Ops, NEW d \in Deltas, AddDeleteLast(o, d) PROVE Inv'
  BY <1>1, AddDeleteLastStep
<1>2. ASSUME NEW o \in Ops, NEW d \in Deltas, AddDelta(o, d) PROVE Inv'
  BY <1>2, AddSetStep, AddRefusedStep
<1>3. ASSUME NEW o \in Ops, ApplySetAdd(o) PROVE Inv'
  <2>1. delta[o].delta < 0 \/ delta[o].delta >= 0
    BY <1>3 DEF ApplySetAdd
  <2> QED BY <1>3, <2>1, AddAddStep, AddSubtractStep, SubtractRefusedStep
<1>4. ASSUME NEW o \in Ops, ApplyAssetAdd(o) PROVE Inv'
  <2>1. delta[o].asset_delta \in Int
    BY <1>0, <1>4, DeltaShape, IntBounds DEF ApplyAssetAdd, IsAsset
  <2>2. \/ delta[o].asset_delta < 0 /\ try_add_uint64(delta[o].asset_delta, mods.available_asset)
        \/ /\ delta[o].asset_delta >= 0
           /\ try_add_uint64(delta[o].asset_delta, mods.available_asset_upperbound)
        \/ IF delta[o].asset_delta < 0
           THEN ~try_add_uint64(delta[o].asset_delta, mods.available_asset)
           ELSE ~try_add_uint64(delta[o].asset_delta, mods.available_asset_upperbound)
    BY <2>1
  <2> QED BY <1>4, <2>2, AssetTakeStep, AssetGiveStep, AssetRefusedStep
<1>5. ASSUME NEW o \in Ops, ApplyIncreaseLimit(o) PROVE Inv'
  BY <1>5, IncreaseStep
<1>6. ASSUME NEW o \in Ops, CountElement(o) PROVE Inv'
  BY <1>6, CountKnownStep, CountFullStep, CountStep
<1>7. ASSUME NEW o \in Ops, InsertHash(o) PROVE Inv'
  <2>1. \/ delta[o].hash \notin mods.new_hashes /\ mods.used < slots
        \/ delta[o].hash \in mods.new_hashes \/ mods.used = slots
    BY <1>7 DEF InsertHash
  <2> QED BY <1>7, <2>1, InsertStep, InsertRefusedStep
<1>8. ASSUME NEW o \in Ops, UncountElement(o) \/ Unbase(o) PROVE Inv'
  BY <1>8, UncountStep, UnbaseStep
<1>9. ASSUME NEW o \in Ops, CommitDelta(o) PROVE Inv'
  <2>1. IsAsset(delta[o]) => delta[o].asset_delta < 0 \/ delta[o].asset_delta >= 0
    BY <1>0, DeltaShape, IntBounds
  <2> QED BY <1>9, <2>1, CommitDeleteStep, CommitClearStep, CommitOtherStep,
             CommitTakeStep, CommitGiveStep
<1>10. ASSUME NEW o \in Ops, RaiseThreshold(o) \/ FinalizeBase(o) \/ EraseHash(o) PROVE Inv'
  BY <1>10, RaiseStep, FinalizeStep, EraseStep
<1>11. ASSUME NEW o \in Ops, RevertDelta(o) PROVE Inv'
  <2>1. delta[o] # NoDelta
    BY <1>11 DEF RevertDelta, Inv, LabelInv
  <2>2. \/ delta[o].type \in {"DELETE_LAST", "HASH_SET_INCREASE_LIMIT"}
        \/ IsInsert(delta[o]) \/ IsClear(delta[o]) \/ delta[o].type = "RAW_MEMORY_WRITE"
        \/ IsInt(delta[o]) /\ (delta[o].delta < 0 \/ delta[o].delta >= 0)
        \/ IsAsset(delta[o]) /\ (delta[o].asset_delta < 0 \/ delta[o].asset_delta >= 0)
    BY <1>0, <2>1, DeltaShape, IntBounds DEF IsInt, IsAsset, IsInsert, IsClear
  <2> QED BY <1>11, <2>2, RevertDeleteStep, RevertIncreaseStep, RevertInsertStep,
             RevertOtherStep,
             RevertSubtractStep, RevertAddStep, RevertTakeStep, RevertGiveStep
<1>12. CASE UNCHANGED vars
  <2> USE <1>12 DEF vars, Inv
  <2>1. TypeOK' /\ LabelInv' /\ CoverInv'
    BY DEF TypeOK, LabelInv, CoverInv
  <2>2. BaseInv'
    BY DEF BaseInv, Based
  <2>3. CountersInv' /\ RoomInv'
    BY DEF CountersInv, RoomInv
  <2>4. HashInv' /\ ClearInv' /\ DeleteInv'
    BY DEF HashInv, ClearInv, DeleteInv
  <2> QED BY <2>1, <2>2, <2>3, <2>4
<1> QED BY <1>1, <1>2, <1>3, <1>4, <1>5, <1>6, <1>7, <1>8, <1>9, <1>10, <1>11, <1>12,
           RoundStep DEF Next, AddStep
-----------------------------------------------------------------------------
(* Every set of deltas that may still commit is legal.                     *)

\* The amounts of a set of deltas, as a function on all deltas.
AmountIn(C) == [o \in Ops |-> IF o \in C THEN Amount(delta[o]) ELSE 0]

\* The total of a set of deltas as a sum over all of them.
LEMMA TotalIs ==
  ASSUME NEW C \in SUBSET Ops, \A o \in C : Amount(delta[o]) \in Int
  PROVE  /\ Total(delta, C) = SumFunctionOnSet(AmountIn(C), Ops)
         /\ Total(delta, C) \in Int
         /\ \A o \in Ops : AmountIn(C)[o] \in Int
<1> DEFINE f == [o \in C |-> Amount(delta[o])]
<1>1. \A o \in Ops : AmountIn(C)[o] \in Int
  BY DEF AmountIn
<1>2. IsFiniteSet(C) /\ IsFiniteSet(Ops)
  BY ObjectAssumption, FS_Subset
<1>3. \A o \in Ops \ C : AmountIn(C)[o] = 0
  BY DEF AmountIn
<1>4. SumFunctionOnSet(AmountIn(C), Ops) = SumFunctionOnSet(AmountIn(C), C)
  BY <1>1, <1>2, <1>3, SumSupport
<1>5. \A o \in C : f[o] \in Int /\ f[o] = AmountIn(C)[o]
  BY DEF AmountIn
<1>6. SumFunctionOnSet(f, C) = SumFunctionOnSet(AmountIn(C), C)
  <2> HIDE DEF f
  <2> QED BY <1>2, <1>5, SumEq
<1>7. Total(delta, C) = SumFunctionOnSet(f, C)
  BY DEF Total
<1>8. SumFunctionOnSet(AmountIn(C), Ops) \in Int
  BY <1>1, <1>2, SumInt
<1> QED BY <1>1, <1>4, <1>6, <1>7, <1>8

\* The index of an element.
LEMMA EntryIndex == ASSUME NEW h \in Entries PROVE h.index \in Nat
<1>1. PICK d \in Deltas : d.type = "HASH_SET_INSERT" /\ h = d.hash
  BY DEF Entries
<1>2. d \in StorageDeltas
  BY ObjectAssumption
<1> QED BY <1>1, <1>2 DEF StorageDeltas

\* The amount of an integer or an asset delta.
LEMMA AmountType ==
  ASSUME NEW d \in Delta, IsInt(d) \/ IsAsset(d)
  PROVE  /\ Amount(d) \in Int
         /\ IsInt(d) => Amount(d) = d.delta
         /\ IsAsset(d) => Amount(d) = d.asset_delta
BY DeltaShape, IntBounds DEF Amount, IsInt, IsAsset

\* A set of deltas that can still come to be the ones that commit.
MayCommit(C) ==
    /\ C \in SUBSET Ops
    /\ \A o \in C : pc[o] \in Applied
    /\ \A o \in Ops : pc[o] \in Past /\ IsAsset(delta[o]) => o \in C

\* All of them give the object a legal value.
AllLegal == \A C \in SUBSET Ops : MayCommit(C) => Legal(committed, delta, C)

\* The counters guard every set of deltas that may come to commit.
LEMMA MayCommitLegal == Inv => AllLegal
<1> SUFFICES ASSUME Inv, NEW C \in SUBSET Ops, MayCommit(C) PROVE Legal(committed, delta, C)
  BY DEF AllLegal
<1> DEFINE ints == OfType(delta, C, "NONNEGATIVE_INT64_SET_ADD")
           assets == OfType(delta, C, "ASSET_OBJECT_ADD")
           inserts == OfType(delta, C, "HASH_SET_INSERT")
<1>0. /\ TypeOK /\ pc \in [Ops -> Labels] /\ delta \in [Ops -> Delta] /\ CountersInv
      /\ IsFiniteSet(Ops)
  BY ObjectAssumption DEF Inv, TypeOK, Delta
<1>1. Touching(delta, C) \subseteq Based
  BY DEF Touching, Based, InBase, MayCommit, Applied
<1>2. \A o, p \in Touching(delta, C) : DeltaClass(delta[o]) = DeltaClass(delta[p])
  BY <1>1 DEF Inv, BaseInv
<1>3. \A o \in Touching(delta, C) : TypeAllowed(committed, DeltaClass(delta[o]))
  BY <1>1 DEF Inv, BaseInv
<1>4. ASSUME NEW o \in ints, delta[o].set_value >= 0
      PROVE  delta[o].set_value + Total(delta, ints) >= 0
  <2>1. ints \in SUBSET Ops /\ \A p \in ints : IsInt(delta[p]) /\ p \in C
    BY DEF OfType, IsInt
  <2>2. \A p \in ints : Amount(delta[p]) \in Int /\ Amount(delta[p]) = delta[p].delta
    BY <1>0, <2>1, AmountType
  <2> HIDE DEF ints
  <2>3. /\ Total(delta, ints) = SumFunctionOnSet(AmountIn(ints), Ops)
        /\ Total(delta, ints) \in Int
        /\ \A p \in Ops : AmountIn(ints)[p] \in Int
    BY <2>1, <2>2, TotalIs
  <2>4. \A p \in Ops : Subtracted(pc, delta)[p] \in Int
                       /\ Subtracted(pc, delta)[p] <= AmountIn(ints)[p]
    <3> TAKE p \in Ops
    <3>1. SubtractedBy(pc[p], delta[p]) \in Int /\ SubtractedBy(pc[p], delta[p]) <= 0
      BY <1>0, ByTypes
    <3>2. CASE p \in ints
      BY <2>1, <2>2, <3>1, <3>2 DEF Subtracted, SubtractedBy, AmountIn, MayCommit
    <3>3. CASE p \notin ints
      BY <3>1, <3>3 DEF Subtracted, AmountIn
    <3> QED BY <3>2, <3>3
  <2>5. mods.total_subtracted <= Total(delta, ints)
    <3>1. SumFunctionOnSet(Subtracted(pc, delta), Ops) <= SumFunctionOnSet(AmountIn(ints), Ops)
      BY <1>0, <2>3, <2>4, SumLe
    <3> QED BY <1>0, <2>3, <3>1 DEF CountersInv
  <2>6. mods.total_subtracted \in Int /\ delta[o].set_value \in Int
    BY <1>0, <2>1, DeltaShape, IntBounds DEF TypeOK
  <2>7. delta[o].set_value + mods.total_subtracted >= 0
    <3>1. CASE mods.total_subtracted = 0
      BY <1>4, <2>6, <3>1
    <3>2. CASE mods.total_subtracted # 0
      <4>1. PICK p \in Based : /\ IsInt(delta[p])
                               /\ delta[p].set_value + mods.total_subtracted >= 0
        BY <3>2, Covered
      <4>2. o \in Based
        BY <1>1, <2>1 DEF Touching, IsInt
      <4>3. DeltaClass(delta[p]) = DeltaClass(delta[o])
        BY <4>2 DEF Inv, BaseInv
      <4>4. delta[p].set_value = delta[o].set_value
        BY <2>1, <4>1, <4>3 DEF DeltaClass, IsInt
      <4> QED BY <4>1, <4>4
    <3> QED BY <3>1, <3>2
  <2> QED BY <2>3, <2>5, <2>6, <2>7
<1>5. Supply(committed) + Total(delta, assets) \in 0 .. MaxUint
  <2>1. assets \in SUBSET Ops /\ \A p \in Ops : p \in assets <=> p \in C /\ IsAsset(delta[p])
    BY DEF OfType, IsAsset
  <2>2. \A p \in assets : Amount(delta[p]) \in Int /\ Amount(delta[p]) = delta[p].asset_delta
    BY <1>0, <2>1, AmountType
  <2> HIDE DEF assets
  <2>3. /\ Total(delta, assets) = SumFunctionOnSet(AmountIn(assets), Ops)
        /\ Total(delta, assets) \in Int
        /\ \A p \in Ops : AmountIn(assets)[p] \in Int
    BY <2>1, <2>2, TotalIs
  <2>4. \A p \in Ops : /\ Lower(pc, delta)[p] \in Int /\ Upper(pc, delta)[p] \in Int
                       /\ Lower(pc, delta)[p] <= AmountIn(assets)[p]
                       /\ AmountIn(assets)[p] <= Upper(pc, delta)[p]
    <3> TAKE p \in Ops
    <3>1. LowerBy(pc[p], delta[p]) \in Int /\ UpperBy(pc[p], delta[p]) \in Int
      BY <1>0, ByTypes
    <3>2. IsAsset(delta[p]) => delta[p].asset_delta \in Int
      BY <1>0, DeltaShape, IntBounds
    <3>3. CASE p \in assets
      BY <2>1, <2>2, <3>1, <3>2, <3>3 DEF Lower, Upper, LowerBy, UpperBy, AmountIn, MayCommit,
         Applied, Past
    <3>4. CASE p \notin assets
      BY <2>1, <3>1, <3>2, <3>4 DEF Lower, Upper, LowerBy, UpperBy, AmountIn, MayCommit,
         Applied, Past
    <3> QED BY <3>3, <3>4
  <2>5. /\ SumFunctionOnSet(Lower(pc, delta), Ops) <= Total(delta, assets)
        /\ Total(delta, assets) <= SumFunctionOnSet(Upper(pc, delta), Ops)
    BY <1>0, <2>3, <2>4, SumLe
  <2>6. /\ SumFunctionOnSet(Lower(pc, delta), Ops) \in Int
        /\ SumFunctionOnSet(Upper(pc, delta), Ops) \in Int
    BY <1>0, SumTypes
  <2>7. Supply(committed) \in Int
    BY <1>0, SupplyNat, IntBounds
  <2>8. mods.available_asset \in 0 .. MaxUint /\ mods.available_asset_upperbound \in 0 .. MaxUint
    BY <1>0 DEF TypeOK
  <2> QED BY <1>0, <2>3, <2>5, <2>6, <2>7, <2>8, IntBounds DEF CountersInv
<1>6. \A o \in inserts : IsInsert(delta[o]) /\ Inserts(pc[o], delta[o]) /\ o \in Ops
                         /\ NewElement(pc[o], delta[o]) /\ RoomBy(pc[o], delta[o]) = 1
  BY DEF OfType, MayCommit, Applied, Inserts, NewElement, RoomBy, IsInsert, IsClear, Inv,
     LabelInv
<1>7. \A o, p \in inserts : o # p => delta[o].hash # delta[p].hash
  BY <1>6 DEF Inv, HashInv
<1>8. \A o \in inserts : delta[o].hash \notin Hashes(committed)
  BY <1>6 DEF Inv, HashInv
<1>9. ASSUME inserts # {}
      PROVE  Cardinality(Hashes(committed)) + Cardinality(inserts) <= SizeLimit(committed)
  <2> DEFINE one == [o \in Ops |-> IF o \in inserts THEN 1 ELSE 0]
  <2>1. inserts \in SUBSET Ops /\ IsFiniteSet(inserts)
    BY <1>0, FS_Subset DEF OfType
  <2>2. SumFunctionOnSet(one, inserts) = Cardinality(inserts)
    BY <2>1, SumOnes
  <2>3. SumFunctionOnSet(one, Ops) = SumFunctionOnSet(one, inserts)
    BY <1>0, <2>1, SumSupport
  <2>4. \A o \in Ops : one[o] \in Int /\ Room(pc, delta)[o] \in Int /\ one[o] <= Room(pc, delta)[o]
    <3>1. \A o \in Ops : RoomBy(pc[o], delta[o]) \in {0, 1}
      BY <1>0, ByTypes
    <3> QED BY <1>6, <3>1 DEF Room
  <2>5. SumFunctionOnSet(one, Ops) <= SumFunctionOnSet(Room(pc, delta), Ops)
    <3> HIDE DEF one
    <3> QED BY <1>0, <2>4, SumLe
  <2>6. Cardinality(Hashes(committed)) + SumFunctionOnSet(Room(pc, delta), Ops)
          <= SizeLimit(committed)
    BY <1>6, <1>9 DEF Inv, RoomInv
  <2>7. SumFunctionOnSet(Room(pc, delta), Ops) \in Nat
    BY <1>0, SumTypes
  <2>8. Cardinality(Hashes(committed)) \in Nat /\ SizeLimit(committed) \in Nat
    BY <1>0, HashesNat DEF TypeOK
  <2>9. Cardinality(inserts) \in Nat
    BY <2>1, FS_CardinalityType
  <2> HIDE DEF one, inserts
  <2> QED BY <2>2, <2>3, <2>5, <2>6, <2>7, <2>8, <2>9
<1> QED BY <1>2, <1>3, <1>4, <1>5, <1>7, <1>8, <1>9 DEF Legal

\* The same in the next state.
LEMMA MayCommitLegalNext == Inv' => AllLegal'
BY MayCommitLegal, PTL

\* The invariant implies the property of reservations,
LEMMA AnyOutcomeLegalHolds == Inv => AnyOutcomeLegal
<1> SUFFICES ASSUME Inv, NEW S \in SUBSET Standing PROVE Legal(committed, delta, Decided \cup S)
  BY DEF AnyOutcomeLegal
<1>1. MayCommit(Decided \cup S)
  BY DEF MayCommit, Decided, Standing, Applied, Past
<1>2. Decided \cup S \in SUBSET Ops
  BY DEF Decided, Standing
<1> QED BY <1>1, <1>2, MayCommitLegal DEF AllLegal

\* that of erasures,
LEMMA EraseFindsElementHolds == Inv => EraseFindsElement
BY DEF Inv, HashInv, EraseFindsElement, Inserted, Inserts, IsInsert

-----------------------------------------------------------------------------
(* commit_round computes the outcome of the deltas that committed.         *)

\* and that of the merge: type by type, the counters hold what the deltas
\* that committed add up to.
LEMMA MergeIsOutcomeHolds == Inv => MergeIsOutcome
<1> SUFFICES ASSUME Inv, Quiescent, Committed # {}
             PROVE  Merged = Outcome(committed, delta, Committed)
  BY DEF MergeIsOutcome
<1> DEFINE C == Committed
           c == CHOOSE o \in C : TRUE
           dc == DeltaClass(delta[c])
<1>0. /\ TypeOK /\ pc \in [Ops -> Labels] /\ delta \in [Ops -> Delta] /\ CountersInv
      /\ IsFiniteSet(Ops) /\ mods \in ModFields
  BY ModsTyped, ObjectAssumption DEF Inv
<1>1. C \in SUBSET Ops /\ \A o \in Ops : pc[o] \in Applied <=> o \in C
  BY DEF Committed, Quiescent, Applied
<1>1a. \A o \in Ops : (pc[o] \in Past <=> o \in C) /\ (o \in C => pc[o] = "committed" /\ delta[o] # NoDelta)
                      /\ (o \notin C => pc[o] \in {"idle", "void"})
  BY DEF Committed, Quiescent, Past, Inv, LabelInv
<1>2. c \in C
  OBVIOUS
<1>3. mods.delete_last_committed <=> Touching(delta, C) # C
  BY <1>1, <1>1a DEF Inv, DeleteInv, Touching
<1>4. CASE mods.delete_last_committed
  <2>1. Merged = NoObject
    BY <1>4, MergedIs
  <2>2. Outcome(committed, delta, C) = NoObject
    BY <1>3, <1>4 DEF Outcome
  <2> QED BY <2>1, <2>2
<1>5. CASE ~mods.delete_last_committed
  <2>1. Touching(delta, C) = C
    BY <1>3, <1>5
  <2>2. C \subseteq Based
    BY <1>1, <1>1a, <2>1 DEF Based, InBase, Touching
  <2>3. \A o \in C : DeltaClass(delta[o]) = base.agreed
    BY <2>2 DEF Inv, BaseInv
  <2>4. dc = base.agreed /\ dc \in DeltaClasses /\ dc # NoObject
    <3>1. dc = base.agreed
      BY <1>2, <2>3
    <3>2. DeltaClass(delta[c]) \in DeltaClasses /\ DeltaClass(delta[c]) # NoObject
      BY <1>0, <1>1, <1>2, DeltaClassType
    <3> QED BY <3>1, <3>2
  <2> HIDE DEF C, c
  <2>5. Target = object_from_delta_class(dc, committed)
    BY <2>4 DEF Target
  <2>6. TypeAllowed(committed, dc)
    BY <1>2, <2>2, <2>4 DEF Inv, BaseInv
  <2>7. Outcome(committed, delta, C) =
          CASE dc.type = "NONNEGATIVE_INT64" ->
                 [dc EXCEPT !.value = Min({MaxInt, @ + Total(delta, C)})]
            [] dc.type = "RAW_MEMORY" -> dc
            [] dc.type = "KNOWN_SUPPLY_ASSET" ->
                 [dc EXCEPT !.value = Supply(committed) + Total(delta, C)]
            [] dc.type = "HASH_SET" ->
                 [type |-> "HASH_SET",
                  max_size |-> Min({MaxSize, SizeLimit(committed)
                     + Increase(delta, OfType(delta, C, "HASH_SET_INCREASE_LIMIT"))}),
                  hashes |-> {h \in Hashes(committed)
                                     \cup {delta[o].hash : o \in OfType(delta, C, "HASH_SET_INSERT")} :
                                \A o \in OfType(delta, C, "HASH_SET_CLEAR") :
                                   h.index > delta[o].threshold}]
    BY <1>2, <2>1, Zenon DEF Outcome, c
  <2>8. CASE dc.type = "NONNEGATIVE_INT64"
    <3>1. \A o \in C : IsInt(delta[o])
      BY <1>0, <1>1, <2>3, <2>4, <2>8, DeltaClassType
    <3>2. \A o \in C : Amount(delta[o]) \in Int /\ Amount(delta[o]) = delta[o].delta
                       /\ delta[o].delta \in Int
      BY <1>0, <1>1, <3>1, AmountType
    <3>3. /\ Total(delta, C) = SumFunctionOnSet(AmountIn(C), Ops)
          /\ Total(delta, C) \in Int
      BY <1>1, <3>2, TotalIs
    <3>4. \A o \in Ops : /\ Added(pc, delta)[o] \in Int /\ Subtracted(pc, delta)[o] \in Int
                         /\ AmountIn(C)[o] = Added(pc, delta)[o] + Subtracted(pc, delta)[o]
      <4> TAKE o \in Ops
      <4>1. CASE o \in C
        BY <1>1, <3>1, <3>2, <4>1 DEF Added, Subtracted, AddedBy, SubtractedBy, AmountIn
      <4>2. CASE o \notin C
        BY <1>1, <4>2 DEF Added, Subtracted, AddedBy, SubtractedBy, AmountIn
      <4> QED BY <4>1, <4>2
    <3>5. Total(delta, C) = mods.total_added + mods.total_subtracted
      <4>1. SumFunctionOnSet(AmountIn(C), Ops) = SumFunctionOnSet(Added(pc, delta), Ops)
                                               + SumFunctionOnSet(Subtracted(pc, delta), Ops)
        BY <1>0, <3>4, SumPlus
      <4> QED BY <1>0, <3>3, <4>1 DEF CountersInv
    <3>6. PICK v \in MinInt .. MaxInt : dc = [type |-> "NONNEGATIVE_INT64", value |-> v]
      BY <2>4, <2>8 DEF DeltaClasses
    <3>7. Target = dc
      BY <2>5, <2>8 DEF object_from_delta_class
    <3>8. v \in Int /\ mods.total_added \in Int /\ mods.total_subtracted \in Int /\ MaxInt \in Int
      BY <1>0, IntBounds DEF ModFields
    <3> DEFINE w == v + Total(delta, C)
    <3>9. w \in Int /\ w = v + mods.total_subtracted + mods.total_added
      BY <3>5, <3>8
    <3>10. Merged = [type |-> "NONNEGATIVE_INT64", value |-> IF w <= MaxInt THEN w ELSE MaxInt]
      BY <1>5, <3>6, <3>7, <3>9, MergedIs
    <3>11. Outcome(committed, delta, C) = [dc EXCEPT !.value = Min({MaxInt, dc.value + Total(delta, C)})]
      BY <2>7, <2>8
    <3>12. dc.value + Total(delta, C) = w
      BY <3>6
    <3> HIDE DEF w, dc
    <3>13. Min({MaxInt, w}) = IF w <= MaxInt THEN w ELSE MaxInt
      BY <3>8, <3>9, MinPair
    <3>14. Outcome(committed, delta, C) = [type |-> "NONNEGATIVE_INT64", value |-> Min({MaxInt, w})]
      BY <3>6, <3>11, <3>12
    <3> QED BY <3>10, <3>13, <3>14 DEF C
  <2>9. CASE dc.type = "RAW_MEMORY"
    <3>1. Target = dc
      BY <2>5, <2>9 DEF object_from_delta_class
    <3>2. \E v \in Nat : Target = [type |-> "RAW_MEMORY", value |-> v]
      BY <2>4, <2>9, <3>1 DEF DeltaClasses
    <3>3. Merged = dc
      BY <1>5, <3>1, <3>2, MergedIs
    <3>4. Outcome(committed, delta, C) = dc
      BY <2>7, <2>9
    <3> QED BY <3>3, <3>4 DEF C
  <2>10. CASE dc.type = "KNOWN_SUPPLY_ASSET"
    <3>1. \A o \in C : IsAsset(delta[o])
      BY <1>0, <1>1, <2>3, <2>4, <2>10, DeltaClassType
    <3>2. \A o \in C : Amount(delta[o]) \in Int /\ Amount(delta[o]) = delta[o].asset_delta
      BY <1>0, <1>1, <3>1, AmountType
    <3>3. Total(delta, C) = SumFunctionOnSet(AmountIn(C), Ops)
      BY <1>1, <3>2, TotalIs
    <3>4. \A o \in Ops : Lower(pc, delta)[o] \in Int /\ Lower(pc, delta)[o] = AmountIn(C)[o]
      <4> TAKE o \in Ops
      <4>1. CASE o \in C
        BY <1>1, <1>1a, <3>1, <3>2, <4>1 DEF Lower, LowerBy, AmountIn
      <4>2. CASE o \notin C
        BY <1>1, <1>1a, <4>2 DEF Lower, LowerBy, AmountIn
      <4> QED BY <4>1, <4>2
    <3>5. SumFunctionOnSet(Lower(pc, delta), Ops) = SumFunctionOnSet(AmountIn(C), Ops)
      BY <1>0, <3>4, SumEq
    <3>6. Supply(committed) + Total(delta, C) = mods.available_asset
      BY <1>0, <3>3, <3>5 DEF CountersInv
    <3>7. dc = [type |-> "KNOWN_SUPPLY_ASSET", value |-> 0]
      BY <2>4, <2>10 DEF DeltaClasses
    <3>8. Target # NoObject /\ Target.type = "KNOWN_SUPPLY_ASSET"
      BY <2>5, <2>6, <3>7 DEF object_from_delta_class, TypeAllowed, NoObject
    <3>9. \E v \in 0 .. MaxUint : Target = [type |-> "KNOWN_SUPPLY_ASSET", value |-> v]
      BY <3>8, TargetShape
    <3>10. Merged = [type |-> "KNOWN_SUPPLY_ASSET", value |-> mods.available_asset]
      BY <1>5, <3>9, MergedIs
    <3>11. Outcome(committed, delta, C) = [dc EXCEPT !.value = Supply(committed) + Total(delta, C)]
      BY <2>7, <2>10
    <3> HIDE DEF dc
    <3>12. Outcome(committed, delta, C)
             = [type |-> "KNOWN_SUPPLY_ASSET", value |-> Supply(committed) + Total(delta, C)]
      BY <3>7, <3>11
    <3> QED BY <3>6, <3>10, <3>12 DEF C
  <2>11. CASE dc.type = "HASH_SET"
    <3> DEFINE incs == OfType(delta, C, "HASH_SET_INCREASE_LIMIT")
               ins == OfType(delta, C, "HASH_SET_INSERT")
               clears == OfType(delta, C, "HASH_SET_CLEAR")
               g == [o \in incs |-> delta[o].limit_increase]
    <3>1. Increase(delta, incs) = mods.size_increase
      <4>1. incs \in SUBSET Ops /\ \A o \in Ops : o \in incs <=>
              o \in C /\ delta[o].type = "HASH_SET_INCREASE_LIMIT"
        BY <1>1 DEF OfType
      <4>2. \A o \in incs : delta[o].limit_increase \in Nat
        BY <1>0, <4>1, DeltaShape
      <4>3. IsFiniteSet(incs)
        BY <1>0, <4>1, FS_Subset
      <4> HIDE DEF incs
      <4>4. \A o \in incs : g[o] \in Int /\ g[o] = Increased(pc, delta)[o]
        BY <1>1, <4>1, <4>2 DEF Increased, IncreasedBy
      <4>5. \A o \in Ops \ incs : Increased(pc, delta)[o] = 0
        BY <1>1, <4>1 DEF Increased, IncreasedBy
      <4>6. \A o \in Ops : Increased(pc, delta)[o] \in Int
        BY <1>0, ByTypes DEF Increased
      <4>7. SumFunctionOnSet(Increased(pc, delta), Ops) = SumFunctionOnSet(Increased(pc, delta), incs)
        BY <1>0, <4>1, <4>5, <4>6, SumSupport
      <4>8. Increase(delta, incs) = SumFunctionOnSet(g, incs)
        BY DEF Increase
      <4>9. SumFunctionOnSet(g, incs) = SumFunctionOnSet(Increased(pc, delta), incs)
        <5> HIDE DEF g
        <5> QED BY <4>3, <4>4, SumEq
      <4> QED BY <1>0, <4>7, <4>8, <4>9 DEF CountersInv
    <3>2. {delta[o].hash : o \in ins} = mods.new_hashes
      <4>1. ins = {o \in Ops : Inserts(pc[o], delta[o])}
        BY <1>1, <1>1a DEF OfType, Inserts, IsInsert
      <4> QED BY <4>1 DEF Inv, HashInv
    <3>3. \A o \in Ops : o \in clears <=> IsClear(delta[o]) /\ pc[o] \in Past
      BY <1>1, <1>1a DEF OfType, IsClear
    <3>4. \A o \in Ops : o \in clears <=> IsClear(delta[o]) /\ pc[o] \in {"final", "committed"}
      BY <1>1, <1>1a DEF OfType, IsClear
    <3>5. clears \subseteq Ops /\ \A o \in clears : delta[o].threshold \in Nat
      BY <1>0, <1>1, DeltaShape DEF OfType, IsClear
    <3> HIDE DEF incs, ins, clears
    <3>6. \A h \in Entries :
            (~mods.hashset_clear_committed \/ h.index > mods.max_committed_clear_threshold)
              <=> \A o \in clears : h.index > delta[o].threshold
      <4> TAKE h \in Entries
      <4>1. h.index \in Nat
        BY EntryIndex
      <4> DEFINE t == mods.max_committed_clear_threshold
      <4>2. t \in Nat
        BY <1>0 DEF ModFields
      <4>3. mods.hashset_clear_committed <=> clears # {}
        BY <3>3, <3>5 DEF Inv, ClearInv
      <4>4. \A o \in clears : delta[o].threshold <= t
        BY <3>4, <3>5 DEF Inv, ClearInv
      <4>5. t # 0 => \E o \in clears : delta[o].threshold = t
        BY <3>4 DEF Inv, ClearInv
      <4> HIDE DEF t
      <4>6. ASSUME h.index > t, NEW o \in clears PROVE h.index > delta[o].threshold
        BY <3>5, <4>1, <4>2, <4>4, <4>6
      <4>7. ASSUME clears # {}, \A o \in clears : h.index > delta[o].threshold
            PROVE  h.index > t
        <5>1. CASE t # 0
          BY <4>5, <4>7, <5>1
        <5>2. CASE t = 0
          BY <3>5, <4>1, <4>7, <5>2
        <5> QED BY <5>1, <5>2
      <4> QED BY <4>3, <4>6, <4>7 DEF t
    <3>7. Hashes(committed) \cup mods.new_hashes \subseteq Entries
      BY <1>0, HashesNat DEF TypeOK, ModFields
    <3>8. {h \in Hashes(committed) \cup mods.new_hashes :
             ~mods.hashset_clear_committed \/ h.index > mods.max_committed_clear_threshold}
            = {h \in Hashes(committed) \cup {delta[o].hash : o \in ins} :
                 \A o \in clears : h.index > delta[o].threshold}
      BY <3>2, <3>6, <3>7
    <3>9. Target # NoObject /\ Target.type = "HASH_SET"
      BY <2>5, <2>6, <2>11 DEF object_from_delta_class, TypeAllowed, NoObject
    <3>10. Target = [type |-> "HASH_SET", hashes |-> Hashes(committed),
                     max_size |-> SizeLimit(committed)]
      BY <3>9, TargetShape
    <3>11. Merged = [type |-> "HASH_SET",
                     max_size |-> Min({MaxSize, SizeLimit(committed) + mods.size_increase}),
                     hashes |-> {h \in Hashes(committed) \cup mods.new_hashes :
                        ~mods.hashset_clear_committed
                          \/ h.index > mods.max_committed_clear_threshold}]
      BY <1>5, <3>10, MergedIs
    <3>12. Outcome(committed, delta, C) =
             [type |-> "HASH_SET",
              max_size |-> Min({MaxSize, SizeLimit(committed) + Increase(delta, incs)}),
              hashes |-> {h \in Hashes(committed) \cup {delta[o].hash : o \in ins} :
                            \A o \in clears : h.index > delta[o].threshold}]
      BY <2>7, <2>11 DEF incs, ins, clears
    <3> QED BY <3>1, <3>8, <3>11, <3>12 DEF C
  <2> QED BY <2>4, <2>8, <2>9, <2>10, <2>11 DEF DeltaClasses
<1> QED BY <1>4, <1>5

-----------------------------------------------------------------------------
(* Which deltas are admitted.                                              *)

\* A step that puts a delta into a DeltaRewind changes no other one.
LEMMA HoldStep ==
  ASSUME TypeOK, Next, NEW o \in Ops, pc[o] \in {"based", "insert"}, pc'[o] = "held"
  PROVE  /\ delta' = delta /\ committed' = committed
         /\ \A p \in Ops \ {o} : pc'[p] = pc[p]
<1>0. pc \in [Ops -> Labels]
  BY DEF TypeOK
<1>1. \A q \in Ops : \A l : Goto(q, l) => /\ q = o
                                          /\ \A p \in Ops \ {o} : pc'[p] = pc[p]
  BY <1>0 DEF Goto
<1>2. \A q \in Ops, d \in Deltas : ~AddDeleteLast(q, d) /\ ~AddDelta(q, d)
  BY <1>1 DEF AddDeleteLast, AddDelta
<1>3. \A q \in Ops : /\ ~UncountElement(q) /\ ~Unbase(q) /\ ~CommitDelta(q)
                     /\ ~RaiseThreshold(q) /\ ~FinalizeBase(q) /\ ~RevertDelta(q) /\ ~EraseHash(q)
  BY <1>1 DEF UncountElement, Unbase, CommitDelta, RaiseThreshold, FinalizeBase, RevertDelta,
              EraseHash
<1>4. ~CommitRound /\ ~RewindRound /\ ~UnloggedRound
  BY DEF CommitRound, RewindRound, UnloggedRound, NextBlock
<1>5. PICK q \in Ops : ApplySetAdd(q) \/ ApplyAssetAdd(q) \/ ApplyIncreaseLimit(q)
                         \/ CountElement(q) \/ InsertHash(q)
  BY <1>2, <1>3, <1>4 DEF Next, AddStep
<1>6. \E l : Goto(q, l)
  BY <1>5 DEF ApplySetAdd, ApplyAssetAdd, ApplyIncreaseLimit, CountElement, InsertHash
<1> QED BY <1>1, <1>5, <1>6 DEF ApplySetAdd, ApplyAssetAdd, ApplyIncreaseLimit, CountElement,
                                InsertHash

\* What is admitted was admissible: after the step, all that may commit is
\* legal.
LEMMA HeldIsAdmitted ==
  ASSUME Inv, Next, NEW o \in Ops, pc[o] \in {"based", "insert"}, pc'[o] = "held"
  PROVE  Admitted(o)
<1>0. /\ delta' = delta /\ committed' = committed
      /\ \A p \in Ops \ {o} : pc'[p] = pc[p]
  BY HoldStep DEF Inv
<1>1. Inv' /\ AllLegal'
  BY StepInv, MayCommitLegalNext
<1>2. \A C \in SUBSET Ops : MayCommit(C)' => Legal(committed, delta, C)
  BY <1>0, <1>1 DEF AllLegal
<1>3. ASSUME NEW S \in SUBSET Standing PROVE Legal(committed, delta, Decided \cup S \cup {o})
  <2>1. PICK C \in SUBSET Ops : C = Decided \cup S \cup {o}
    BY DEF Standing, Decided
  <2>2. \A p \in C : pc'[p] \in Applied
    BY <1>0, <2>1 DEF Standing, Decided, Applied
  <2>3. \A p \in Ops : pc'[p] \in Past /\ IsAsset(delta'[p]) => p \in C
    BY <1>0, <2>1 DEF Decided, Past
  <2>4. MayCommit(C)'
    BY <2>2, <2>3 DEF MayCommit
  <2> QED BY <1>2, <2>1, <2>4
<1>4. ASSUME IsInt(delta[o]), delta[o].delta < 0
      PROVE  /\ delta[o].set_value >= 0
             /\ \A S \in SUBSET (Standing \cup Decided) : Legal(committed, delta, S \cup {o})
  <2>1. delta[o].set_value >= 0
    BY <1>0, <1>1, <1>4 DEF Inv, CoverInv, Applied
  <2>2. ASSUME NEW S \in SUBSET (Standing \cup Decided)
        PROVE  Legal(committed, delta, S \cup {o})
    <3>1. PICK C \in SUBSET Ops : C = S \cup {o}
      BY DEF Standing, Decided
    <3>2. \A p \in C : pc'[p] \in Applied
      BY <1>0, <3>1 DEF Standing, Decided, Applied
    <3>3. \A p \in Ops : ~(pc'[p] \in Past /\ IsAsset(delta'[p]))
      <4> SUFFICES ASSUME NEW p \in Ops, pc'[p] \in Past, IsAsset(delta'[p]) PROVE FALSE
        OBVIOUS
      <4>1. p \in Based' /\ o \in Based'
        BY <1>0, <1>4 DEF Based, InBase, Past, IsAsset, IsInt
      <4>2. DeltaClass(delta'[p]) = DeltaClass(delta'[o])
        BY <1>1, <4>1 DEF Inv, BaseInv
      <4> QED BY <1>0, <1>4, <4>2 DEF DeltaClass, IsAsset, IsInt
    <3>4. MayCommit(C)'
      BY <3>2, <3>3 DEF MayCommit
    <3> QED BY <1>2, <3>1, <3>4
  <2> QED BY <2>1, <2>2
<1> QED BY <1>3, <1>4 DEF Admitted, Admits, IsInt

\* The step that refuses an amount.
LEMMA RefuseStep ==
  ASSUME TypeOK, Next, NEW o \in Ops, pc[o] = "based", pc'[o] = "unbase", HasAmount(o)
  PROVE  \/ /\ IsInt(delta[o]) /\ delta[o].delta < 0
            /\ ~SubtractFits(delta[o].set_value, mods.total_subtracted + delta[o].delta)
         \/ /\ IsAsset(delta[o])
            /\ IF delta[o].asset_delta < 0
               THEN ~try_add_uint64(delta[o].asset_delta, mods.available_asset)
               ELSE ~try_add_uint64(delta[o].asset_delta, mods.available_asset_upperbound)
<1>0. pc \in [Ops -> Labels]
  BY DEF TypeOK
<1>1. \A q \in Ops : \A l : Goto(q, l) => q = o /\ l = "unbase"
  BY <1>0 DEF Goto
<1>2. \A q \in Ops, d \in Deltas : ~AddDeleteLast(q, d) /\ ~AddDelta(q, d)
  BY <1>1 DEF AddDeleteLast, AddDelta
<1>3. \A q \in Ops : /\ ~UncountElement(q) /\ ~Unbase(q) /\ ~CommitDelta(q)
                     /\ ~RaiseThreshold(q) /\ ~FinalizeBase(q) /\ ~RevertDelta(q) /\ ~EraseHash(q)
                     /\ ~InsertHash(q)
  BY <1>1 DEF UncountElement, Unbase, CommitDelta, RaiseThreshold, FinalizeBase, RevertDelta,
              EraseHash, InsertHash
<1>4. ~CommitRound /\ ~RewindRound /\ ~UnloggedRound
  BY DEF CommitRound, RewindRound, UnloggedRound, NextBlock
<1>5. PICK q \in Ops : ApplySetAdd(q) \/ ApplyAssetAdd(q) \/ ApplyIncreaseLimit(q)
                         \/ CountElement(q)
  BY <1>2, <1>3, <1>4 DEF Next, AddStep
<1>6. q = o
  <2>1. \E l : Goto(q, l)
    BY <1>5 DEF ApplySetAdd, ApplyAssetAdd, ApplyIncreaseLimit, CountElement
  <2> QED BY <1>1, <2>1
<1>7. ~ApplyIncreaseLimit(o) /\ ~CountElement(o)
  BY DEF ApplyIncreaseLimit, CountElement, HasAmount
<1>8. CASE ApplySetAdd(o)
  BY <1>1, <1>8 DEF ApplySetAdd, IsInt
<1>9. CASE ApplyAssetAdd(o)
  BY <1>1, <1>9 DEF ApplyAssetAdd, IsAsset
<1> QED BY <1>5, <1>6, <1>7, <1>8, <1>9

\* A subtraction is refused because with all the others it is too much.
LEMMA RefusedInt ==
  ASSUME Inv, NEW o \in Ops, pc[o] = "based", IsInt(delta[o]), delta[o].delta < 0,
         ~SubtractFits(delta[o].set_value, mods.total_subtracted + delta[o].delta)
  PROVE  ~Admitted(o)
<1> SUFFICES ASSUME Admitted(o) PROVE FALSE
  OBVIOUS
<1> DEFINE S == {p \in Standing \cup Decided : IsInt(delta[p]) /\ delta[p].delta < 0}
           C == S \cup {o}
<1>0. /\ TypeOK /\ pc \in [Ops -> Labels] /\ delta \in [Ops -> Delta] /\ CountersInv
      /\ IsFiniteSet(Ops)
  BY ObjectAssumption DEF Inv, TypeOK, Delta
<1>1. delta[o].set_value >= 0 /\ Legal(committed, delta, C)
  BY DEF Admitted, Admits, IsInt
<1>2. C \in SUBSET Ops /\ \A p \in C : IsInt(delta[p])
  BY DEF Standing, Decided
<1>3. OfType(delta, C, "NONNEGATIVE_INT64_SET_ADD") = C
  BY <1>2 DEF OfType, IsInt
<1>4. \A p \in C : Amount(delta[p]) \in Int /\ Amount(delta[p]) = delta[p].delta
  BY <1>0, <1>2, AmountType
<1>5. delta[o].set_value + Total(delta, C) >= 0
  BY <1>1, <1>3 DEF Legal
<1>6. \A p \in Ops \ {o} : AmountIn(C)[p] = Subtracted(pc, delta)[p]
  BY <1>4 DEF AmountIn, Subtracted, SubtractedBy, Standing, Decided, Applied
<1>7. AmountIn(C)[o] = delta[o].delta /\ Subtracted(pc, delta)[o] = 0
  BY <1>4 DEF AmountIn, Subtracted, SubtractedBy, Applied
<1> HIDE DEF C
<1>8. /\ Total(delta, C) = SumFunctionOnSet(AmountIn(C), Ops)
      /\ Total(delta, C) \in Int
      /\ \A p \in Ops : AmountIn(C)[p] \in Int
  BY <1>2, <1>4, TotalIs
<1>9. \A p \in Ops : Subtracted(pc, delta)[p] \in Int
  BY <1>0, ByTypes DEF Subtracted
<1>10. SumFunctionOnSet(AmountIn(C), Ops)
         = SumFunctionOnSet(Subtracted(pc, delta), Ops) - Subtracted(pc, delta)[o] + AmountIn(C)[o]
  BY <1>0, <1>6, <1>8, <1>9, SumUpdate
<1>11. /\ delta[o].set_value \in MinInt .. MaxInt /\ delta[o].delta \in MinInt .. MaxInt
       /\ mods.total_subtracted \in Int
  BY <1>0, DeltaShape, IntBounds DEF TypeOK
<1>12. mods.total_subtracted = SumFunctionOnSet(Subtracted(pc, delta), Ops)
  BY <1>0 DEF CountersInv
<1>13. Total(delta, C) = mods.total_subtracted + delta[o].delta
  BY <1>7, <1>8, <1>10, <1>11, <1>12
<1> QED BY <1>1, <1>5, <1>11, <1>13, IntBounds DEF SubtractFits

\* An amount of an asset is refused because with all the others of its sign,
\* and all that committed, it passes a bound.
LEMMA RefusedAsset ==
  ASSUME Inv, NEW o \in Ops, pc[o] = "based", IsAsset(delta[o]),
         IF delta[o].asset_delta < 0
         THEN ~try_add_uint64(delta[o].asset_delta, mods.available_asset)
         ELSE ~try_add_uint64(delta[o].asset_delta, mods.available_asset_upperbound)
  PROVE  ~Admitted(o)
<1> SUFFICES ASSUME Admitted(o) PROVE FALSE
  OBVIOUS
<1>0. /\ TypeOK /\ pc \in [Ops -> Labels] /\ delta \in [Ops -> Delta] /\ CountersInv
      /\ IsFiniteSet(Ops)
  BY ObjectAssumption DEF Inv, TypeOK, Delta
<1>1. /\ \A p \in Ops : IsAsset(delta[p]) => delta[p].asset_delta \in Int
      /\ delta[o].asset_delta \in Int /\ Supply(committed) \in Int
      /\ mods.available_asset \in Int /\ mods.available_asset_upperbound \in Int
  BY <1>0, DeltaShape, IntBounds, SupplyNat DEF TypeOK
\* The total that is illegal, if the deltas of S are the ones that commit.
<1>2. ASSUME NEW S \in SUBSET {p \in Standing : IsAsset(delta[p])},
             NEW w, \A p \in Ops : w[p] \in Int,
             w[o] = 0,
             \A p \in Ops \ {o} : w[p] = IF p \in S \/ (p \in Decided /\ IsAsset(delta[p]))
                                          THEN delta[p].asset_delta ELSE 0
      PROVE  Supply(committed) + SumFunctionOnSet(w, Ops) + delta[o].asset_delta \in 0 .. MaxUint
  <2> DEFINE assets == OfType(delta, Decided \cup S \cup {o}, "ASSET_OBJECT_ADD")
  <2>1. Supply(committed) + Total(delta, assets) \in 0 .. MaxUint
    BY DEF Admitted, Admits, Legal
  <2>2. /\ assets \in SUBSET Ops /\ \A p \in assets : IsAsset(delta[p])
        /\ o \in assets
        /\ \A p \in Ops \ {o} : p \in assets <=> p \in S \/ (p \in Decided /\ IsAsset(delta[p]))
    BY DEF OfType, IsAsset, Decided, Standing
  <2> HIDE DEF assets
  <2>3. \A p \in assets : Amount(delta[p]) \in Int /\ Amount(delta[p]) = delta[p].asset_delta
    BY <1>0, <2>2, AmountType
  <2>4. /\ Total(delta, assets) = SumFunctionOnSet(AmountIn(assets), Ops)
        /\ \A p \in Ops : AmountIn(assets)[p] \in Int
    BY <2>2, <2>3, TotalIs
  <2>5. \A p \in Ops \ {o} : AmountIn(assets)[p] = w[p]
    BY <1>2, <2>2, <2>3 DEF AmountIn
  <2>6. AmountIn(assets)[o] = delta[o].asset_delta
    BY <2>2, <2>3 DEF AmountIn
  <2>7. SumFunctionOnSet(AmountIn(assets), Ops)
          = SumFunctionOnSet(w, Ops) - w[o] + AmountIn(assets)[o]
    BY <1>0, <1>2, <2>4, <2>5, SumUpdate
  <2>8. SumFunctionOnSet(w, Ops) \in Int
    BY <1>0, <1>2, SumInt
  <2> QED BY <1>1, <1>2, <2>1, <2>4, <2>6, <2>7, <2>8
<1>3. /\ \A p \in Ops : Lower(pc, delta)[p] \in Int /\ Upper(pc, delta)[p] \in Int
      /\ Lower(pc, delta)[o] = 0 /\ Upper(pc, delta)[o] = 0
  BY <1>0, ByTypes DEF Lower, Upper, LowerBy, UpperBy, Past
<1>4. CASE delta[o].asset_delta < 0
  <2> DEFINE S == {p \in Standing : IsAsset(delta[p]) /\ delta[p].asset_delta < 0}
  <2>1. \A p \in Ops \ {o} : Lower(pc, delta)[p] =
          IF p \in S \/ (p \in Decided /\ IsAsset(delta[p])) THEN delta[p].asset_delta ELSE 0
    BY DEF Lower, LowerBy, Past, Standing, Decided
  <2>2. S \in SUBSET {p \in Standing : IsAsset(delta[p])}
    OBVIOUS
  <2> HIDE DEF S
  <2>3. Supply(committed) + SumFunctionOnSet(Lower(pc, delta), Ops) + delta[o].asset_delta
          \in 0 .. MaxUint
    BY <1>2, <1>3, <2>1, <2>2
  <2>4. mods.available_asset + delta[o].asset_delta \in 0 .. MaxUint
    BY <1>0, <2>3 DEF CountersInv
  <2> QED BY <1>4, <2>4 DEF try_add_uint64
<1>5. CASE ~(delta[o].asset_delta < 0)
  <2> DEFINE S == {p \in Standing : IsAsset(delta[p]) /\ delta[p].asset_delta >= 0}
  <2>1. \A p \in Ops \ {o} : Upper(pc, delta)[p] =
          IF p \in S \/ (p \in Decided /\ IsAsset(delta[p])) THEN delta[p].asset_delta ELSE 0
    BY DEF Upper, UpperBy, Past, Standing, Decided
  <2>2. S \in SUBSET {p \in Standing : IsAsset(delta[p])}
    OBVIOUS
  <2> HIDE DEF S
  <2>3. Supply(committed) + SumFunctionOnSet(Upper(pc, delta), Ops) + delta[o].asset_delta
          \in 0 .. MaxUint
    BY <1>2, <1>3, <2>1, <2>2
  <2>4. mods.available_asset_upperbound + delta[o].asset_delta \in 0 .. MaxUint
    BY <1>0, <2>3 DEF CountersInv
  <2> QED BY <1>5, <2>4 DEF try_add_uint64
<1> QED BY <1>4, <1>5

\* The body of AdmissionIsExact.
ExactStep ==
    \A o \in Ops :
      /\ pc[o] \in {"based", "insert"} /\ pc'[o] = "held" => Admitted(o)
      /\ pc[o] = "based" /\ pc'[o] = "unbase" /\ HasAmount(o) => ~Admitted(o)

\* Every step is exact.
LEMMA ExactStepHolds == Inv /\ [Next]_vars => [ExactStep]_vars
<1>1. ASSUME Inv, Next PROVE ExactStep
  <2>1. \A o \in Ops : pc[o] \in {"based", "insert"} /\ pc'[o] = "held" => Admitted(o)
    BY <1>1, HeldIsAdmitted
  <2>2. ASSUME NEW o \in Ops, pc[o] = "based", pc'[o] = "unbase", HasAmount(o)
        PROVE  ~Admitted(o)
    BY <1>1, <2>2, RefuseStep, RefusedInt, RefusedAsset DEF Inv
  <2> QED BY <2>1, <2>2 DEF ExactStep
<1> QED BY <1>1

-----------------------------------------------------------------------------
(* The theorems.                                                           *)

\* The invariant holds throughout.
LEMMA InvHolds == Spec => []Inv
<1>1. Init => Inv
  BY InitInv
<1>2. Inv /\ [Next]_vars => Inv'
  BY StepInv
<1> QED BY <1>1, <1>2, PTL DEF Spec

\* For any deltas, objects and integer width, the fields of a
\* RevertableObject stay in their ranges: no counter wraps, and no element of
\* the block is in the committed set.
THEOREM ObjectTypeCorrect == Spec => []TypeOK
<1>1. Inv => TypeOK
  BY DEF Inv
<1> QED BY <1>1, InvHolds, PTL

\* Whichever of the reservations that try_add_delta has given out are
\* committed, the object gets a legal value.
THEOREM EveryOutcomeIsLegal == Spec => []AnyOutcomeLegal
BY InvHolds, AnyOutcomeLegalHolds, PTL

\* commit_round computes what the committed deltas give, in no order, from
\* counters that also saw the reverted ones.
THEOREM MergeComputesTheOutcome == Spec => []MergeIsOutcome
BY InvHolds, MergeIsOutcomeHolds, PTL

\* A block whose deltas on the object all failed leaves it as it was, but for
\* used slots.
THEOREM FailedDeltasLeaveNoTrace == Spec => []LeavesNoTrace
BY InvHolds, LeavesNoTraceHolds, PTL

\* The destructor of a DeltaRewind finds the element that it erases.
THEOREM EraseAlwaysFinds == Spec => []EraseFindsElement
BY InvHolds, EraseFindsElementHolds, PTL

\* try_add_delta admits a delta only when it is legal with any of those that
\* stand, and refuses an amount only when it is not.
THEOREM AdmissionExact == Spec => AdmissionIsExact
<1>1. Inv /\ [Next]_vars => [ExactStep]_vars
  BY ExactStepHolds
<1>2. Spec => [][ExactStep]_vars
  BY <1>1, InvHolds, PTL DEF Spec
<1> QED BY <1>2 DEF AdmissionIsExact, ExactStep
=============================================================================
