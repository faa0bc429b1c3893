------------------------------ MODULE Outcomes ------------------------------
(***************************************************************************)
(* What the deltas of a block do to one storage object, without the        *)
(* counters by which RevertableObject keeps track of them: which sets of   *)
(* deltas may commit together, what the object becomes, and when one more  *)
(* delta is admitted.                                                      *)
(*                                                                         *)
(* A set of deltas is a set C of names and a function D that gives the     *)
(* StorageDelta of each name.  RevertableObject is checked against these   *)
(* definitions, and Block, where a call on an object is one step, uses     *)
(* them in its place.                                                      *)
(***************************************************************************)
EXTENDS Integers, FiniteSets, FiniteSetsExt

CONSTANTS MaxInt,     \* INT64_MAX
          StartSize,  \* START_HASH_SET_SIZE
          MaxSize     \* MAX_HASH_SET_SIZE

MinInt == -MaxInt - 1
MaxUint == 2 * MaxInt + 1

NoObject == [type |-> "nullopt"]

\* A StorageDeltaClass: only int and raw memory objects carry a value.
DeltaClass(d) ==
    CASE d.type = "NONNEGATIVE_INT64_SET_ADD" ->
            [type |-> "NONNEGATIVE_INT64", value |-> d.set_value]
      [] d.type = "RAW_MEMORY_WRITE" -> [type |-> "RAW_MEMORY", value |-> d.data]
      [] d.type = "ASSET_OBJECT_ADD" -> [type |-> "KNOWN_SUPPLY_ASSET", value |-> 0]
      [] OTHER -> [type |-> "HASH_SET", value |-> 0]

\* required_type is the type of the committed object.
TypeAllowed(object, dc) == object = NoObject \/ object.type = dc.type

Hashes(object) == IF object.type = "HASH_SET" THEN object.hashes ELSE {}
SizeLimit(object) == IF object.type = "HASH_SET" THEN object.max_size ELSE StartSize
Supply(object) == IF object.type = "KNOWN_SUPPLY_ASSET" THEN object.value ELSE 0

\* AtomicSet allocates 1.2 slots for each element.
Slots(size) == (6 * size) \div 5

SlotsFor(object) ==
    IF object = NoObject THEN Slots(StartSize)
    ELSE IF object.type = "HASH_SET" THEN Slots(object.max_size)
    ELSE 0

-----------------------------------------------------------------------------
OfType(D, C, type) == {o \in C : D[o].type = type}
Touching(D, C) == {o \in C : D[o].type # "DELETE_LAST"}

Amount(d) == IF d.type = "ASSET_OBJECT_ADD" THEN d.asset_delta ELSE d.delta
Total(D, C) == SumFunctionOnSet([o \in C |-> Amount(D[o])], C)
Increase(D, C) == SumFunctionOnSet([o \in C |-> D[o].limit_increase], C)

\* Does the object get a legal value if exactly the deltas C commit?
Legal(object, D, C) ==
    LET ints == OfType(D, C, "NONNEGATIVE_INT64_SET_ADD")
        assets == OfType(D, C, "ASSET_OBJECT_ADD")
        inserts == OfType(D, C, "HASH_SET_INSERT")
    IN  /\ \A o, p \in Touching(D, C) : DeltaClass(D[o]) = DeltaClass(D[p])
        /\ \A o \in Touching(D, C) : TypeAllowed(object, DeltaClass(D[o]))
        /\ \A o \in ints : D[o].set_value >= 0 => D[o].set_value + Total(D, ints) >= 0
        /\ Supply(object) + Total(D, assets) \in 0 .. MaxUint
        /\ \A o, p \in inserts : o # p => D[o].hash # D[p].hash
        /\ \A o \in inserts : D[o].hash \notin Hashes(object)
        /\ inserts # {} =>
             Cardinality(Hashes(object)) + Cardinality(inserts) <= SizeLimit(object)

\* The value that the deltas C give to the object, in no order.
Outcome(object, D, C) ==
    LET dc == DeltaClass(D[CHOOSE o \in C : TRUE])
        clears == OfType(D, C, "HASH_SET_CLEAR")
        increases == OfType(D, C, "HASH_SET_INCREASE_LIMIT")
        inserted == {D[o].hash : o \in OfType(D, C, "HASH_SET_INSERT")}
    IN  IF C = {} THEN object
        ELSE IF Touching(D, C) # C THEN NoObject
        ELSE CASE dc.type = "NONNEGATIVE_INT64" ->
                    [dc EXCEPT !.value = Min({MaxInt, @ + Total(D, C)})]
               [] dc.type = "RAW_MEMORY" -> dc
               [] dc.type = "KNOWN_SUPPLY_ASSET" ->
                    [dc EXCEPT !.value = Supply(object) + Total(D, C)]
               [] dc.type = "HASH_SET" ->
                    [type |-> "HASH_SET",
                     max_size |->
                       Min({MaxSize, SizeLimit(object) + Increase(D, increases)}),
                     hashes |-> {h \in Hashes(object) \cup inserted :
                                   \A o \in clears : h.index > D[o].threshold}]

\* Is the delta o admitted beside those that are held, which may yet commit or
\* revert, and those that are done, which have committed?  An integer may
\* only be reduced as far as it goes without any of the block's additions, the
\* committed ones included, and not at all from a negative base.
Admits(object, D, held, done, o) ==
    /\ \A S \in SUBSET held : Legal(object, D, done \cup S \cup {o})
    /\ D[o].type = "NONNEGATIVE_INT64_SET_ADD" /\ D[o].delta < 0 =>
         /\ D[o].set_value >= 0
         /\ \A S \in SUBSET (held \cup done) : Legal(object, D, S \cup {o})
=============================================================================
