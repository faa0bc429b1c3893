--------------------------- MODULE RevertableBase ---------------------------
(***************************************************************************)
(* RevertableBaseObject (object/revertable_object.{h,cc}): the lock-free   *)
(* word and pointer on which the transactions of a block agree on the base *)
(* value of one object.                                                    *)
(*                                                                         *)
(* The tag is one 64-bit word <uid><in-flight count><finalized>; obj is a  *)
(* pointer in a word of its own.  Every load, compare-exchange and store   *)
(* of either word is a step; local work is joined to the load before it.   *)
(* A reservation (one delta of one transaction) is made at most once per   *)
(* round and runs                                                          *)
(*                                                                         *)
(*    idle -> loop -> loadObj -> cas -> [storeObj ->] held | free | done   *)
(*    held -> done                                        (commit)         *)
(*    held -> rloop -> rloadObj -> rcas -> [clearObj ->] done  (revert)    *)
(*                                                                         *)
(* The loads and stores are acquire and release and the reservations of a  *)
(* block interleave sequentially consistently here; see the README.        *)
(***************************************************************************)
EXTENDS Naturals, FiniteSets

CONSTANTS Ops,       \* the reservations that a block may make on the object
          Values,    \* the base values (StorageDeltaClass)
          Types,     \* the object types
          TypeOf,    \* StorageDeltaClass::type()
          Uids,      \* the unique ids; id 0 of the code is NoUid
          NoUid,     \* the id of a tag that was reset
          NullPtr,   \* nullptr
          NoType,    \* std::nullopt of required_type
          CountMod   \* 2 to the width of the in-flight field (256 in the code)

ASSUME BaseAssumption ==
    /\ IsFiniteSet(Ops)
    /\ NullPtr \notin Values
    /\ TypeOf \in [Values -> Types]
    /\ NoType \notin Types
    /\ NoUid \notin Uids
    /\ CountMod \in Nat \ {0, 1}

VARIABLES tag,           \* [id, count, fin], one atomic word
          obj,           \* the value obj points to, or NullPtr
          requiredType,  \* the type of the committed base, or NoType
          pc,            \* where each reservation is
          newObj,        \* its argument of try_set
          newId,         \* its uid
          t,             \* its copy of the tag
          current,       \* its copy of the pointer
          seen,          \* history: the values agreed on while it was trying
          base           \* what the last commit_round_and_reset returned

shared == <<tag, obj, requiredType, base>>
local == <<pc, newObj, newId, t, current, seen>>
vars == <<shared, local>>

-----------------------------------------------------------------------------
(* The tag word.                                                           *)

Tags == [id : Uids \cup {NoUid}, count : 0 .. CountMod - 1, fin : BOOLEAN]
ZeroTag == [id |-> NoUid, count |-> 0, fin |-> FALSE]


\* Mutant of swap_id: the tag keeps the id of the last modification.
swap_id_kept(g, id) == g

swap_id(g, id) == [g EXCEPT !.id = id]
add_inflight(g) == [g EXCEPT !.count = (@ + 1) % CountMod]
remove_inflight(g) == [g EXCEPT !.count = (@ + CountMod - 1) % CountMod]
has_inflight(g) == g.count # 0
is_finalized(g) == g.fin
expect_nonnull(g) == g.count # 0 \/ g.fin

\* The tag and the pointer were not written by the same modification.
ShornRead(g, p) == ~(expect_nonnull(g) <=> p # NullPtr)

\* A uid is never given out twice.  Uids are only compared for equality, so
\* an id that no word still holds is as good as a new one.
UidsInUse == {tag.id} \cup {newId[o] : o \in Ops} \cup {t[o].id : o \in Ops}
get_uid == CHOOSE id \in Uids : id \notin UidsInUse
UidLeft == \E id \in Uids : id \notin UidsInUse

-----------------------------------------------------------------------------
Init ==
    /\ tag = ZeroTag
    /\ obj = NullPtr
    /\ requiredType \in Types \cup {NoType}
    /\ base = NullPtr
    /\ pc = [o \in Ops |-> "idle"]
    /\ newObj = [o \in Ops |-> NullPtr]
    /\ newId = [o \in Ops |-> NoUid]
    /\ t = [o \in Ops |-> ZeroTag]
    /\ current = [o \in Ops |-> NullPtr]
    /\ seen = [o \in Ops |-> {}]

Goto(o, l) == pc' = [pc EXCEPT ![o] = l]

\* The end of an iteration, and of the call: what was read is out of scope.
ForgetReads(o) ==
    /\ t' = [t EXCEPT ![o] = ZeroTag]
    /\ current' = [current EXCEPT ![o] = NullPtr]

Retry(o, l) ==
    /\ Goto(o, l)
    /\ ForgetReads(o)
    /\ UNCHANGED <<newObj, newId, seen>>

Return(o, l) ==
    /\ Goto(o, l)
    /\ ForgetReads(o)
    /\ newId' = [newId EXCEPT ![o] = NoUid]
    /\ newObj' = IF l = "free" THEN newObj ELSE [newObj EXCEPT ![o] = NullPtr]
    /\ seen' = [seen EXCEPT ![o] = {}]

\* The value agreed on, also while its pointer is still to be stored.
Storing(o) == pc[o] = "storeObj"
AgreedValues ==
    {v \in Values : /\ expect_nonnull(tag)
                    /\ obj = v \/ \E o \in Ops : Storing(o) /\ newObj[o] = v}

Trying(o) == pc[o] \in {"loop", "loadObj", "cas"}

-----------------------------------------------------------------------------
(* try_set                                                                 *)

TrySetWrongType(o, v) ==
    /\ pc[o] = "idle"
    /\ requiredType \notin {NoType, TypeOf[v]}
    /\ Goto(o, "done")
    /\ UNCHANGED <<shared, newObj, newId, t, current, seen>>

\* Mutant of TrySet: required_type is not looked at.
TrySet_AnyType(o, v) ==
    /\ pc[o] = "idle"
    /\ UidLeft
    /\ newObj' = [newObj EXCEPT ![o] = v]
    /\ newId' = [newId EXCEPT ![o] = get_uid]
    /\ seen' = [seen EXCEPT ![o] = AgreedValues]
    /\ Goto(o, "loop")
    /\ UNCHANGED <<shared, t, current>>

TrySet(o, v) ==
    /\ pc[o] = "idle"
    /\ requiredType \in {NoType, TypeOf[v]}
    /\ UidLeft
    /\ newObj' = [newObj EXCEPT ![o] = v]
    /\ newId' = [newId EXCEPT ![o] = get_uid]
    /\ seen' = [seen EXCEPT ![o] = AgreedValues]
    /\ Goto(o, "loop")
    /\ UNCHANGED <<shared, t, current>>

LoadTag(o) ==
    /\ pc[o] = "loop"
    /\ t' = [t EXCEPT ![o] = tag]
    /\ Goto(o, "loadObj")
    /\ UNCHANGED <<shared, newObj, newId, current, seen>>

\* Mutant of LoadObj: a null pointer is taken at its word.
LoadObj_NoShornCheck(o) ==
    /\ pc[o] = "loadObj"
    /\ \/ /\ obj = NullPtr \/ (obj = newObj[o] /\ ~is_finalized(t[o]))
          /\ current' = [current EXCEPT ![o] = obj]
          /\ Goto(o, "cas")
          /\ UNCHANGED <<newObj, newId, t, seen>>
       \/ /\ obj \notin {NullPtr, newObj[o]}
          /\ Return(o, "done")
       \/ /\ obj = newObj[o] /\ is_finalized(t[o])
          /\ Return(o, "free")
    /\ UNCHANGED shared

\* The load of obj and the tests on what was read.
LoadObj(o) ==
    /\ pc[o] = "loadObj"
    /\ \/ /\ ShornRead(t[o], obj)
          /\ Retry(o, "loop")
       \/ /\ ~ShornRead(t[o], obj)
          /\ obj = NullPtr \/ (obj = newObj[o] /\ ~is_finalized(t[o]))
          /\ current' = [current EXCEPT ![o] = obj]
          /\ Goto(o, "cas")
          /\ UNCHANGED <<newObj, newId, t, seen>>
       \/ /\ ~ShornRead(t[o], obj)
          /\ obj \notin {NullPtr, newObj[o]}
          /\ Return(o, "done")
       \/ /\ ~ShornRead(t[o], obj)
          /\ obj = newObj[o] /\ is_finalized(t[o])
          /\ Return(o, "free")
    /\ UNCHANGED shared

CasSucceeds(o) ==
    /\ pc[o] = "cas"
    /\ tag = t[o]
    /\ tag' = add_inflight(swap_id(t[o], newId[o]))
    /\ pc' = [pc EXCEPT ![o] = IF current[o] = NullPtr THEN "storeObj"
                                                       ELSE "held"]
    /\ ForgetReads(o)
    /\ newId' = [newId EXCEPT ![o] = NoUid]
    /\ seen' = [x \in Ops |-> IF x = o THEN {}
                              ELSE IF Trying(x) THEN seen[x] \cup {newObj[o]}
                              ELSE seen[x]]
    /\ UNCHANGED <<obj, requiredType, base, newObj>>

\* compare_exchange_weak on a tag that has changed: round again.
CasFails(o) ==
    /\ pc[o] = "cas"
    /\ tag # t[o]
    /\ Retry(o, "loop")
    /\ UNCHANGED shared

StoreObj(o) ==
    /\ pc[o] = "storeObj"
    /\ obj' = newObj[o]
    /\ Goto(o, "held")
    /\ UNCHANGED <<tag, requiredType, base, newObj, newId, t, current, seen>>

-----------------------------------------------------------------------------
(* Rewind::commit and Rewind::~Rewind                                      *)

Commit(o) ==
    /\ pc[o] = "held"
    /\ tag' = [tag EXCEPT !.fin = TRUE]
    /\ Return(o, "done")
    /\ UNCHANGED <<obj, requiredType, base>>

\* A Rewind made with do_revert = false: neither call touches the object.
Release(o) ==
    /\ pc[o] = "free"
    /\ Return(o, "done")
    /\ UNCHANGED shared

Revert(o) ==
    /\ pc[o] = "held"
    /\ UidLeft
    /\ newId' = [newId EXCEPT ![o] = get_uid]
    /\ Goto(o, "rloop")
    /\ UNCHANGED <<shared, newObj, t, current, seen>>

RevertLoadTag(o) ==
    /\ pc[o] = "rloop"
    /\ t' = [t EXCEPT ![o] = tag]
    /\ Goto(o, "rloadObj")
    /\ UNCHANGED <<shared, newObj, newId, current, seen>>

RevertLoadObj(o) ==
    /\ pc[o] = "rloadObj"
    /\ \/ /\ ShornRead(t[o], obj)
          /\ Retry(o, "rloop")
       \/ /\ ~ShornRead(t[o], obj)
          /\ is_finalized(t[o])
          /\ Return(o, "done")
       \/ /\ ~ShornRead(t[o], obj)
          /\ ~is_finalized(t[o])
          /\ Goto(o, "rcas")
          /\ UNCHANGED <<newObj, newId, t, current, seen>>
    /\ UNCHANGED shared

\* Mutant of RevertCasSucceeds: the last revert leaves the pointer.
RevertCasSucceeds_KeepsObj(o) ==
    /\ pc[o] = "rcas"
    /\ tag = t[o]
    /\ tag' = remove_inflight(swap_id(t[o], newId[o]))
    /\ Return(o, "done")
    /\ UNCHANGED <<obj, requiredType, base>>

\* Mutant of RevertCasSucceeds: every revert clears the pointer.
RevertCasSucceeds_AlwaysClears(o) ==
    /\ pc[o] = "rcas"
    /\ tag = t[o]
    /\ tag' = remove_inflight(swap_id(t[o], newId[o]))
    /\ Return(o, "clearObj")
    /\ UNCHANGED <<obj, requiredType, base>>

RevertCasSucceeds(o) ==
    /\ pc[o] = "rcas"
    /\ tag = t[o]
    /\ tag' = remove_inflight(swap_id(t[o], newId[o]))
    /\ Return(o, IF has_inflight(tag') THEN "done" ELSE "clearObj")
    /\ UNCHANGED <<obj, requiredType, base>>

RevertCasFails(o) ==
    /\ pc[o] = "rcas"
    /\ tag # t[o]
    /\ Retry(o, "rloop")
    /\ UNCHANGED shared

ClearObj(o) ==
    /\ pc[o] = "clearObj"
    /\ obj' = NullPtr
    /\ Return(o, "done")
    /\ UNCHANGED <<tag, requiredType, base>>

-----------------------------------------------------------------------------
(* The end of a round: never concurrent with a reservation.                *)

Quiescent == \A o \in Ops : pc[o] \in {"idle", "done"}

\* deleteLast: RevertableObject::commit_round then calls clear_required_type.
CommitRound(deleteLast) ==
    /\ Quiescent
    /\ tag' = ZeroTag
    /\ obj' = NullPtr
    /\ base' = obj
    /\ requiredType' = IF deleteLast THEN NoType
                       ELSE IF obj # NullPtr THEN TypeOf[obj]
                       ELSE requiredType
    /\ pc' = [o \in Ops |-> "idle"]
    /\ UNCHANGED <<newObj, newId, t, current, seen>>

RewindRound ==
    /\ Quiescent
    /\ tag' = ZeroTag
    /\ obj' = NullPtr
    /\ base' = NullPtr
    /\ pc' = [o \in Ops |-> "idle"]
    /\ UNCHANGED <<requiredType, newObj, newId, t, current, seen>>

Step(o) ==
    \/ \E v \in Values : TrySet(o, v) \/ TrySetWrongType(o, v)
    \/ LoadTag(o) \/ LoadObj(o) \/ CasSucceeds(o) \/ CasFails(o) \/ StoreObj(o)
    \/ Commit(o) \/ Release(o) \/ Revert(o)
    \/ RevertLoadTag(o) \/ RevertLoadObj(o)
    \/ RevertCasSucceeds(o) \/ RevertCasFails(o) \/ ClearObj(o)

Next ==
    \/ \E o \in Ops : Step(o)
    \/ \E d \in BOOLEAN : CommitRound(d)
    \/ RewindRound

Spec == Init /\ [][Next]_vars

\* A thread that is inside try_set or revert keeps running.
CallStep(o) ==
    \/ LoadTag(o) \/ LoadObj(o) \/ CasSucceeds(o) \/ CasFails(o) \/ StoreObj(o)
    \/ RevertLoadTag(o) \/ RevertLoadObj(o)
    \/ RevertCasSucceeds(o) \/ RevertCasFails(o) \/ ClearObj(o)

FairSpec == Spec /\ \A o \in Ops : WF_vars(CallStep(o))

-----------------------------------------------------------------------------
(* Properties                                                              *)

Labels == {"idle", "loop", "loadObj", "cas", "storeObj", "held", "free",
           "rloop", "rloadObj", "rcas", "clearObj", "done"}

Pointers == Values \cup {NullPtr}

\* The type invariant of the tag, the pointer and the locals of try_set and
\* revert; no value of another type than the object's own is ever tried.
TypeOK ==
    /\ tag \in Tags
    /\ obj \in Pointers
    /\ requiredType \in Types \cup {NoType}
    /\ base \in Pointers
    /\ pc \in [Ops -> Labels]
    /\ newObj \in [Ops -> Pointers]
    /\ newId \in [Ops -> Uids \cup {NoUid}]
    /\ t \in [Ops -> Tags]
    /\ current \in [Ops -> Pointers]
    /\ seen \in [Ops -> SUBSET Values]
    /\ \A v \in {obj} \cup {newObj[o] : o \in Ops} :
          v # NullPtr => requiredType \in {NoType, TypeOf[v]}

\* The reservations that the in-flight count stands for.
Counted(o) == pc[o] \in {"storeObj", "held", "rloop", "rloadObj", "rcas"}

\* A thread has changed the tag and not yet the pointer.
Writing(o) == pc[o] \in {"storeObj", "clearObj"}

\* revertable_object.cc:42-46: a tag and a pointer that disagree are a shorn
\* read, so it is enough to read them again.  They disagree only while some
\* thread is between its compare_exchange and its store of the pointer.
ShornOnlyWhileWriting == ShornRead(tag, obj) => \E o \in Ops : Writing(o)

\* What try_set promises: all the reservations that stand at one time, those
\* being reverted included, are for the one agreed value, and a reservation that
\* needs no undoing is for a value that can no longer change.
Agreement ==
    \A o \in Ops : /\ Counted(o) => AgreedValues = {newObj[o]}
                   /\ pc[o] = "free" => tag.fin /\ newObj[o] = obj

\* commit_round_and_reset makes whatever obj points to the value of the
\* object: once no reservation stands that is a value if and only if one was
\* committed in this round.
OnlyCommittedSurvives == Quiescent => (obj # NullPtr <=> tag.fin)

\* Within a round nothing replaces the pointer by another one
\* (revertable_object.cc:65), and after a commit it does not change at all.
PointerStable ==
    [][~Quiescent => /\ NullPtr \in {obj, obj'} \/ obj' = obj
                     /\ tag.fin => obj' = obj /\ tag'.fin]_<<tag, obj>>

\* A call of try_set or of revert (the destructor of a Rewind) returns: no
\* thread retries forever, whatever the others do.
CallsReturn ==
    \A o \in Ops : pc[o] \notin {"idle", "held", "free", "done"}
                    ~> pc[o] \in {"held", "free", "done"}

\* How the words of the code stand for the state of AgreedBase.
AgreedValue ==
    IF AgreedValues = {} THEN NullPtr ELSE CHOOSE v \in AgreedValues : TRUE
Status ==
    [o \in Ops |-> IF Trying(o) THEN "trying"
                   ELSE IF Counted(o) THEN "held"
                   ELSE IF pc[o] = "clearObj" THEN "done"
                   ELSE pc[o]]

Abstract == INSTANCE AgreedBase WITH
    NoValue <- NullPtr, value <- AgreedValue, final <- tag.fin,
    st <- Status, want <- newObj

\* Every step of the protocol is a step of AgreedBase or leaves its state
\* unchanged: a reservation takes effect at the compare_exchange (or at the
\* load that sees the finalized value) and is refused only if another value
\* was agreed on during the call.
ImplementsAgreedBase == Abstract!Spec
=============================================================================
