------------------------ MODULE RevertableBaseProofs ------------------------
(***************************************************************************)
(* Proofs about RevertableBase, for every set of reservations, values and  *)
(* uids and every width of the in-flight count.                            *)
(***************************************************************************)
EXTENDS RevertableBase, FiniteSetTheorems, TLAPS

-----------------------------------------------------------------------------
(* Type correctness                                                        *)

\* A reservation names a value while it is being made, held or released.
AskingInv ==
    \A o \in Ops : pc[o] \in {"idle", "done", "clearObj"} <=> newObj[o] = NullPtr

TypeInv == TypeOK /\ AskingInv

\* A remainder is smaller than the modulus.
LEMMA ModRange ==
    ASSUME NEW n \in Nat PROVE n % CountMod \in 0 .. CountMod - 1
BY BaseAssumption

LEMMA TagArithmetic ==
    ASSUME NEW g \in Tags, NEW id \in Uids \cup {NoUid}
    PROVE  /\ add_inflight(swap_id(g, id)) \in Tags
           /\ remove_inflight(swap_id(g, id)) \in Tags
           /\ ZeroTag \in Tags
           /\ [g EXCEPT !.fin = TRUE] \in Tags
<1>1. g.count + 1 \in Nat /\ g.count + CountMod - 1 \in Nat
  BY BaseAssumption DEF Tags
<1>2. (g.count + 1) % CountMod \in 0 .. CountMod - 1
  BY <1>1, ModRange
<1>3. (g.count + CountMod - 1) % CountMod \in 0 .. CountMod - 1
  BY <1>1, ModRange
<1>4. 0 \in 0 .. CountMod - 1
  BY BaseAssumption
<1> QED
  BY <1>2, <1>3, <1>4
  DEF Tags, ZeroTag, swap_id, add_inflight, remove_inflight

\* The uid that get_uid returns, while there is one left.
LEMMA FreshUid ==
    ASSUME UidLeft
    PROVE  get_uid \in Uids /\ get_uid \notin UidsInUse
BY Zenon DEF UidLeft, get_uid

LEMMA TypeInit == Init => TypeInv
BY TagArithmetic, BaseAssumption
DEF Init, TypeInv, TypeOK, AskingInv, Labels, Pointers, ZeroTag, Tags

LEMMA TypeNext == TypeInv /\ [Next]_vars => TypeInv'
<1> SUFFICES ASSUME TypeInv, [Next]_vars PROVE TypeInv'
  OBVIOUS
<1> USE BaseAssumption DEF TypeInv, TypeOK, AskingInv, Pointers, Labels,
                           shared, Goto, Retry, Return, ForgetReads
<1>0. ZeroTag \in Tags
  BY TagArithmetic
<1>1. ASSUME NEW o \in Ops, NEW v \in Values, TrySet(o, v) PROVE TypeInv'
  <2>1. get_uid \in Uids
    BY <1>1, FreshUid DEF TrySet
  <2>2. AgreedValues \subseteq Values
    BY DEF AgreedValues
  <2> QED
    BY <1>1, <2>1, <2>2 DEF TrySet
<1>2. ASSUME NEW o \in Ops, NEW v \in Values, TrySetWrongType(o, v)
      PROVE  TypeInv'
  BY <1>2 DEF TrySetWrongType
<1>3. ASSUME NEW o \in Ops, LoadTag(o) PROVE TypeInv'
  BY <1>3 DEF LoadTag
<1>4. ASSUME NEW o \in Ops, LoadObj(o) PROVE TypeInv'
  BY <1>4, <1>0 DEF LoadObj
<1>5. ASSUME NEW o \in Ops, CasSucceeds(o) PROVE TypeInv'
  <2>1. tag' \in Tags
    BY <1>5, TagArithmetic DEF CasSucceeds
  <2>2. seen' \in [Ops -> SUBSET Values]
    <3>1. newObj[o] \in Values
      BY <1>5 DEF CasSucceeds
    <3> QED BY <1>5, <3>1 DEF CasSucceeds
  <2>3. TypeOK'
    BY <1>5, <1>0, <2>1, <2>2 DEF CasSucceeds
  <2>4. AskingInv'
    BY <1>5 DEF CasSucceeds
  <2> QED BY <2>3, <2>4
<1>6. ASSUME NEW o \in Ops, CasFails(o) PROVE TypeInv'
  BY <1>6, <1>0 DEF CasFails
<1>7. ASSUME NEW o \in Ops, StoreObj(o) PROVE TypeInv'
  BY <1>7 DEF StoreObj
<1>8. ASSUME NEW o \in Ops, Commit(o) PROVE TypeInv'
  <2>1. tag' \in Tags
    BY <1>8, TagArithmetic DEF Commit
  <2>2. TypeOK'
    BY <1>8, <1>0, <2>1 DEF Commit
  <2>3. AskingInv'
    BY <1>8 DEF Commit
  <2> QED BY <2>2, <2>3
<1>9. ASSUME NEW o \in Ops, Release(o) PROVE TypeInv'
  BY <1>9, <1>0 DEF Release
<1>10. ASSUME NEW o \in Ops, Revert(o) PROVE TypeInv'
  BY <1>10, FreshUid DEF Revert
<1>11. ASSUME NEW o \in Ops, RevertLoadTag(o) PROVE TypeInv'
  BY <1>11 DEF RevertLoadTag
<1>12. ASSUME NEW o \in Ops, RevertLoadObj(o) PROVE TypeInv'
  BY <1>12, <1>0 DEF RevertLoadObj
<1>13. ASSUME NEW o \in Ops, RevertCasSucceeds(o) PROVE TypeInv'
  <2> DEFINE label == IF has_inflight(tag') THEN "done" ELSE "clearObj"
  <2>1. tag' \in Tags
    BY <1>13, TagArithmetic DEF RevertCasSucceeds
  <2>2. Return(o, label) /\ UNCHANGED <<obj, requiredType, base>>
    BY <1>13 DEF RevertCasSucceeds
  <2>3. label \in {"done", "clearObj"}
    OBVIOUS
  <2> HIDE DEF label
  <2>4. TypeOK'
    BY <1>0, <2>1, <2>2, <2>3
  <2>5. AskingInv'
    BY <2>2, <2>3
  <2> QED BY <2>4, <2>5
<1>14. ASSUME NEW o \in Ops, RevertCasFails(o) PROVE TypeInv'
  BY <1>14, <1>0 DEF RevertCasFails
<1>15. ASSUME NEW o \in Ops, ClearObj(o) PROVE TypeInv'
  BY <1>15, <1>0 DEF ClearObj
<1>16. ASSUME NEW d \in BOOLEAN, CommitRound(d) PROVE TypeInv'
  BY <1>16, <1>0 DEF CommitRound, Quiescent
<1>17. CASE RewindRound
  BY <1>17, <1>0 DEF RewindRound, Quiescent
<1>18. CASE UNCHANGED vars
  BY <1>18 DEF vars, local
<1> QED
  BY <1>1, <1>2, <1>3, <1>4, <1>5, <1>6, <1>7, <1>8, <1>9, <1>10, <1>11, <1>12,
     <1>13, <1>14, <1>15, <1>16, <1>17, <1>18 DEF Next, Step

\* The tag, the pointer and the locals of try_set and revert have their types
\* in every reachable state, and no value of another type than the object's
\* own is ever tried.
THEOREM TypeCorrect == Spec => []TypeOK
<1>1. Spec => []TypeInv
  BY TypeInit, TypeNext, PTL DEF Spec
<1> QED
  BY <1>1, PTL DEF TypeInv

-----------------------------------------------------------------------------
(* The inductive invariant of the protocol                                 *)

\* The in-flight count is wide enough for the reservations of a block.
NoOverflow == Cardinality(Ops) < CountMod

CountedOps == {o \in Ops : Counted(o)}
NobodyWriting == \A o \in Ops : ~Writing(o)

\* The count is exact until the value is finalized; then it no longer matters.
CountInv == ~tag.fin => tag.count = Cardinality(CountedOps)

\* A finalized value is in place.
FinInv == tag.fin => obj # NullPtr /\ NobodyWriting

\* The first reservation stores the pointer before any other one is counted,
\* and the last one clears it before another one is.
StoringInv ==
    \A o \in Ops : pc[o] = "storeObj" =>
        obj = NullPtr /\ CountedOps = {o} /\ \A x \in Ops : Writing(x) => x = o
ClearingInv ==
    \A o \in Ops : pc[o] = "clearObj" =>
        obj # NullPtr /\ CountedOps = {} /\ \A x \in Ops : Writing(x) => x = o

\* Otherwise the pointer is there if and only if somebody counts on it.
QuietInv == NobodyWriting => (obj # NullPtr <=> tag.fin \/ CountedOps # {})

\* Those who hold a reservation hold one for the value in place.
HeldInv ==
    \A o \in Ops : /\ Counted(o) /\ ~Storing(o) => newObj[o] = obj
                   /\ pc[o] = "free" => tag.fin /\ newObj[o] = obj

\* A tag read as finalized stays so.
\* A compare_exchange that will succeed works on what the tag and the pointer
\* still are, with no store outstanding.
ReadInv ==
    \A o \in Ops :
        /\ pc[o] \in {"loadObj", "rloadObj"} /\ t[o].fin => tag.fin
        /\ pc[o] \in {"cas", "rcas"} => ~t[o].fin
        /\ pc[o] \in {"cas", "rcas"} /\ tag = t[o] => NobodyWriting
        /\ pc[o] = "cas" => current[o] \in {NullPtr, newObj[o]}
        /\ pc[o] = "cas" /\ tag = t[o] => current[o] = obj

\* The uid that a call is about to put in the tag is in no other word.
Drawn(o) == pc[o] \in {"loop", "loadObj", "cas", "rloop", "rloadObj", "rcas"}
UidInv ==
    \A o \in Ops : Drawn(o) =>
        /\ newId[o] \notin {NoUid, tag.id}
        /\ \A x \in Ops : newId[o] # t[x].id /\ (x # o => newId[x] # newId[o])

IInv == /\ TypeInv
        /\ CountInv /\ FinInv /\ StoringInv /\ ClearingInv /\ QuietInv
        /\ HeldInv /\ ReadInv /\ UidInv

LEMMA SmallMod ==
    ASSUME NEW n \in Nat, n < CountMod
    PROVE  /\ n % CountMod = n
           /\ n # 0 => (n + CountMod - 1) % CountMod = n - 1
<1> USE BaseAssumption
<1>1. n % CountMod = n
  OBVIOUS
<1>2. ASSUME n # 0 PROVE (n + CountMod - 1) % CountMod = n - 1
  <2>1. n - 1 \in Nat /\ n - 1 < CountMod /\ n + CountMod - 1 = (n - 1) + CountMod
    BY <1>2
  <2> QED
    BY <2>1
<1> QED
  BY <1>1, <1>2

LEMMA CountedFinite == IsFiniteSet(CountedOps) /\ Cardinality(CountedOps) \in Nat
<1>1. CountedOps \subseteq Ops
  BY DEF CountedOps
<1> QED
  BY <1>1, BaseAssumption, FS_Subset, FS_CardinalityType

\* The tag says what the reservations say.
LEMMA ExpectNonnull ==
    ASSUME TypeInv, CountInv
    PROVE  expect_nonnull(tag) <=> tag.fin \/ CountedOps # {}
<1>1. Cardinality(CountedOps) = 0 <=> CountedOps = {}
  BY CountedFinite, FS_EmptySet
<1> QED
  BY <1>1 DEF expect_nonnull, CountInv, TypeInv, TypeOK, Tags

\* Neither half of the shorn state is mistaken for a consistent one.
LEMMA WritingIsShorn ==
    ASSUME IInv, ~NobodyWriting
    PROVE  ShornRead(tag, obj) /\ ~tag.fin
<1>1. PICK o \in Ops : Writing(o)
  BY DEF NobodyWriting
<1>2. ~tag.fin
  BY DEF IInv, FinInv
<1>3. expect_nonnull(tag) <=> CountedOps # {}
  BY <1>2, ExpectNonnull DEF IInv
<1> QED
  BY <1>1, <1>2, <1>3
  DEF IInv, StoringInv, ClearingInv, Writing, ShornRead

LEMMA InvInit == Init => IInv
<1> SUFFICES ASSUME Init PROVE IInv
  OBVIOUS
<1>1. CountedOps = {}
  BY DEF Init, CountedOps, Counted
<1>2. Cardinality(CountedOps) = 0
  BY <1>1, FS_EmptySet
<1> QED
  BY <1>1, <1>2, TypeInit
  DEF Init, IInv, CountInv, FinInv, StoringInv, ClearingInv, QuietInv, HeldInv,
      ReadInv, UidInv, ZeroTag, NobodyWriting, Writing, Storing, Counted, Drawn

-----------------------------------------------------------------------------
(* Steps that leave the tag and the pointer alone and count nobody in or   *)
(* out preserve the part of the invariant about the two words.             *)

WordsInv == CountInv /\ FinInv /\ StoringInv /\ ClearingInv /\ QuietInv

LEMMA WordsStable ==
    ASSUME IInv, UNCHANGED <<tag, obj>>,
           \A x \in Ops : /\ Counted(x)' <=> Counted(x)
                          /\ (pc'[x] = "storeObj") <=> (pc[x] = "storeObj")
                          /\ (pc'[x] = "clearObj") <=> (pc[x] = "clearObj")
    PROVE  WordsInv' /\ CountedOps' = CountedOps /\ (NobodyWriting' <=> NobodyWriting)
<1>1. CountedOps' = CountedOps
  BY DEF CountedOps
<1>2. \A x \in Ops : Writing(x)' <=> Writing(x)
  BY DEF Writing
<1>3. NobodyWriting' <=> NobodyWriting
  BY <1>2 DEF NobodyWriting
<1> QED
  BY <1>1, <1>2, <1>3
  DEF IInv, WordsInv, CountInv, FinInv, StoringInv, ClearingInv, QuietInv

\* Steps inside a call, up to the compare_exchange: they write neither word and
\* count nobody in or out.
LocalStep(o) ==
    \/ \E v \in Values : TrySet(o, v) \/ TrySetWrongType(o, v)
    \/ LoadTag(o) \/ LoadObj(o) \/ CasFails(o) \/ Release(o) \/ Revert(o)
    \/ RevertLoadTag(o) \/ RevertCasFails(o)
    \/ RevertLoadObj(o) /\ pc'[o] # "done"

LEMMA LocalSteps ==
    ASSUME IInv, TypeInv', NEW o \in Ops, LocalStep(o)
    PROVE  IInv'
<1> USE BaseAssumption DEF shared, Goto, Retry, Return, ForgetReads
<1> DEFINE Stable == UNCHANGED <<tag, obj>> /\ \A x \in Ops :
                          /\ Counted(x)' <=> Counted(x)
                          /\ (pc'[x] = "storeObj") <=> (pc[x] = "storeObj")
                          /\ (pc'[x] = "clearObj") <=> (pc[x] = "clearObj")
           Rest == HeldInv' /\ ReadInv' /\ UidInv'
<1>t. TypeOK /\ AskingInv
  BY DEF IInv, TypeInv
<1>n. Stable => (NobodyWriting' <=> NobodyWriting)
  BY WordsStable
<1>u. UidLeft => get_uid \in Uids /\ get_uid \notin UidsInUse
  BY FreshUid
<1>0. SUFFICES Stable /\ Rest
  BY <1>0, WordsStable DEF IInv, WordsInv
<1> HIDE DEF Rest
<1>1. ASSUME NEW v \in Values, TrySet(o, v) PROVE Stable /\ Rest
  <2>1. Stable
    BY <1>1, <1>t DEF TrySet, TypeOK, Labels, Counted
  <2>2. UidInv'
    BY <1>1, <1>t, <1>u DEF IInv, UidInv, Drawn, UidsInUse, TrySet, TypeOK
  <2> QED
    BY <1>1, <1>t, <1>n, <2>1, <2>2
    DEF Rest, IInv, HeldInv, ReadInv, Counted, Storing, TrySet, TypeOK
<1>2. ASSUME NEW v \in Values, TrySetWrongType(o, v) PROVE Stable /\ Rest
  <2>1. Stable
    BY <1>2, <1>t DEF TrySetWrongType, TypeOK, Labels, Counted
  <2> QED
    BY <1>2, <1>t, <1>n, <2>1
    DEF Rest, IInv, HeldInv, ReadInv, UidInv, Drawn, Counted, Storing,
        TrySetWrongType, TypeOK, ZeroTag
<1>3. ASSUME LoadTag(o) PROVE Stable /\ Rest
  <2>1. Stable
    BY <1>3, <1>t DEF LoadTag, TypeOK, Labels, Counted
  <2> QED
    BY <1>3, <1>t, <1>n, <2>1
    DEF Rest, IInv, HeldInv, ReadInv, UidInv, Drawn, Counted, Storing,
        LoadTag, TypeOK, ZeroTag
<1>4. ASSUME CasFails(o) PROVE Stable /\ Rest
  <2>1. Stable
    BY <1>4, <1>t DEF CasFails, TypeOK, Labels, Counted
  <2> QED
    BY <1>4, <1>t, <1>n, <2>1
    DEF Rest, IInv, HeldInv, ReadInv, UidInv, Drawn, Counted, Storing,
        CasFails, TypeOK, ZeroTag
<1>5. ASSUME Release(o) PROVE Stable /\ Rest
  <2>1. Stable
    BY <1>5, <1>t DEF Release, TypeOK, Labels, Counted
  <2> QED
    BY <1>5, <1>t, <1>n, <2>1
    DEF Rest, IInv, HeldInv, ReadInv, UidInv, Drawn, Counted, Storing,
        Release, TypeOK, ZeroTag
<1>6. ASSUME Revert(o) PROVE Stable /\ Rest
  <2>1. Stable
    BY <1>6, <1>t DEF Revert, TypeOK, Labels, Counted
  <2>2. UidInv'
    BY <1>6, <1>t, <1>u DEF IInv, UidInv, Drawn, UidsInUse, Revert, TypeOK
  <2> QED
    BY <1>6, <1>t, <1>n, <2>1, <2>2
    DEF Rest, IInv, HeldInv, ReadInv, Counted, Storing, Revert, TypeOK
<1>7. ASSUME RevertLoadTag(o) PROVE Stable /\ Rest
  <2>1. Stable
    BY <1>7, <1>t DEF RevertLoadTag, TypeOK, Labels, Counted
  <2> QED
    BY <1>7, <1>t, <1>n, <2>1
    DEF Rest, IInv, HeldInv, ReadInv, UidInv, Drawn, Counted, Storing,
        RevertLoadTag, TypeOK, ZeroTag
<1>8. ASSUME RevertCasFails(o) PROVE Stable /\ Rest
  <2>1. Stable
    BY <1>8, <1>t DEF RevertCasFails, TypeOK, Labels, Counted
  <2> QED
    BY <1>8, <1>t, <1>n, <2>1
    DEF Rest, IInv, HeldInv, ReadInv, UidInv, Drawn, Counted, Storing,
        RevertCasFails, TypeOK, ZeroTag
<1>9. ASSUME LoadObj(o) PROVE Stable /\ Rest
  <2>1. Stable
    BY <1>9, <1>t DEF LoadObj, TypeOK, Labels, Counted
  <2>2. UidInv'
    BY <1>9, <1>t DEF IInv, UidInv, Drawn, LoadObj, TypeOK, ZeroTag
  <2>3. HeldInv'
    BY <1>9, <1>t, <2>1 DEF IInv, HeldInv, ReadInv, Counted, Storing, LoadObj,
        TypeOK, is_finalized
  <2>4. ReadInv'
    <3>1. tag = t[o] /\ ~ShornRead(t[o], obj) => NobodyWriting
      BY WritingIsShorn
    <3>2. obj = NullPtr /\ ~ShornRead(t[o], obj) => ~t[o].fin
      BY DEF ShornRead, expect_nonnull
    <3> QED
      BY <1>9, <1>t, <1>n, <2>1, <3>1, <3>2
      DEF IInv, ReadInv, LoadObj, TypeOK, is_finalized
  <2> QED
    BY <2>1, <2>2, <2>3, <2>4 DEF Rest
<1>10. ASSUME RevertLoadObj(o), pc'[o] # "done" PROVE Stable /\ Rest
  <2>1. Stable
    BY <1>10, <1>t DEF RevertLoadObj, TypeOK, Labels, Counted
  <2>2. UidInv'
    BY <1>10, <1>t DEF IInv, UidInv, Drawn, RevertLoadObj, TypeOK, ZeroTag
  <2>3. HeldInv'
    BY <1>10, <1>t, <2>1 DEF IInv, HeldInv, Counted, Storing, RevertLoadObj, TypeOK
  <2>4. ReadInv'
    <3>1. tag = t[o] /\ ~ShornRead(t[o], obj) => NobodyWriting
      BY WritingIsShorn
    <3> QED
      BY <1>10, <1>t, <1>n, <2>1, <3>1
      DEF IInv, ReadInv, RevertLoadObj, TypeOK, is_finalized
  <2> QED
    BY <2>1, <2>2, <2>3, <2>4 DEF Rest
<1> QED
  BY <1>1, <1>2, <1>3, <1>4, <1>5, <1>6, <1>7, <1>8, <1>9, <1>10 DEF LocalStep

-----------------------------------------------------------------------------
(* Steps that write the tag or the pointer                                 *)

LEMMA CasStep ==
    ASSUME IInv, TypeInv', NoOverflow, NEW o \in Ops, CasSucceeds(o)
    PROVE  IInv'
<1> USE BaseAssumption DEF shared, ForgetReads, CasSucceeds
<1>t. TypeOK /\ AskingInv
  BY DEF IInv, TypeInv
<1>1. /\ tag = t[o] /\ ~tag.fin /\ NobodyWriting
      /\ current[o] = obj /\ obj \in {NullPtr, newObj[o]}
      /\ newObj[o] # NullPtr
  BY <1>t DEF IInv, ReadInv, AskingInv
<1>2. CountedOps' = CountedOps \cup {o} /\ o \notin CountedOps
  BY <1>t DEF CountedOps, Counted, TypeOK
<1>3. Cardinality(CountedOps') = Cardinality(CountedOps) + 1
  BY <1>2, CountedFinite, FS_AddElement
<1>4. Cardinality(CountedOps') <= Cardinality(Ops)
  BY FS_Subset DEF CountedOps
<1>5. tag.count = Cardinality(CountedOps) /\ tag.count + 1 < CountMod
  BY <1>1, <1>3, <1>4, CountedFinite, FS_CardinalityType DEF IInv, CountInv, NoOverflow
<1>6. (tag.count + 1) % CountMod = tag.count + 1
  BY <1>5, SmallMod, CountedFinite
<1>7. tag' = [id |-> newId[o], count |-> tag.count + 1, fin |-> FALSE]
  BY <1>1, <1>6, <1>t DEF TypeOK, Tags, swap_id, add_inflight
<1>8. CountInv'
  BY <1>3, <1>5, <1>7 DEF CountInv
<1>9. obj = NullPtr <=> CountedOps = {}
  BY <1>1 DEF IInv, QuietInv
<1>10. \A x \in Ops : Writing(x)' <=> x = o /\ obj = NullPtr
  BY <1>1, <1>t DEF Writing, NobodyWriting, TypeOK
<1>11. FinInv' /\ StoringInv' /\ ClearingInv' /\ QuietInv'
  BY <1>1, <1>2, <1>7, <1>9, <1>10, <1>t
  DEF FinInv, StoringInv, ClearingInv, QuietInv, NobodyWriting, Writing, TypeOK
<1>12. HeldInv'
  BY <1>1, <1>2, <1>9, <1>t DEF IInv, HeldInv, Counted, Storing, CountedOps, TypeOK
<1>13. UidInv'
  BY <1>7, <1>t DEF IInv, UidInv, Drawn, TypeOK, ZeroTag
<1>14. ReadInv'
  <2>1. ASSUME NEW x \in Ops, x # o PROVE tag' # t'[x]
    BY <2>1, <1>7, <1>t DEF IInv, UidInv, Drawn, TypeOK
  <2> QED
    BY <2>1, <1>1, <1>7, <1>t DEF IInv, ReadInv, TypeOK
<1> QED
  BY <1>8, <1>11, <1>12, <1>13, <1>14 DEF IInv

LEMMA StoreStep ==
    ASSUME IInv, TypeInv', NEW o \in Ops, StoreObj(o)
    PROVE  IInv'
<1> USE DEF shared, Goto, StoreObj
<1>t. TypeOK /\ AskingInv
  BY DEF IInv, TypeInv
<1>1. CountedOps' = CountedOps /\ CountedOps = {o} /\ newObj[o] # NullPtr
  BY <1>t DEF IInv, StoringInv, AskingInv, CountedOps, Counted, TypeOK
<1>2. \A x \in Ops : ~Writing(x)'
  BY <1>t DEF IInv, StoringInv, Writing, TypeOK
<1>3. ~tag.fin
  BY DEF IInv, FinInv, NobodyWriting, Writing
<1>4. WordsInv'
  BY <1>1, <1>2, <1>3
  DEF IInv, WordsInv, CountInv, FinInv, StoringInv, ClearingInv, QuietInv,
      NobodyWriting, Writing
<1>5. HeldInv'
  BY <1>1, <1>3, <1>t DEF IInv, HeldInv, Counted, CountedOps, Storing, TypeOK
<1>6. ReadInv'
  BY <1>t DEF IInv, ReadInv, NobodyWriting, Writing, TypeOK
<1>7. UidInv'
  BY <1>t DEF IInv, UidInv, Drawn, TypeOK
<1> QED
  BY <1>4, <1>5, <1>6, <1>7 DEF IInv, WordsInv

LEMMA ClearStep ==
    ASSUME IInv, TypeInv', NEW o \in Ops, ClearObj(o)
    PROVE  IInv'
<1> USE BaseAssumption DEF shared, Goto, Return, ForgetReads, ClearObj
<1>t. TypeOK /\ AskingInv
  BY DEF IInv, TypeInv
<1>1. CountedOps' = CountedOps /\ CountedOps = {}
  BY <1>t DEF IInv, ClearingInv, CountedOps, Counted, TypeOK
<1>2. \A x \in Ops : ~Writing(x)'
  BY <1>t DEF IInv, ClearingInv, Writing, TypeOK
<1>3. ~tag.fin
  BY DEF IInv, FinInv, NobodyWriting, Writing
<1>4. WordsInv'
  BY <1>1, <1>2, <1>3
  DEF IInv, WordsInv, CountInv, FinInv, StoringInv, ClearingInv, QuietInv,
      NobodyWriting, Writing
<1>5. HeldInv'
  BY <1>1, <1>3, <1>t DEF IInv, HeldInv, Counted, CountedOps, Storing, TypeOK
<1>6. ReadInv'
  BY <1>t DEF IInv, ReadInv, NobodyWriting, Writing, TypeOK
<1>7. UidInv'
  BY <1>t DEF IInv, UidInv, Drawn, TypeOK, ZeroTag
<1> QED
  BY <1>4, <1>5, <1>6, <1>7 DEF IInv, WordsInv

\* A commit, or a revert that finds the value finalized: one reservation less,
\* and from now on the count does not matter.
LEMMA CommitStep ==
    ASSUME IInv, TypeInv', NEW o \in Ops,
           Commit(o) \/ (RevertLoadObj(o) /\ pc'[o] = "done")
    PROVE  IInv'
<1> USE BaseAssumption DEF shared, Goto, Retry, Return, ForgetReads
<1>t. TypeOK /\ AskingInv
  BY DEF IInv, TypeInv
<1>1. Counted(o) /\ ~Storing(o) /\ newObj[o] # NullPtr
  BY <1>t DEF Commit, RevertLoadObj, Counted, Storing, AskingInv
<1>2. obj # NullPtr /\ NobodyWriting
  BY <1>1 DEF IInv, HeldInv, StoringInv, ClearingInv, NobodyWriting, Writing,
              CountedOps, Storing
<1>3. /\ tag' = [tag EXCEPT !.fin = TRUE] /\ obj' = obj
      /\ pc' = [pc EXCEPT ![o] = "done"] /\ newObj' = [newObj EXCEPT ![o] = NullPtr]
      /\ newId' = [newId EXCEPT ![o] = NoUid] /\ t' = [t EXCEPT ![o] = ZeroTag]
      /\ current' = [current EXCEPT ![o] = NullPtr]
  <2>1. CASE Commit(o)
    BY <2>1 DEF Commit
  <2>2. CASE RevertLoadObj(o) /\ pc'[o] = "done"
    <3>1. Return(o, "done") /\ is_finalized(t[o]) /\ UNCHANGED shared
      BY <2>2, <1>t DEF RevertLoadObj, TypeOK
    <3>2. tag.fin
      BY <2>2, <3>1 DEF RevertLoadObj, IInv, ReadInv, is_finalized
    <3>3. tag = [tag EXCEPT !.fin = TRUE]
      BY <3>2, <1>t DEF TypeOK, Tags
    <3> QED
      BY <3>1, <3>3
  <2> QED
    BY <2>1, <2>2
<1>4. tag'.fin /\ tag'.id = tag.id /\ tag' \in Tags
  BY <1>3, <1>t DEF TypeOK, Tags
<1>5. \A x \in Ops : ~Writing(x)'
  BY <1>2, <1>3, <1>t DEF NobodyWriting, Writing, TypeOK
<1>6. WordsInv'
  BY <1>2, <1>3, <1>4, <1>5
  DEF WordsInv, CountInv, FinInv, StoringInv, ClearingInv, QuietInv, NobodyWriting,
      Writing
<1>7. HeldInv'
  BY <1>3, <1>4, <1>t DEF IInv, HeldInv, Counted, Storing, TypeOK
<1>8. ReadInv'
  BY <1>3, <1>4, <1>5, <1>t DEF IInv, ReadInv, NobodyWriting, TypeOK
<1>9. UidInv'
  BY <1>3, <1>4, <1>t DEF IInv, UidInv, Drawn, TypeOK, ZeroTag
<1> QED
  BY <1>6, <1>7, <1>8, <1>9 DEF IInv, WordsInv

LEMMA RevertCasStep ==
    ASSUME IInv, TypeInv', NoOverflow, NEW o \in Ops, RevertCasSucceeds(o)
    PROVE  IInv'
<1> USE BaseAssumption DEF shared, Goto, Return, ForgetReads, RevertCasSucceeds
<1>t. TypeOK /\ AskingInv
  BY DEF IInv, TypeInv
<1>1. /\ tag = t[o] /\ ~tag.fin /\ NobodyWriting
      /\ newObj[o] = obj /\ obj # NullPtr
  BY <1>t DEF IInv, ReadInv, HeldInv, AskingInv, Counted, Storing
<1>2. CountedOps' = CountedOps \ {o} /\ o \in CountedOps
  BY <1>t DEF CountedOps, Counted, TypeOK
<1>3. Cardinality(CountedOps') = Cardinality(CountedOps) - 1
  BY <1>2, CountedFinite, FS_RemoveElement
<1>4. Cardinality(CountedOps) <= Cardinality(Ops) /\ Cardinality(CountedOps) # 0
  BY <1>2, FS_Subset, CountedFinite, FS_EmptySet DEF CountedOps
<1>5. tag.count = Cardinality(CountedOps) /\ tag.count < CountMod /\ tag.count # 0
  BY <1>1, <1>4, CountedFinite, FS_CardinalityType DEF IInv, CountInv, NoOverflow
<1>6. (tag.count + CountMod - 1) % CountMod = tag.count - 1
  BY <1>5, SmallMod, CountedFinite
<1>7. tag' = [id |-> newId[o], count |-> tag.count - 1, fin |-> FALSE]
  BY <1>1, <1>6, <1>t DEF TypeOK, Tags, swap_id, remove_inflight
<1>8. CountInv'
  BY <1>3, <1>5, <1>7 DEF CountInv
<1>9. IsFiniteSet(CountedOps')
  BY <1>2, CountedFinite, FS_RemoveElement
<1>10. has_inflight(tag') <=> CountedOps' # {}
  <2>1. Cardinality(CountedOps') = 0 <=> CountedOps' = {}
    BY <1>9, FS_EmptySet
  <2>2. tag'.count = Cardinality(CountedOps')
    BY <1>3, <1>5, <1>7
  <2> QED
    BY <2>1, <2>2 DEF has_inflight
<1>11. \A x \in Ops : Writing(x)' <=> x = o /\ CountedOps' = {}
  BY <1>1, <1>10, <1>t DEF Writing, NobodyWriting, TypeOK
<1>12. FinInv' /\ StoringInv' /\ ClearingInv' /\ QuietInv'
  <2>1. pc'[o] # "storeObj" /\ obj' # NullPtr /\ ~tag'.fin
    BY <1>1, <1>7, <1>t DEF TypeOK
  <2>2. FinInv' /\ StoringInv'
    BY <2>1, <1>11 DEF FinInv, StoringInv, Writing
  <2>3. ClearingInv'
    BY <2>1, <1>11 DEF ClearingInv, Writing
  <2>4. QuietInv'
    BY <2>1, <1>11 DEF QuietInv, NobodyWriting
  <2> QED
    BY <2>2, <2>3, <2>4
<1>13. HeldInv'
  BY <1>1, <1>t DEF IInv, HeldInv, Counted, Storing, TypeOK
<1>14. UidInv'
  BY <1>7, <1>t DEF IInv, UidInv, Drawn, TypeOK, ZeroTag
<1>15. ReadInv'
  <2>1. ASSUME NEW x \in Ops, x # o PROVE tag' # t'[x]
    BY <2>1, <1>7, <1>t DEF IInv, UidInv, Drawn, TypeOK
  <2> QED
    BY <2>1, <1>1, <1>7, <1>t DEF IInv, ReadInv, TypeOK
<1> QED
  BY <1>8, <1>12, <1>13, <1>14, <1>15 DEF IInv

LEMMA RoundStep ==
    ASSUME IInv, TypeInv', RewindRound \/ \E d \in BOOLEAN : CommitRound(d)
    PROVE  IInv'
<1>1. /\ tag' = ZeroTag /\ obj' = NullPtr /\ pc' = [x \in Ops |-> "idle"]
      /\ UNCHANGED <<newObj, newId, t, current>>
  BY DEF RewindRound, CommitRound
<1>2. CountedOps' = {}
  BY <1>1 DEF CountedOps, Counted
<1>3. Cardinality(CountedOps') = 0
  BY <1>2, FS_EmptySet
<1> QED
  BY <1>1, <1>2, <1>3
  DEF IInv, CountInv, FinInv, StoringInv, ClearingInv, QuietInv, HeldInv,
      ReadInv, UidInv, ZeroTag, NobodyWriting, Writing, Storing, Counted, Drawn

LEMMA InvNext == ASSUME NoOverflow PROVE IInv /\ [Next]_vars => IInv'
<1> SUFFICES ASSUME IInv, [Next]_vars PROVE IInv'
  OBVIOUS
<1>0. TypeInv'
  BY TypeNext DEF IInv
<1>1. ASSUME NEW o \in Ops, Step(o) PROVE IInv'
  <2>1. CASE LocalStep(o)
    BY <2>1, <1>0, LocalSteps
  <2>2. CASE CasSucceeds(o)
    BY <2>2, <1>0, CasStep
  <2>3. CASE StoreObj(o)
    BY <2>3, <1>0, StoreStep
  <2>4. CASE Commit(o) \/ (RevertLoadObj(o) /\ pc'[o] = "done")
    BY <2>4, <1>0, CommitStep
  <2>5. CASE RevertCasSucceeds(o)
    BY <2>5, <1>0, RevertCasStep
  <2>6. CASE ClearObj(o)
    BY <2>6, <1>0, ClearStep
  <2> QED
    BY <1>1, <2>1, <2>2, <2>3, <2>4, <2>5, <2>6 DEF Step, LocalStep
<1>2. CASE RewindRound \/ \E d \in BOOLEAN : CommitRound(d)
  BY <1>2, <1>0, RoundStep
<1>3. CASE UNCHANGED vars
  <2>1. CountedOps' = CountedOps
    BY <1>3 DEF CountedOps, Counted, vars, local
  <2> QED
    BY <1>0, <1>3, <2>1
    DEF IInv, CountInv, FinInv, StoringInv, ClearingInv, QuietInv, HeldInv,
        ReadInv, UidInv, NobodyWriting, Writing, Storing, Counted, Drawn, vars,
        local, shared
<1> QED
  BY <1>1, <1>2, <1>3 DEF Next

LEMMA Invariant == ASSUME NoOverflow PROVE Spec => []IInv
BY InvInit, InvNext, PTL DEF Spec

-----------------------------------------------------------------------------
(* What follows from the invariant                                         *)

\* Unless the in-flight count overflows, the tag and the pointer disagree only
\* while a thread is between its compare_exchange and its store, so the retry
\* of a shorn read waits for a store that is coming.
THEOREM ShornReads == ASSUME NoOverflow PROVE Spec => []ShornOnlyWhileWriting
<1>1. ASSUME IInv PROVE ShornOnlyWhileWriting
  <2>1. expect_nonnull(tag) <=> tag.fin \/ CountedOps # {}
    BY <1>1, ExpectNonnull DEF IInv
  <2> QED
    BY <1>1, <2>1
    DEF IInv, QuietInv, ShornOnlyWhileWriting, ShornRead, NobodyWriting
<1>2. IInv => ShornOnlyWhileWriting
  BY <1>1
<1> QED
  BY <1>2, Invariant, PTL

LEMMA AgreedSets ==
    ASSUME IInv
    PROVE  /\ ~expect_nonnull(tag) => AgreedValues = {}
           /\ expect_nonnull(tag) /\ obj # NullPtr => AgreedValues = {obj}
           /\ \A o \in Ops : Storing(o) => AgreedValues = {newObj[o]}
<1>t. TypeOK /\ AskingInv
  BY DEF IInv, TypeInv
<1>1. ASSUME NEW o \in Ops, Storing(o)
      PROVE  /\ obj = NullPtr /\ newObj[o] \in Values /\ expect_nonnull(tag)
             /\ \A x \in Ops : Storing(x) => x = o
  BY <1>1, <1>t, ExpectNonnull
  DEF IInv, StoringInv, AskingInv, Storing, Writing, TypeOK, Pointers
<1>2. ASSUME NEW o \in Ops, Storing(o) PROVE AgreedValues = {newObj[o]}
  BY <1>1, <1>2, BaseAssumption DEF AgreedValues
<1>3. ~expect_nonnull(tag) => AgreedValues = {}
  BY DEF AgreedValues
<1>4. expect_nonnull(tag) /\ obj # NullPtr => AgreedValues = {obj}
  BY <1>1, <1>t DEF AgreedValues, TypeOK, Pointers
<1> QED
  BY <1>2, <1>3, <1>4

\* All the reservations that stand at one time are for one agreed value, for
\* any number of reservations that the in-flight count can hold.
THEOREM ReservationsAgree == ASSUME NoOverflow PROVE Spec => []Agreement
<1>1. ASSUME IInv PROVE Agreement
  <2>t. TypeOK /\ AskingInv
    BY <1>1 DEF IInv, TypeInv
  <2>1. ASSUME NEW o \in Ops, Counted(o) PROVE AgreedValues = {newObj[o]}
    <3>1. CASE Storing(o)
      BY <1>1, <3>1, AgreedSets
    <3>2. CASE ~Storing(o)
      <4>1. newObj[o] = obj /\ obj # NullPtr /\ expect_nonnull(tag)
        BY <1>1, <2>1, <2>t, <3>2, ExpectNonnull
        DEF IInv, HeldInv, AskingInv, CountedOps, Counted
      <4> QED
        BY <1>1, <4>1, AgreedSets
    <3> QED
      BY <3>1, <3>2
  <2> QED
    BY <1>1, <2>1 DEF Agreement, IInv, HeldInv
<1>2. IInv => Agreement
  BY <1>1
<1> QED
  BY <1>2, Invariant, PTL

\* commit_round_and_reset installs a value if and only if a transaction of the
\* round has committed it.
THEOREM CommittedSurvives ==
    ASSUME NoOverflow PROVE Spec => []OnlyCommittedSurvives
<1>1. ASSUME IInv, Quiescent PROVE obj # NullPtr <=> tag.fin
  <2>1. CountedOps = {} /\ NobodyWriting
    BY <1>1 DEF Quiescent, CountedOps, Counted, NobodyWriting, Writing
  <2> QED
    BY <1>1, <2>1 DEF IInv, QuietInv
<1>2. IInv => OnlyCommittedSurvives
  BY <1>1 DEF OnlyCommittedSurvives
<1> QED
  BY <1>2, Invariant, PTL

\* Within a round no step replaces the pointer by another one, and none changes
\* it, or takes the finalized flag back, after a commit.
THEOREM PointerIsStable == ASSUME NoOverflow PROVE Spec => PointerStable
<1> DEFINE A == ~Quiescent => /\ NullPtr \in {obj, obj'} \/ obj' = obj
                              /\ tag.fin => obj' = obj /\ tag'.fin
<1>1. ASSUME IInv, [Next]_vars PROVE [A]_<<tag, obj>>
  <2> SUFFICES ASSUME ~Quiescent, ~UNCHANGED <<tag, obj>>
               PROVE  /\ NullPtr \in {obj, obj'} \/ obj' = obj
                      /\ tag.fin => obj' = obj /\ tag'.fin
    OBVIOUS
  <2>t. TypeOK
    BY <1>1 DEF IInv, TypeInv
  <2>1. ~UNCHANGED vars
    BY DEF vars, shared
  <2>2. PICK o \in Ops : \/ CasSucceeds(o) \/ StoreObj(o) \/ Commit(o)
                         \/ RevertCasSucceeds(o) \/ ClearObj(o)
    BY <1>1, <2>1
    DEF Next, Step, TrySet, TrySetWrongType, LoadTag, LoadObj, CasFails, Release,
        Revert, RevertLoadTag, RevertLoadObj, RevertCasFails, CommitRound,
        RewindRound, shared
  <2>3. CASE CasSucceeds(o) \/ RevertCasSucceeds(o)
    BY <1>1, <2>3 DEF CasSucceeds, RevertCasSucceeds, IInv, ReadInv
  <2>4. CASE StoreObj(o)
    BY <1>1, <2>4 DEF StoreObj, IInv, StoringInv, FinInv
  <2>5. CASE Commit(o)
    BY <2>5, <2>t DEF Commit, TypeOK, Tags
  <2>6. CASE ClearObj(o)
    BY <1>1, <2>6 DEF ClearObj, IInv, FinInv, NobodyWriting, Writing
  <2> QED
    BY <2>2, <2>3, <2>4, <2>5, <2>6
<1> QED
  BY <1>1, Invariant, PTL DEF Spec, PointerStable

-----------------------------------------------------------------------------
(* RevertableBase implements AgreedBase                                    *)

\* The agreed value, read off the two words.
ValueInv ==
    /\ expect_nonnull(tag) <=> tag.fin \/ CountedOps # {}
    /\ AgreedValues = {AgreedValue} \ {NullPtr}
    /\ ~expect_nonnull(tag) => AgreedValue = NullPtr
    /\ expect_nonnull(tag) /\ obj # NullPtr => AgreedValue = obj
    /\ \A o \in Ops : Storing(o) => AgreedValue = newObj[o]

\* What a call has seen agreed on while it was trying includes the value that
\* is agreed on now, and the one whose pointer a consistent read returns.
SeenInv ==
    \A o \in Ops :
        /\ Trying(o) => AgreedValues \subseteq seen[o]
        /\ pc[o] = "loadObj" /\ expect_nonnull(t[o]) /\ obj # NullPtr
              => obj \in seen[o]
        /\ ~Trying(o) => seen[o] = {}

RefInv == IInv /\ ValueInv /\ SeenInv

LEMMA ValueFacts == IInv => ValueInv
<1> SUFFICES ASSUME IInv PROVE ValueInv
  OBVIOUS
<1>t. TypeOK /\ AskingInv
  BY DEF IInv, TypeInv
<1>1. expect_nonnull(tag) <=> tag.fin \/ CountedOps # {}
  BY ExpectNonnull DEF IInv
<1>2. AgreedValues = {} => AgreedValue = NullPtr
  BY DEF AgreedValue
<1>3. ASSUME NEW v \in Values, AgreedValues = {v} PROVE AgreedValue = v
  BY <1>3 DEF AgreedValue
<1>4. expect_nonnull(tag) /\ obj # NullPtr => AgreedValue = obj /\ obj \in Values
  BY <1>3, <1>t, AgreedSets DEF TypeOK, Pointers
<1>5. ASSUME NEW o \in Ops, Storing(o)
      PROVE  AgreedValue = newObj[o] /\ newObj[o] \in Values
  <2>1. newObj[o] \in Values
    BY <1>5, <1>t DEF AskingInv, Storing, TypeOK, Pointers
  <2> QED
    BY <1>3, <1>5, <2>1, AgreedSets
<1>6. expect_nonnull(tag) /\ obj = NullPtr => \E o \in Ops : Storing(o)
  <2> SUFFICES ASSUME expect_nonnull(tag), obj = NullPtr
               PROVE  \E o \in Ops : Storing(o)
    OBVIOUS
  <2>1. PICK o \in Ops : Writing(o)
    BY <1>1 DEF IInv, QuietInv, NobodyWriting
  <2> QED
    BY <2>1 DEF IInv, ClearingInv, Writing, Storing
<1>7. AgreedValues = {AgreedValue} \ {NullPtr}
  BY <1>2, <1>4, <1>5, <1>6, AgreedSets, BaseAssumption
<1> QED
  BY <1>1, <1>2, <1>4, <1>5, <1>7, AgreedSets DEF ValueInv

LEMMA StatusStep ==
    ASSUME TypeOK, NEW o \in Ops, NEW l \in Labels, pc' = [pc EXCEPT ![o] = l]
    PROVE  Status' = [Status EXCEPT ![o] =
              IF l \in {"loop", "loadObj", "cas"} THEN "trying"
              ELSE IF l \in {"storeObj", "held", "rloop", "rloadObj", "rcas"}
              THEN "held" ELSE IF l = "clearObj" THEN "done" ELSE l]
BY DEF Status, Trying, Counted, TypeOK

\* The agreed value is a function of the tag, the pointer and the stores that
\* are still to come.
LEMMA SameValues ==
    ASSUME UNCHANGED <<tag, obj>>,
           \A x \in Ops : /\ Storing(x)' <=> Storing(x)
                          /\ Storing(x) => newObj'[x] = newObj[x]
    PROVE  AgreedValues' = AgreedValues /\ AgreedValue' = AgreedValue
<1>1. AgreedValues' = AgreedValues
  BY DEF AgreedValues, expect_nonnull
<1> QED
  BY <1>1 DEF AgreedValue

LEMMA LocalValues ==
    ASSUME TypeOK, NEW o \in Ops, LocalStep(o)
    PROVE  AgreedValues' = AgreedValues /\ AgreedValue' = AgreedValue
<1>1. UNCHANGED <<tag, obj>>
  BY DEF LocalStep, TrySet, TrySetWrongType, LoadTag, LoadObj, CasFails, Release,
         Revert, RevertLoadTag, RevertCasFails, RevertLoadObj, shared
<1>2. \A x \in Ops : /\ Storing(x)' <=> Storing(x)
                     /\ Storing(x) => newObj'[x] = newObj[x]
  BY DEF LocalStep, TrySet, TrySetWrongType, LoadTag, LoadObj, CasFails, Release,
         Revert, RevertLoadTag, RevertCasFails, RevertLoadObj, Storing, Goto,
         Retry, Return, TypeOK
<1> QED
  BY <1>1, <1>2, SameValues

LEMMA SeenInit == Init => SeenInv
BY DEF Init, SeenInv, Trying, AgreedValues, expect_nonnull, ZeroTag

\* The history of the values seen, step by step.
LEMMA SeenNext ==
    ASSUME RefInv, IInv', ValueInv', [Next]_vars
    PROVE  SeenInv'
<1> USE DEF shared, Goto, Retry, Return, ForgetReads
<1>t. TypeOK /\ AskingInv
  BY DEF RefInv, IInv, TypeInv
<1>1. ASSUME NEW o \in Ops, LocalStep(o) PROVE SeenInv'
  <2>1. AgreedValues' = AgreedValues /\ UNCHANGED <<tag, obj>>
    BY <1>1, <1>t, LocalValues
    DEF LocalStep, TrySet, TrySetWrongType, LoadTag, LoadObj, CasFails, Release,
        Revert, RevertLoadTag, RevertCasFails, RevertLoadObj
  <2>2. CASE LoadTag(o)
    <3>1. expect_nonnull(tag) /\ obj # NullPtr => obj \in AgreedValues
      BY DEF RefInv, ValueInv
    <3> QED
      BY <2>1, <2>2, <3>1, <1>t
      DEF RefInv, SeenInv, LoadTag, Trying, TypeOK, expect_nonnull
  <2>3. CASE \E v \in Values : TrySet(o, v)
    BY <2>1, <2>3, <1>t DEF RefInv, SeenInv, TrySet, Trying, TypeOK, expect_nonnull
  <2>4. CASE LoadObj(o)
    BY <2>1, <2>4, <1>t DEF RefInv, SeenInv, LoadObj, Trying, TypeOK, expect_nonnull
  <2>5. CASE \/ \E v \in Values : TrySetWrongType(o, v)
             \/ CasFails(o) \/ Release(o) \/ Revert(o)
             \/ RevertLoadTag(o) \/ RevertCasFails(o)
             \/ RevertLoadObj(o) /\ pc'[o] # "done"
    BY <2>1, <2>5, <1>t
    DEF RefInv, SeenInv, TrySetWrongType, CasFails, Release, Revert, RevertLoadTag,
        RevertCasFails, RevertLoadObj, Trying, TypeOK, expect_nonnull
  <2> QED
    BY <1>1, <2>2, <2>3, <2>4, <2>5 DEF LocalStep
<1>2. ASSUME NEW o \in Ops, CasSucceeds(o) PROVE SeenInv'
  <2>1. AgreedValues' = {newObj[o]}
    <3>1. Counted(o)' /\ o \in CountedOps'
      BY <1>2, <1>t DEF CasSucceeds, Counted, CountedOps, TypeOK
    <3>2. expect_nonnull(tag)'
      BY <3>1 DEF ValueInv
    <3>3. AgreedValue' = newObj'[o] /\ newObj'[o] # NullPtr /\ newObj'[o] = newObj[o]
      <4>1. newObj'[o] = newObj[o] /\ newObj[o] # NullPtr
        BY <1>2, <1>t DEF CasSucceeds, AskingInv
      <4>2. CASE Storing(o)'
        BY <4>1, <4>2 DEF ValueInv
      <4>3. CASE ~Storing(o)'
        <5>1. newObj'[o] = obj'
          BY <3>1, <4>3 DEF IInv, HeldInv
        <5> QED
          BY <4>1, <5>1, <3>2 DEF ValueInv
      <4> QED
        BY <4>1, <4>2, <4>3
    <3> QED
      BY <3>3 DEF ValueInv
  <2> QED
    BY <1>2, <2>1, <1>t
    DEF RefInv, SeenInv, CasSucceeds, Trying, TypeOK, expect_nonnull
<1>3. ASSUME NEW o \in Ops, StoreObj(o) PROVE SeenInv'
  <2>1. /\ AgreedValues = {newObj[o]} /\ newObj[o] # NullPtr
        /\ obj' = newObj[o] /\ expect_nonnull(tag)
    BY <1>3, <1>t
    DEF StoreObj, RefInv, ValueInv, Storing, AskingInv, IInv, StoringInv
  <2>2. AgreedValues' = AgreedValues
    BY <1>3, <2>1 DEF StoreObj, ValueInv, expect_nonnull
  <2> QED
    BY <1>3, <2>1, <2>2, <1>t
    DEF RefInv, SeenInv, StoreObj, Trying, TypeOK, expect_nonnull
<1>4. ASSUME NEW o \in Ops,
             \/ Commit(o) \/ RevertCasSucceeds(o) \/ ClearObj(o)
             \/ RevertLoadObj(o) /\ pc'[o] = "done"
      PROVE  SeenInv'
  <2>1. AgreedValues' \subseteq AgreedValues
    <3>1. CASE Commit(o) \/ RevertCasSucceeds(o) \/ RevertLoadObj(o)
      <4>1. /\ expect_nonnull(tag) /\ obj # NullPtr /\ obj' = obj
            /\ \A x \in Ops : ~Storing(x)
        BY <3>1, <1>t
        DEF Commit, RevertCasSucceeds, RevertLoadObj, RefInv, ValueInv, IInv,
            HeldInv, AskingInv, CountedOps, Counted, Storing, StoringInv
      <4> QED
        BY <4>1 DEF RefInv, ValueInv
    <3>2. CASE ClearObj(o)
      <4>1. ~expect_nonnull(tag) /\ tag' = tag
        BY <3>2 DEF ClearObj, RefInv, ValueInv, IInv, ClearingInv, FinInv,
                    NobodyWriting, Writing
      <4> QED
        BY <4>1 DEF AgreedValues, expect_nonnull
    <3> QED
      BY <1>4, <3>1, <3>2
  <2>2. obj' \in {obj, NullPtr}
    BY <1>4 DEF Commit, RevertCasSucceeds, ClearObj, RevertLoadObj
  <2>3. /\ pc' \in {[pc EXCEPT ![o] = "done"], [pc EXCEPT ![o] = "clearObj"]}
        /\ t' = [t EXCEPT ![o] = ZeroTag] /\ seen' = [seen EXCEPT ![o] = {}]
    BY <1>4, <1>t DEF Commit, RevertCasSucceeds, ClearObj, RevertLoadObj, TypeOK
  <2> QED
    BY <2>1, <2>2, <2>3, <1>t DEF RefInv, SeenInv, Trying, TypeOK, expect_nonnull
<1>5. ASSUME RewindRound \/ \E d \in BOOLEAN : CommitRound(d) PROVE SeenInv'
  BY <1>5, <1>t
  DEF RewindRound, CommitRound, RefInv, SeenInv, Trying, Quiescent, TypeOK
<1>6. CASE UNCHANGED vars
  BY <1>6, SameValues DEF RefInv, SeenInv, Trying, Storing, vars, local, expect_nonnull
<1> QED
  BY <1>1, <1>2, <1>3, <1>4, <1>5, <1>6 DEF Next, Step, LocalStep

\* The steps of AgreedBase that the steps of the code stand for.
LEMMA AbstractStep ==
    ASSUME RefInv, IInv', ValueInv', SeenInv', [Next]_vars
    PROVE  [Abstract!Next]_(Abstract!vars)
<1> USE DEF shared, Goto, Retry, Return, ForgetReads, Abstract!vars
<1>t. TypeOK /\ AskingInv
  BY DEF RefInv, IInv, TypeInv
<1>st. \A o \in Ops : /\ Status[o] = "trying" <=> Trying(o)
                      /\ Status[o] = "held" <=> Counted(o)
                      /\ Status[o] = "free" <=> pc[o] = "free"
                      /\ Status[o] = "idle" <=> pc[o] = "idle"
                      /\ Status[o] \in {"idle", "done"}
                            <=> pc[o] \in {"idle", "done", "clearObj"}
  BY <1>t DEF Status, Trying, Counted, TypeOK, Labels
<1>1. ASSUME NEW o \in Ops, NEW v \in Values, TrySet(o, v) PROVE Abstract!Begin(o, v)
  <2>1. Status' = [Status EXCEPT ![o] = "trying"]
    BY <1>1, <1>t, StatusStep DEF TrySet, Labels
  <2>2. AgreedValue' = AgreedValue
    BY <1>1, <1>t, LocalValues DEF LocalStep
  <2>3. AgreedValues = {AgreedValue} \ {NullPtr}
    BY DEF RefInv, ValueInv
  <2> QED
    BY <1>1, <1>st, <2>1, <2>2, <2>3 DEF TrySet, Abstract!Begin
<1>2. ASSUME NEW o \in Ops, NEW v \in Values, TrySetWrongType(o, v)
      PROVE  Abstract!RejectType(o)
  <2>1. Status' = [Status EXCEPT ![o] = "done"]
    BY <1>2, <1>t, StatusStep DEF TrySetWrongType, Labels
  <2>2. AgreedValue' = AgreedValue
    BY <1>2, <1>t, LocalValues DEF LocalStep
  <2> QED
    BY <1>2, <1>st, <2>1, <2>2 DEF TrySetWrongType, Abstract!RejectType
<1>3. ASSUME NEW o \in Ops, LoadTag(o) \/ CasFails(o) PROVE UNCHANGED Abstract!vars
  <2>1. Status' = Status
    BY <1>3, <1>t DEF LoadTag, CasFails, Status, Trying, Counted, TypeOK
  <2>2. AgreedValue' = AgreedValue
    BY <1>3, <1>t, LocalValues DEF LocalStep
  <2> QED
    BY <1>3, <2>1, <2>2 DEF LoadTag, CasFails
<1>4. ASSUME NEW o \in Ops, Revert(o) \/ RevertLoadTag(o) \/ RevertCasFails(o)
      PROVE  UNCHANGED Abstract!vars
  <2>1. Status' = Status
    BY <1>4, <1>t DEF Revert, RevertLoadTag, RevertCasFails, Status, Trying, Counted,
                      TypeOK
  <2>2. AgreedValue' = AgreedValue
    BY <1>4, <1>t, LocalValues DEF LocalStep
  <2> QED
    BY <1>4, <2>1, <2>2 DEF Revert, RevertLoadTag, RevertCasFails
<1>5. ASSUME NEW o \in Ops, LoadObj(o)
      PROVE  \/ UNCHANGED Abstract!vars
             \/ Abstract!Reject(o) \/ Abstract!ReserveFinal(o)
  <2>1. AgreedValue' = AgreedValue
    BY <1>5, <1>t, LocalValues DEF LocalStep
  <2>2. Status[o] = "trying"
    BY <1>5, <1>st DEF LoadObj, Trying
  <2>3. CASE Retry(o, "loop")
    <3>1. Status' = Status
      BY <1>5, <2>3, <1>t DEF LoadObj, Status, Trying, Counted, TypeOK
    <3> QED
      BY <1>5, <2>1, <2>3, <3>1 DEF LoadObj
  <2>4. CASE Goto(o, "cas") /\ UNCHANGED <<newObj, seen>>
    <3>1. Status' = Status
      BY <1>5, <2>4, <1>t DEF LoadObj, Status, Trying, Counted, TypeOK
    <3> QED
      BY <1>5, <2>1, <2>4, <3>1 DEF LoadObj
  <2>5. CASE /\ ~ShornRead(t[o], obj) /\ obj \notin {NullPtr, newObj[o]}
             /\ Return(o, "done")
    <3>1. obj \in seen[o]
      BY <1>5, <2>5 DEF LoadObj, RefInv, SeenInv, ShornRead
    <3>2. Status' = [Status EXCEPT ![o] = "done"]
      BY <2>5, <1>t, StatusStep DEF Labels
    <3> QED
      BY <1>5, <2>1, <2>2, <2>5, <3>1, <3>2
      DEF LoadObj, Abstract!Reject, Abstract!Finish
  <2>6. CASE /\ obj = newObj[o] /\ is_finalized(t[o])
             /\ Return(o, "free")
    <3>1. tag.fin /\ obj # NullPtr
      BY <1>5, <2>6 DEF LoadObj, RefInv, IInv, ReadInv, FinInv, is_finalized
    <3>2. AgreedValue = newObj[o]
      BY <2>6, <3>1 DEF RefInv, ValueInv
    <3>3. Status' = [Status EXCEPT ![o] = "free"]
      BY <2>6, <1>t, StatusStep DEF Labels
    <3> QED
      BY <1>5, <2>1, <2>2, <2>6, <3>1, <3>2, <3>3 DEF LoadObj, Abstract!ReserveFinal
  <2> QED
    BY <1>5, <2>3, <2>4, <2>5, <2>6 DEF LoadObj
<1>6. ASSUME NEW o \in Ops, CasSucceeds(o) PROVE Abstract!Reserve(o)
  <2>1. /\ tag = t[o] /\ ~tag.fin /\ ~tag'.fin /\ NobodyWriting
        /\ obj \in {NullPtr, newObj[o]} /\ newObj[o] # NullPtr
    BY <1>6, <1>t
    DEF CasSucceeds, RefInv, IInv, ReadInv, AskingInv, TypeOK, Tags, swap_id,
        add_inflight
  <2>2. AgreedValue \in {NullPtr, newObj[o]}
    BY <2>1 DEF RefInv, ValueInv, IInv, QuietInv
  <2>3. AgreedValue' = newObj[o]
    <3>1. Counted(o)' /\ o \in CountedOps' /\ newObj' = newObj
      BY <1>6, <1>t DEF CasSucceeds, Counted, CountedOps, TypeOK
    <3>2. CASE Storing(o)'
      BY <3>1, <3>2 DEF ValueInv
    <3>3. CASE ~Storing(o)'
      BY <2>1, <3>1, <3>3 DEF ValueInv, IInv, HeldInv
    <3> QED
      BY <3>2, <3>3
  <2>4. Status' = [Status EXCEPT ![o] = "held"]
    <3> DEFINE l == IF current[o] = NullPtr THEN "storeObj" ELSE "held"
    <3>1. pc' = [pc EXCEPT ![o] = l] /\ l \in {"storeObj", "held"} /\ l \in Labels
      BY <1>6 DEF CasSucceeds, Labels
    <3> HIDE DEF l
    <3> QED
      BY <1>t, <3>1, StatusStep
  <2>5. seen' = [x \in Ops |-> IF x # o /\ Status[x] = "trying"
                                  THEN seen[x] \cup {newObj[o]}
                                  ELSE IF x = o THEN {} ELSE seen[x]]
    BY <1>6, <1>st DEF CasSucceeds
  <2>6. Status[o] = "trying" /\ UNCHANGED <<newObj, base>>
    BY <1>6, <1>st DEF CasSucceeds, Trying
  <2>7. tag'.fin = tag.fin
    BY <1>6, <2>1, <1>t DEF CasSucceeds, TypeOK, Tags, swap_id, add_inflight
  <2> QED
    BY <2>1, <2>2, <2>3, <2>4, <2>5, <2>6, <2>7 DEF Abstract!Reserve
<1>7. ASSUME NEW o \in Ops, StoreObj(o) PROVE UNCHANGED Abstract!vars
  <2>1. Status' = Status
    BY <1>7, <1>t DEF StoreObj, Status, Trying, Counted, TypeOK
  <2>2. AgreedValue = newObj[o] /\ newObj[o] # NullPtr /\ expect_nonnull(tag)
    BY <1>7, <1>t
    DEF StoreObj, RefInv, ValueInv, Storing, AskingInv, IInv, StoringInv
  <2>3. AgreedValue' = newObj[o]
    BY <1>7, <2>2 DEF StoreObj, ValueInv, expect_nonnull
  <2> QED
    BY <1>7, <2>1, <2>2, <2>3 DEF StoreObj
<1>8. ASSUME NEW o \in Ops, Commit(o) PROVE Abstract!Commit(o)
  <2>1. Status' = [Status EXCEPT ![o] = "done"]
    BY <1>8, <1>t, StatusStep DEF Commit, Labels
  <2>2. obj # NullPtr /\ expect_nonnull(tag) /\ Status[o] = "held"
    BY <1>8, <1>t, <1>st
    DEF Commit, RefInv, IInv, HeldInv, AskingInv, Counted, Storing, CountedOps,
        ValueInv
  <2>3. tag'.fin = TRUE /\ obj' = obj
    BY <1>8, <1>t DEF Commit, TypeOK, Tags
  <2>4. AgreedValue' = AgreedValue
    BY <2>2, <2>3 DEF RefInv, ValueInv
  <2> QED
    BY <1>8, <2>1, <2>2, <2>3, <2>4 DEF Commit, Abstract!Commit, Abstract!Finish
<1>9. ASSUME NEW o \in Ops, Release(o) PROVE Abstract!Release(o)
  <2>1. Status' = [Status EXCEPT ![o] = "done"]
    BY <1>9, <1>t, StatusStep DEF Release, Labels
  <2>2. AgreedValue' = AgreedValue
    BY <1>9, <1>t, LocalValues DEF LocalStep
  <2> QED
    BY <1>9, <1>st, <2>1, <2>2 DEF Release, Abstract!Release, Abstract!Finish
<1>10. ASSUME NEW o \in Ops, RevertLoadObj(o), pc'[o] # "done"
       PROVE  UNCHANGED Abstract!vars
  <2>1. Status' = Status /\ UNCHANGED <<newObj, seen, tag, base>>
    BY <1>10, <1>t DEF RevertLoadObj, Status, Trying, Counted, TypeOK
  <2>2. AgreedValue' = AgreedValue
    BY <1>10, <1>t, LocalValues DEF LocalStep
  <2> QED
    BY <2>1, <2>2
<1>11. ASSUME NEW o \in Ops, RevertLoadObj(o), pc'[o] = "done" PROVE Abstract!Revert(o)
  <2>1. Return(o, "done") /\ is_finalized(t[o]) /\ UNCHANGED shared
    BY <1>11, <1>t DEF RevertLoadObj, TypeOK
  <2>2. tag.fin /\ obj # NullPtr /\ Status[o] = "held"
    BY <1>11, <1>st, <2>1
    DEF RevertLoadObj, RefInv, IInv, ReadInv, FinInv, is_finalized, Counted
  <2>3. AgreedValue' = AgreedValue
    BY <2>1, <2>2 DEF RefInv, ValueInv, expect_nonnull
  <2>4. Status' = [Status EXCEPT ![o] = "done"]
    BY <2>1, <1>t, StatusStep DEF Labels
  <2> QED
    BY <2>1, <2>2, <2>3, <2>4 DEF Abstract!Revert, Abstract!Finish
<1>12. ASSUME NEW o \in Ops, RevertCasSucceeds(o) PROVE Abstract!Revert(o)
  <2>1. /\ tag = t[o] /\ ~tag.fin /\ tag'.fin = tag.fin /\ NobodyWriting
        /\ obj = newObj[o] /\ obj # NullPtr /\ obj' = obj /\ Counted(o)
    BY <1>12, <1>t
    DEF RevertCasSucceeds, RefInv, IInv, ReadInv, HeldInv, AskingInv, TypeOK, Tags,
        swap_id, remove_inflight, Counted, Storing
  <2>2. Status' = [Status EXCEPT ![o] = "done"]
    <3> DEFINE l == IF has_inflight(tag') THEN "done" ELSE "clearObj"
    <3>1. pc' = [pc EXCEPT ![o] = l] /\ l \in {"done", "clearObj"} /\ l \in Labels
      BY <1>12 DEF RevertCasSucceeds, Labels
    <3> HIDE DEF l
    <3> QED
      BY <1>t, <3>1, StatusStep
  <2>3. AgreedValue = obj
    BY <2>1 DEF RefInv, ValueInv, CountedOps
  <2>4. CountedOps' = CountedOps \ {o}
    BY <1>12, <1>t DEF RevertCasSucceeds, CountedOps, Counted, TypeOK
  <2>5. (\A x \in Ops \ {o} : Status[x] # "held") <=> CountedOps' = {}
    BY <1>st, <2>4 DEF CountedOps
  <2>6. AgreedValue' = IF CountedOps' = {} THEN NullPtr ELSE AgreedValue
    BY <2>1, <2>3 DEF ValueInv
  <2>7. /\ newObj' = [newObj EXCEPT ![o] = NullPtr] /\ UNCHANGED base
        /\ seen' = [seen EXCEPT ![o] = {}]
    BY <1>12 DEF RevertCasSucceeds
  <2> QED
    BY <1>st, <2>1, <2>2, <2>5, <2>6, <2>7 DEF Abstract!Revert, Abstract!Finish
<1>13. ASSUME NEW o \in Ops, ClearObj(o) PROVE UNCHANGED Abstract!vars
  <2>1. Status' = Status
    BY <1>13, <1>t DEF ClearObj, Status, Trying, Counted, TypeOK
  <2>2. newObj' = newObj /\ seen' = seen
    BY <1>13, <1>t DEF ClearObj, AskingInv, RefInv, SeenInv, Trying, TypeOK
  <2>3. ~expect_nonnull(tag) /\ tag' = tag
    BY <1>13 DEF ClearObj, RefInv, ValueInv, IInv, ClearingInv, FinInv,
                 NobodyWriting, Writing
  <2>4. AgreedValue' = AgreedValue
    BY <2>3 DEF RefInv, ValueInv, expect_nonnull
  <2> QED
    BY <1>13, <2>1, <2>2, <2>3, <2>4 DEF ClearObj
<1>14. ASSUME RewindRound \/ \E d \in BOOLEAN : CommitRound(d)
       PROVE  Abstract!RewindRound \/ Abstract!CommitRound
  <2>1. /\ Status' = [o \in Ops |-> "idle"]
        /\ \A o \in Ops : Status[o] \in {"idle", "done"}
    BY <1>14, <1>st
    DEF RewindRound, CommitRound, Status, Trying, Counted, Quiescent
  <2>2. AgreedValue' = NullPtr /\ tag'.fin = FALSE /\ UNCHANGED <<newObj, seen>>
    BY <1>14 DEF RewindRound, CommitRound, ValueInv, ZeroTag, expect_nonnull
  <2>3. CountedOps = {} /\ NobodyWriting
    BY <1>14 DEF RewindRound, CommitRound, Quiescent, CountedOps, Counted,
                 NobodyWriting, Writing
  <2>4. obj = IF tag.fin THEN AgreedValue ELSE NullPtr
    BY <2>3 DEF RefInv, IInv, QuietInv, ValueInv
  <2>5. CASE RewindRound
    BY <2>1, <2>2, <2>5 DEF RewindRound, Abstract!RewindRound, Abstract!EndRound
  <2>6. CASE \E d \in BOOLEAN : CommitRound(d)
    BY <2>1, <2>2, <2>4, <2>6 DEF CommitRound, Abstract!CommitRound, Abstract!EndRound
  <2> QED
    BY <1>14, <2>5, <2>6
<1>15. ASSUME UNCHANGED vars PROVE UNCHANGED Abstract!vars
  <2>1. Status' = Status
    BY <1>15 DEF Status, Trying, Counted, vars, local
  <2>2. AgreedValue' = AgreedValue
    BY <1>15, SameValues DEF Storing, vars, local
  <2> QED
    BY <1>15, <2>1, <2>2 DEF vars, local
<1>16. ASSUME NEW o \in Ops, Step(o) PROVE [Abstract!Next]_(Abstract!vars)
  <2>1. CASE \E v \in Values : TrySet(o, v) \/ TrySetWrongType(o, v)
    BY <2>1, <1>1, <1>2 DEF Abstract!Next, Abstract!Step
  <2>2. CASE LoadTag(o) \/ CasFails(o) \/ Revert(o) \/ RevertLoadTag(o)
             \/ RevertCasFails(o) \/ StoreObj(o) \/ ClearObj(o)
    BY <2>2, <1>3, <1>4, <1>7, <1>13
  <2>3. CASE LoadObj(o)
    BY <2>3, <1>5 DEF Abstract!Next, Abstract!Step
  <2>4. CASE CasSucceeds(o) \/ Commit(o) \/ Release(o) \/ RevertCasSucceeds(o)
    BY <2>4, <1>6, <1>8, <1>9, <1>12 DEF Abstract!Next, Abstract!Step
  <2>5. CASE RevertLoadObj(o)
    BY <2>5, <1>10, <1>11 DEF Abstract!Next, Abstract!Step
  <2> QED
    BY <1>16, <2>1, <2>2, <2>3, <2>4, <2>5 DEF Step
<1> QED
  BY <1>14, <1>15, <1>16 DEF Next, Abstract!Next

LEMMA AbstractInit == ASSUME Init, ValueInv PROVE Abstract!Init
<1>1. Status = [o \in Ops |-> "idle"]
  BY DEF Init, Status, Trying, Counted
<1>2. AgreedValue = NullPtr
  BY DEF Init, ValueInv, expect_nonnull, ZeroTag
<1> QED
  BY <1>1, <1>2 DEF Init, Abstract!Init, ZeroTag

\* The loads, compare_exchanges and stores of try_set, commit and revert act
\* like single steps: the protocol implements AgreedBase as long as a block
\* makes fewer reservations on the object than the in-flight count can hold.
THEOREM Refinement == ASSUME NoOverflow PROVE Spec => ImplementsAgreedBase
<1>1. Init => RefInv /\ Abstract!Init
  BY InvInit, ValueFacts, SeenInit, AbstractInit DEF RefInv
<1>2. IInv' => ValueInv'
  BY ValueFacts, PTL
<1>3. RefInv /\ [Next]_vars => RefInv' /\ [Abstract!Next]_(Abstract!vars)
  <2> SUFFICES ASSUME RefInv, [Next]_vars
               PROVE  RefInv' /\ [Abstract!Next]_(Abstract!vars)
    OBVIOUS
  <2>1. IInv' /\ ValueInv'
    BY <1>2, InvNext DEF RefInv
  <2>2. SeenInv'
    BY <2>1, SeenNext
  <2> QED
    BY <2>1, <2>2, AbstractStep DEF RefInv
<1> QED
  BY <1>1, <1>3, PTL DEF Spec, ImplementsAgreedBase, Abstract!Spec
=============================================================================
