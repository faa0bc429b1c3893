---------------------------- MODULE HashSetUtils ----------------------------
(***************************************************************************)
(* normalize_hashset and clear_hashset (hash_set/utils.h): the end of a    *)
(* block sorts the elements of a hash set object in descending order and,  *)
(* when a transaction cleared the set, drops those whose index is at most  *)
(* the threshold, by a binary search for the first of them.                *)
(*                                                                         *)
(* An element is its index: elements of one index differ in their hashes,  *)
(* which the search does not read.  C++ positions begin at 0: h_list[p] is *)
(* list[p + 1] here.                                                       *)
(***************************************************************************)
EXTENDS Naturals, Sequences

CONSTANTS Indices,   \* the indices of elements
          MaxLen     \* the longest list

ASSUME IndicesAssumption == Indices \subseteq Nat /\ MaxLen \in Nat

VARIABLES list,       \* h_list
          normalized, \* history: h_list as normalize_hashset left it
          threshold,
          min, max, med,
          stage          \* sort -> search -> (test -> search)* -> done

search_vars == <<list, normalized, threshold, min, max, med, stage>>

Lists == UNION {[1 .. n -> Indices] : n \in 0 .. MaxLen}

SearchInit ==
    /\ list \in Lists
    /\ normalized = <<>>
    /\ threshold \in Indices
    /\ min = 0 /\ max = 0 /\ med = 0
    /\ stage = "sort"

Descending(s) == \A i, j \in DOMAIN s : i < j => s[i] >= s[j]

\* The orders in which the elements of s can be put.
Renumberings(s) ==
    {p \in [DOMAIN s -> DOMAIN s] : \A i, j \in DOMAIN s : i # j => p[i] # p[j]}

\* std::sort with std::greater, then the locals of clear_hashset.
normalize_hashset ==
    /\ stage = "sort"
    /\ \E p \in Renumberings(list) : list' = [i \in DOMAIN list |-> list[p[i]]]
    /\ Descending(list')
    /\ normalized' = list'
    /\ min' = 0
    /\ max' = Len(list)
    /\ stage' = "search"
    /\ UNCHANGED <<threshold, med>>

\* Mutant of Halve: the middle is rounded up.
Halve_Up == (max + min + 1) \div 2

Halve == (max + min) \div 2

\* The middle; an empty range ends the loop and resizes the list to it.
Search ==
    /\ stage = "search"
    /\ med' = Halve
    /\ \/ /\ max = min
          /\ list' = SubSeq(list, 1, med')
          /\ stage' = "done"
       \/ /\ max # min
          /\ stage' = "test"
          /\ UNCHANGED list
    /\ UNCHANGED <<normalized, threshold, min, max>>

\* Mutant of Test: an element at the threshold is kept.
Test_KeepsEqual ==
    /\ stage = "test"
    /\ \/ list[med + 1] >= threshold /\ min' = med + 1 /\ UNCHANGED max
       \/ list[med + 1] < threshold /\ max' = med /\ UNCHANGED min
    /\ stage' = "search"
    /\ UNCHANGED <<list, normalized, threshold, med>>

\* Mutant of Test: the range keeps its middle.
Test_KeepsMiddle ==
    /\ stage = "test"
    /\ \/ list[med + 1] > threshold /\ min' = med /\ UNCHANGED max
       \/ list[med + 1] <= threshold /\ max' = med /\ UNCHANGED min
    /\ stage' = "search"
    /\ UNCHANGED <<list, normalized, threshold, med>>

Test ==
    /\ stage = "test"
    /\ \/ list[med + 1] > threshold /\ min' = med + 1 /\ UNCHANGED max
       \/ list[med + 1] <= threshold /\ max' = med /\ UNCHANGED min
    /\ stage' = "search"
    /\ UNCHANGED <<list, normalized, threshold, med>>

\* commit_round is done with the set.
Cleared == stage = "done" /\ UNCHANGED search_vars

\* The steps of the loop.
SearchStep == normalize_hashset \/ Search \/ Test

SearchNext == SearchStep \/ Cleared

SearchSpec == SearchInit /\ [][SearchNext]_search_vars

-----------------------------------------------------------------------------
(* Properties                                                              *)

\* The type invariant of the locals of clear_hashset: the middle is a position
\* of the list whenever it is read.
SearchTypeOK ==
    /\ list \in Seq(Indices)
    /\ normalized \in Seq(Indices)
    /\ threshold \in Indices
    /\ min \in Nat /\ max \in Nat /\ med \in Nat
    /\ stage \in {"sort", "search", "test", "done"}
    /\ stage = "test" => med < Len(list)

\* clear_hashset keeps exactly the elements whose index is above the threshold,
\* those with an index of their own and those that share one alike.
ClearsExactly ==
    stage = "done" =>
        /\ Len(list) <= Len(normalized)
        /\ \A i \in DOMAIN list : list[i] = normalized[i]
        /\ \A i \in DOMAIN normalized : i <= Len(list) <=> normalized[i] > threshold

\* The search ends.
Terminates == <>(stage = "done")
=============================================================================
