----------------------------- MODULE IntervalSet -----------------------------
(***************************************************************************)
(* The set of half-open intervals <<start, end>> of src/src/Intervals.h,   *)
(* which tells the Reassembler the stretches of the stream it has stored.  *)
(***************************************************************************)
EXTENDS Integers, FiniteSetsExt

\* IntervalSet::contains takes both end points in, so touching intervals merge.
ContainsPoint(x, i) == i[1] <= x /\ x <= i[2]

\* get_mergeable: its answer, and the intervals it collects.
ContainedInOne(i, S) == \E j \in S : ContainsPoint(i[1], j) /\ ContainsPoint(i[2], j)
Mergeable(i, S) == {j \in S : ContainsPoint(j[1], i) \/ ContainsPoint(j[2], i)}

Hull(i, M) == << Min({i[1]} \cup {j[1] : j \in M}), Max({i[2]} \cup {j[2] : j \in M}) >>

\* Fault: intervals are not merged.
InsertUnmerged(i, S) == IF i[1] = i[2] THEN S ELSE S \cup {i}

MergeAndInsert(i, S) ==
    IF i[1] = i[2] \/ ContainedInOne(i, S)
    THEN S
    ELSE (S \ Mergeable(i, S)) \cup {Hull(i, Mergeable(i, S))}

\* *begin() of the ordered set.
IsSmallest(i, S) == i \in S /\ \A j \in S : i[1] <= j[1]

\* The positions an interval, or a set of them, covers.
Positions(i) == i[1] .. i[2] - 1
Covered(S) == UNION {Positions(i) : i \in S}
=============================================================================
