-------------------------- MODULE MCStatsTimeline --------------------------
(* Two domain paths, on two switches or both on one.                       *)
EXTENDS StatsTimeline

CONSTANTS p1, p2, s1, s2, q1, q2

TwoPaths == {p1, p2}
TwoSwitches == {s1, s2}
OnTwo == [p \in TwoPaths |-> IF p = p1 THEN s1 ELSE s2]
OnOne == [p \in TwoPaths |-> s1]
TwoQueries == {q1, q2}
====
