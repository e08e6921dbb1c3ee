------------------------------- MODULE MCReports -------------------------------
(* Reports with a run that has a report, one that has none, two queries and three calls. *)
EXTENDS Reports, TLC

CONSTANTS r1, r2, r3, u1, u2, q1, q2, s1

const_Requests == {r1, r2, r3}
const_Runs == {u1, u2}
const_Queries == {q1, q2}
const_Seeds == {s1}
const_RunOf == [s \in const_Seeds |-> u1]
const_MaxAnswer == 4

\* Calls and queries are interchangeable, and no property is about what happens eventually.
const_Symmetry == Permutations(const_Requests) \union Permutations(const_Queries)
===============================================================================
