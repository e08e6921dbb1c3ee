------------------------------ MODULE MCAuditRuns ------------------------------
(***************************************************************************)
(* Two engines with two query executions and three finalisations, so that  *)
(* the third can find what two others have torn; and, for an outage, with  *)
(* three executions and one finalisation, which may be of a partial run.   *)
(***************************************************************************)
EXTENDS AuditRuns, TLC

CONSTANTS e1, e2, q1, q2, q3, f1, f2, f3

const_Engines == {e1, e2}
const_Ids == {q1, q2}
const_Finalisers == {f1, f2, f3}

const_OutageIds == {q1, q2, q3}
const_OutageFinalisers == {f1}

\* Engines, executions and finalisations are compared for equality only, and the
\* properties are safety properties.
Symmetry == Permutations(const_Engines) \union Permutations(const_Ids)
                \union Permutations(const_Finalisers)
===============================================================================
