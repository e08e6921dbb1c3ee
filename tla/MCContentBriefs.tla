---------------------------- MODULE MCContentBriefs ----------------------------
(* ContentBriefs on a small instance: three requests that may overlap on one   *)
(* brief, which is new or waits for review, and two tenants.                   *)
EXTENDS ContentBriefs

CONSTANTS r1, r2, r3, b1, t1, t2, n1, n2

const_Requests == {r1, r2, r3}
const_Briefs == {b1}
const_Tenants == {t1, t2}
const_Notes == {n1, n2}
===============================================================================
