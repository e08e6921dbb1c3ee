----------------------------- MODULE MCPublishing -----------------------------
(* Publishing with one target, two assets, one listing and four overlapping calls. *)
EXTENDS Publishing

CONSTANTS r1, r2, r3, r4, g1, a1, a2, o1, s1

const_Requests == {r1, r2, r3, r4}
const_Targets == {g1}
const_Assets == {a1, a2}
const_Objects == {o1}
const_Seeds == {s1}
===============================================================================
