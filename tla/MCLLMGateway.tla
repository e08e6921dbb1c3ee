------------------------------ MODULE MCLLMGateway ------------------------------
(* LLMGateway with two overlapping callers, one cached and one uncached prompt and *)
(* a month that ends while calls are under way.                                    *)
EXTENDS LLMGateway

CONSTANTS c1, c2, k1, k2

const_Callers == {c1, c2}
const_Keys == {k1, k2}
const_Deterministic == {k1}
===============================================================================
