---------------------------- MODULE IdempotentCreate ----------------------------
(***************************************************************************)
(* The promise behind an idempotency key: at most one thing is ever made   *)
(* for a key, it is never replaced, and whoever is answered gets that one. *)
(***************************************************************************)
CONSTANTS Keys, Things, Nothing

VARIABLES
    made,       \* made[k]: the thing made for key k
    answered    \* the <<key, thing>> pairs callers have been given

vars == <<made, answered>>

Init ==
    /\ made = [k \in Keys |-> Nothing]
    /\ answered = {}

Make(k, x) ==
    /\ made[k] = Nothing
    /\ made' = [made EXCEPT ![k] = x]
    /\ answered' = answered \union {<<k, x>>}

Answer(k) ==
    /\ made[k] # Nothing
    /\ answered' = answered \union {<<k, made[k]>>}
    /\ UNCHANGED made

Next == \E k \in Keys : Answer(k) \/ \E x \in Things : Make(k, x)

Spec == Init /\ [][Next]_vars
===============================================================================
