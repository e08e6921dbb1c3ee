------------------------------ MODULE MCWhitelabel ------------------------------
(* Whitelabel with two tenants, a domain they both want and three overlapping requests.            *)
EXTENDS Whitelabel

CONSTANTS r1, r2, r3, t1, t2, d1, k1, k2, name, color

const_Requests == {r1, r2, r3}
const_Tenants == {t1, t2}
const_Domains == {d1}
const_Columns == {name, color}
const_Keys == {k1, k2}

Symmetry == Permutations(const_Requests) \union Permutations(const_Tenants)
===============================================================================
