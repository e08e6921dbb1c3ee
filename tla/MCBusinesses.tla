------------------------------ MODULE MCBusinesses ------------------------------
(* Businesses with a direct_business tenant that has one, an agency that has none, an  *)
(* owner, a member whose scope is that business, and three overlapping requests.       *)
EXTENDS Businesses

CONSTANTS r1, r2, r3, b1, t1, t2, n1, n2, a1, a2

const_Requests == {r1, r2, r3}
const_Seeds == {b1}
const_SeedOf == [b \in const_Seeds |-> t1]
const_Tenants == {t1, t2}
const_Direct == {t1}
const_Names == {n1, n2}
const_Actors == {a1, a2}
const_Roles == [x \in const_Actors \X const_Tenants |->
    CASE x = <<a1, t1>> -> {"business_owner"}
      [] x = <<a1, t2>> -> {"agency_admin"}
      [] x = <<a2, t1>> -> {"business_member"}
      [] x = <<a2, t2>> -> BroadRoles]
const_Scope == [a \in const_Actors |-> IF a = a2 THEN const_Seeds ELSE {}]
===============================================================================
