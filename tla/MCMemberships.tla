------------------------------ MODULE MCMemberships ------------------------------
(* Memberships with an agency of an admin and a member who is a platform admin as *)
(* well, a slug still free, and three requests.                                   *)
EXTENDS Memberships

CONSTANTS u1, u2, t1, t2, r1, r2, r3, s1, s2

const_Users == {u1, u2}
const_Tenants == {t1, t2}
const_PlatformAdmins == {u2}
const_Roles == {"agency_admin", "platform_admin"}
const_Seeds == {s1, s2}
const_SeedRow == [s \in const_Seeds |->
    [state |-> "active", user |-> IF s = s1 THEN u1 ELSE u2, tenant |-> t1,
     role |-> IF s = s1 THEN "agency_admin" ELSE "agency_member", by |-> u1]]
const_Requests == {r1, r2, r3}
===============================================================================
