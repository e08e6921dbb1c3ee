------------------------------ MODULE Memberships ------------------------------
(***************************************************************************)
(* Tenants and the memberships of their users: create_tenant, grant and    *)
(* revoke of app/modules/identity/service.py, run by concurrent requests   *)
(* over PostgreSQL's READ COMMITTED isolation.  Permissions, duplicates    *)
(* and the number of admins are read first and acted on later, so what was *)
(* read may no longer hold; only the unique indexes and the filter of the  *)
(* repository's last SELECT are looked at when the row is written.         *)
(***************************************************************************)
EXTENDS Integers, FiniteSets

CONSTANTS
    Users,
    Tenants,            \* tenants, named by their unique slugs
    ReservedSlugs,      \* the slugs of the reserved_slugs table
    PlatformAdmins,     \* users with a platform_admin row, which only operators make
    Roles,              \* the roles a grant may name
    Requests,           \* the requests that may arrive, each made once
    Seeds, SeedRow,     \* memberships there are to begin with
    MaxTenantsPerUser,  \* _MAX_TENANTS_PER_USER
    None

\* The roles count_active_admins counts.
AdminRoles == {"agency_admin", "business_owner"}

TenantRoles == AdminRoles \union {"agency_member", "business_member"}

\* A membership is named by the request that inserted it.
Ids == Requests \union Seeds

Absent == [state |-> "absent", user |-> None, tenant |-> None, role |-> None, by |-> None]

Active == [state : {"active"}, user : Users, tenant : Tenants, role : TenantRoles, by : Users]

Rows == {Absent} \union [state : {"active", "revoked"}, user : Users, tenant : Tenants,
                         role : TenantRoles, by : Users]

SameKey(a, b) == a.user = b.user /\ a.tenant = b.tenant /\ a.role = b.role

\* What is there to begin with could have been made by founding and granting.
ASSUME SeedAssumption ==
    /\ PlatformAdmins \subseteq Users
    /\ Roles \subseteq TenantRoles \union {"platform_admin"}
    /\ MaxTenantsPerUser \in Nat
    /\ Requests \intersect Seeds = {}
    /\ None \notin Ids \union Users \union Tenants \union TenantRoles
    /\ IsFiniteSet(Ids)
    /\ SeedRow \in [Seeds -> Active]
    /\ \A i, j \in Seeds : SameKey(SeedRow[i], SeedRow[j]) => i = j
    /\ \A i \in Seeds :
        \/ SeedRow[i].by \in PlatformAdmins
        \/ \E j \in Seeds : /\ SeedRow[j].tenant = SeedRow[i].tenant
                            /\ SeedRow[j].user = SeedRow[i].by
                            /\ SeedRow[j].role = "agency_admin"
        \/ SeedRow[i].by = SeedRow[i].user /\ SeedRow[i].role \in AdminRoles

VARIABLES
    tenants,    \* the committed tenants rows
    row,        \* row[i]: the committed memberships row i
    rowLock,    \* rowLock[i]: the transaction that has written row i
    req,        \* req[r]: the request's program counter, arguments and what it read
    log         \* the committed admin_audit_log entries about memberships

vars == <<tenants, row, rowLock, req, log>>

-------------------------------------------------------------------------------
OpenPoints == {"find_active", "insert", "load", "count", "reload", "write",
               "check_slug", "insert_tenant", "commit"}
ProgramCounters == {"new", "done", "failed"} \union OpenPoints

Ops == {"grant", "revoke", "create"}

\* seen holds the admins a revocation has counted.
Sessions == [pc : ProgramCounters, op : Ops \union {None}, actor : Users \union {None},
             id : Ids \union {None}, user : Users \union {None}, tenant : Tenants \union {None},
             role : TenantRoles \union {"platform_admin", None}, seen : SUBSET Ids]

NewSession == [pc |-> "new", op |-> None, actor |-> None, id |-> None, user |-> None,
               tenant |-> None, role |-> None, seen |-> {}]

Ended == [NewSession EXCEPT !.pc = "failed"]

Entries == [action : Ops, id : Ids, by : Users]

TypeOK ==
    /\ tenants \subseteq Tenants
    /\ row \in [Ids -> Rows]
    /\ rowLock \in [Ids -> Requests \union {None}]
    /\ req \in [Requests -> Sessions]
    /\ log \subseteq Entries

Init ==
    /\ tenants = {SeedRow[i].tenant : i \in Seeds}
    /\ row = [i \in Ids |-> IF i \in Seeds THEN SeedRow[i] ELSE Absent]
    /\ rowLock = [i \in Ids |-> None]
    /\ req = [r \in Requests |-> NewSession]
    /\ log = {}

InTransaction(r) == req[r].pc \in OpenPoints

-------------------------------------------------------------------------------
(* What the repository reads.                                               *)

IsActive(i) == row[i].state = "active"

\* Faulty variant: an admin of any tenant will do.
HasRoleAnywhere(u, t, roles) == \E i \in Ids : IsActive(i) /\ row[i].user = u /\ row[i].role \in roles
HasRole(u, t, roles) ==
    \E i \in Ids : /\ IsActive(i)
                   /\ row[i].user = u /\ row[i].tenant = t /\ row[i].role \in roles

ActiveAdmins(t) ==
    {i \in Ids : IsActive(i) /\ row[i].tenant = t /\ row[i].role \in AdminRoles}

TenantsOf(u) == {row[i].tenant : i \in {j \in Ids : IsActive(j) /\ row[j].user = u}}

Authorised(actor, t) == HasRole(actor, t, {"agency_admin"}) \/ actor \in PlatformAdmins

\* A refused request raises, and its session is rolled back.
Go(r, allowed, session) == req' = [req EXCEPT ![r] = IF allowed THEN session ELSE Ended]
Proceed(r, allowed, pc) == Go(r, allowed, [req[r] EXCEPT !.pc = pc])

-------------------------------------------------------------------------------
(* grant                                                                    *)

Grant(r) ==
    /\ req[r].pc = "new"
    /\ \E actor, user \in Users, t \in Tenants, role \in Roles :
        Go(r, /\ Authorised(actor, t)
              /\ role = "platform_admin" => actor \in PlatformAdmins,
           [NewSession EXCEPT !.pc = "find_active", !.op = "grant", !.actor = actor, !.id = r,
                              !.user = user, !.tenant = t, !.role = role])
    /\ UNCHANGED <<tenants, row, rowLock, log>>

\* The tenant must exist, and the repository looks for an active membership of the same
\* user, tenant and role.
FindActive(r) ==
    LET s == req[r] IN
    /\ s.pc = "find_active"
    /\ Proceed(r, s.tenant \in tenants /\ ~HasRole(s.user, s.tenant, {s.role}), "insert")
    /\ UNCHANGED <<tenants, row, rowLock, log>>

\* Another open transaction has inserted, or is revoking, a row with r's key.
KeyContended(r) ==
    \E o \in Requests \ {r} :
        /\ req[o].pc = "commit"
        /\ \/ req[o].op # "revoke" /\ SameKey(req[o], req[r])
           \/ req[o].op = "revoke" /\ IsActive(req[o].id) /\ SameKey(row[req[o].id], req[r])

\* Faulty variants: without the CHECK; without the index.
InsertAnyRole(r) ==
    LET s == req[r] IN
    /\ s.pc = "insert"
    /\ ~KeyContended(r)
    /\ Proceed(r, ~HasRole(s.user, s.tenant, {s.role}), "commit")
    /\ UNCHANGED <<tenants, row, rowLock, log>>
InsertDuplicate(r) ==
    /\ req[r].pc = "insert"
    /\ Proceed(r, req[r].role # "platform_admin", "commit")
    /\ UNCHANGED <<tenants, row, rowLock, log>>

\* The INSERT waits for the outcome of a transaction with the same key; the partial
\* unique index refuses a second active row, and the CHECK a platform_admin of a tenant.
InsertMembership(r) ==
    LET s == req[r] IN
    /\ s.pc = "insert"
    /\ ~KeyContended(r)
    /\ Proceed(r, ~HasRole(s.user, s.tenant, {s.role}) /\ s.role # "platform_admin", "commit")
    /\ UNCHANGED <<tenants, row, rowLock, log>>

-------------------------------------------------------------------------------
(* revoke                                                                   *)

Revoke(r) ==
    /\ req[r].pc = "new"
    /\ \E actor \in Users, i \in Ids, t \in Tenants :
        Go(r, Authorised(actor, t),
           [NewSession EXCEPT !.pc = "load", !.op = "revoke", !.actor = actor,
                              !.id = i, !.tenant = t])
    /\ UNCHANGED <<tenants, row, rowLock, log>>

\* get_active_membership: the membership must be active in the tenant and not the actor's
\* own; only that of an admin is counted.
LoadTarget(r) ==
    LET s == req[r]
        target == row[s.id]
    IN
    /\ s.pc = "load"
    /\ Proceed(r, /\ target.state = "active" /\ target.tenant = s.tenant
                  /\ target.user # s.actor,
                  IF target.role \in AdminRoles THEN "count" ELSE "reload")
    /\ UNCHANGED <<tenants, row, rowLock, log>>

\* Faulty variant: the count is compared with zero.
CountAnyAdmin(r) ==
    LET admins == ActiveAdmins(req[r].tenant) IN
    /\ req[r].pc = "count"
    /\ Go(r, Cardinality(admins) > 0, [req[r] EXCEPT !.pc = "reload", !.seen = admins])
    /\ UNCHANGED <<tenants, row, rowLock, log>>
CountAdmins(r) ==
    LET admins == ActiveAdmins(req[r].tenant) IN
    /\ req[r].pc = "count"
    /\ Go(r, Cardinality(admins) > 1, [req[r] EXCEPT !.pc = "reload", !.seen = admins])
    /\ UNCHANGED <<tenants, row, rowLock, log>>

\* The SELECT of MembershipRepository.revoke, which leaves out revoked rows.
Reload(r) ==
    /\ req[r].pc = "reload"
    /\ Proceed(r, IsActive(req[r].id), "write")
    /\ UNCHANGED <<tenants, row, rowLock, log>>

\* The UPDATE of revoked_at, by primary key, waits for the row's lock.
WriteRevoked(r) ==
    /\ req[r].pc = "write"
    /\ rowLock[req[r].id] = None
    /\ rowLock' = [rowLock EXCEPT ![req[r].id] = r]
    /\ Proceed(r, TRUE, "commit")
    /\ UNCHANGED <<tenants, row, log>>

-------------------------------------------------------------------------------
(* create_tenant                                                            *)

\* The first member is the actor, with the admin role of the tenant's type.
CreateTenant(r) ==
    /\ req[r].pc = "new"
    /\ \E actor \in Users, t \in Tenants, role \in AdminRoles :
        Go(r, Cardinality(TenantsOf(actor)) < MaxTenantsPerUser,
           [NewSession EXCEPT !.pc = "check_slug", !.op = "create", !.actor = actor, !.id = r,
                              !.user = actor, !.tenant = t, !.role = role])
    /\ UNCHANGED <<tenants, row, rowLock, log>>

CheckSlug(r) ==
    /\ req[r].pc = "check_slug"
    /\ Proceed(r, req[r].tenant \notin ReservedSlugs \union tenants, "insert_tenant")
    /\ UNCHANGED <<tenants, row, rowLock, log>>

\* The INSERT of the tenant waits for another one with the same slug, and fails if that
\* one committed; the first membership cannot be in anybody's way.
InsertTenant(r) ==
    /\ req[r].pc = "insert_tenant"
    /\ \A o \in Requests \ {r} :
        req[o].pc = "commit" /\ req[o].op = "create" => req[o].tenant # req[r].tenant
    /\ Proceed(r, req[r].tenant \notin tenants, "commit")
    /\ UNCHANGED <<tenants, row, rowLock, log>>

-------------------------------------------------------------------------------
(* The end of a transaction.                                                *)

Release(r) == rowLock' = [i \in Ids |-> IF rowLock[i] = r THEN None ELSE rowLock[i]]

Inserted(s) ==
    [state |-> "active", user |-> s.user, tenant |-> s.tenant, role |-> s.role, by |-> s.actor]

\* The membership, the tenant and the audit log entry are committed together.
Commit(r) ==
    LET s == req[r] IN
    /\ s.pc = "commit"
    /\ tenants' = tenants \union {s.tenant}
    /\ row' = [row EXCEPT ![s.id] = IF s.op = "revoke" THEN [@ EXCEPT !.state = "revoked"]
                                    ELSE Inserted(s)]
    /\ log' = log \union {[action |-> s.op, id |-> s.id, by |-> s.actor]}
    /\ Release(r)
    /\ req' = [req EXCEPT ![r].pc = "done"]

\* A database error, a cancelled request or a crashed worker.
Rollback(r) ==
    /\ InTransaction(r)
    /\ Release(r)
    /\ req' = [req EXCEPT ![r] = Ended]
    /\ UNCHANGED <<tenants, row, log>>

-------------------------------------------------------------------------------
Advance(r) ==
    \/ FindActive(r)
    \/ InsertMembership(r)
    \/ LoadTarget(r)
    \/ CountAdmins(r)
    \/ Reload(r)
    \/ WriteRevoked(r)
    \/ CheckSlug(r)
    \/ InsertTenant(r)
    \/ Commit(r)

AllAnswered ==
    /\ \A r \in Requests : req[r].pc \in {"done", "failed"}
    /\ UNCHANGED vars

Next ==
    \/ \E r \in Requests :
        \/ Grant(r)
        \/ Revoke(r)
        \/ CreateTenant(r)
        \/ Advance(r)
        \/ Rollback(r)
    \/ AllAnswered

Spec == Init /\ [][Next]_vars

-------------------------------------------------------------------------------
(* Properties.                                                              *)

\* A user has a role in a tenant at most once at a time, however many grants checked for
\* a duplicate before one of them inserted its row.
OneActiveMembership ==
    \A i, j \in Ids : IsActive(i) /\ IsActive(j) /\ SameKey(row[i], row[j]) => i = j

\* u could manage t's members at some time: rows are revoked, never deleted.
WasAdmin(u, t) ==
    \/ u \in PlatformAdmins
    \/ \E i \in Ids : row[i].user = u /\ row[i].tenant = t /\ row[i].role = "agency_admin"

\* All that is committed is in the audit log.
Logged ==
    \A i \in Ids :
        /\ row[i] # Absent /\ i \notin Seeds =>
            \E e \in log : e.action \in {"grant", "create"} /\ e.id = i
        /\ row[i].state = "revoked" => \E e \in log : e.action = "revoke" /\ e.id = i

\* Every membership came from founding its tenant or from somebody who could manage that
\* tenant, and every revocation from such a person who was not the member; the audit log
\* names them, even when their own rights were withdrawn meanwhile.
EveryChangeAuthorised ==
    /\ Logged
    /\ \A e \in log :
        LET m == row[e.id] IN
        /\ m # Absent
        /\ e.action # "revoke" => e.by = m.by
        /\ e.action = "create" => m.user = m.by /\ m.role \in AdminRoles
        /\ e.action # "create" => WasAdmin(e.by, m.tenant)
        /\ e.action = "revoke" => m.state = "revoked" /\ e.by # m.user

Administered(t) == ActiveAdmins(t) # {}

\* Every tenant comes with an admin, and loses its last one only to revocations that
\* overlapped: an admin the last of them had counted was revoked after it counted.
OnlyRacesLoseAdmins ==
    [][\A t \in Tenants :
        /\ t \notin tenants /\ t \in tenants' => Administered(t)'
        /\ Administered(t) /\ ~Administered(t)' =>
            \E r \in Requests :
                /\ req[r].pc = "commit" /\ req'[r].pc = "done"
                /\ \E i \in req[r].seen \ {req[r].id} : row[i].state = "revoked"]_vars

\* "A Tenant has at least one administrative User", and revoke refuses to "remove the
\* last admin".  Two admins who revoke each other at once are both counted by both.
LastAdminKept == \A t \in tenants : Administered(t)
===============================================================================
