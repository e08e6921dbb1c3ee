---------------------------- MODULE MembershipsProofs ----------------------------
(***************************************************************************)
(* Memberships under any number of overlapping requests by any users: one  *)
(* active membership for a key, a changes' authority and its log entry,    *)
(* and the only way a tenant loses its last admin.                         *)
(***************************************************************************)
EXTENDS Memberships, FiniteSetTheorems, TLAPS

\* WasAdmin and ActiveAdmins for the rows rw.
WasAdminIn(u, t, rw) ==
    \/ u \in PlatformAdmins
    \/ \E i \in Ids : rw[i].user = u /\ rw[i].tenant = t /\ rw[i].role = "agency_admin"

NoneActive(s, rw) == \A i \in Ids : rw[i].state = "active" => ~SameKey(rw[i], s)

\* What a grant is at each of its points.
Granting(r, s, ts, rw) ==
    /\ s.pc \in {"find_active", "insert", "commit"}
    /\ s.id = r /\ s.user \in Users /\ s.role \in TenantRoles \union {"platform_admin"}
    /\ WasAdminIn(s.actor, s.tenant, rw)
    /\ s.pc # "find_active" => s.tenant \in ts
    /\ s.pc = "commit" => s.role \in TenantRoles /\ NoneActive(s, rw)

Creating(r, s, ts) ==
    /\ s.pc \in {"check_slug", "insert_tenant", "commit"}
    /\ s.id = r /\ s.user = s.actor /\ s.role \in AdminRoles
    /\ s.pc = "commit" => s.tenant \notin ts

\* A revocation of an admin's membership has counted another one.
Revoking(s, rw) ==
    /\ s.pc \in {"load", "count", "reload", "write", "commit"}
    /\ WasAdminIn(s.actor, s.tenant, rw)
    /\ s.pc # "load" => rw[s.id] # Absent /\ rw[s.id].tenant = s.tenant /\ rw[s.id].user # s.actor
    /\ s.pc \in {"reload", "write", "commit"} /\ rw[s.id].role \in AdminRoles =>
        /\ \E i \in s.seen : i # s.id
        /\ \A i \in s.seen : /\ rw[i] # Absent
                             /\ rw[i].tenant = s.tenant /\ rw[i].role \in AdminRoles

Fit(r, s, ts, rw) ==
    /\ s.pc = "new" => rw[r] = Absent
    /\ s.pc \in OpenPoints =>
        /\ s.op \in Ops /\ s.id \in Ids /\ s.tenant \in Tenants /\ s.actor \in Users
        /\ s.op # "revoke" => rw[r] = Absent
        /\ s.op = "grant" => Granting(r, s, ts, rw)
        /\ s.op = "create" => Creating(r, s, ts)
        /\ s.op = "revoke" => Revoking(s, rw)

\* Those about to commit an insertion differ in their keys, and in their new tenants.
Inserting(s) == s.pc = "commit" /\ s.op # "revoke"
Apart(s, o) ==
    Inserting(s) /\ Inserting(o) =>
        ~SameKey(s, o) /\ (s.op = "create" /\ o.op = "create" => s.tenant # o.tenant)

MInv ==
    /\ TypeOK /\ OneActiveMembership /\ EveryChangeAuthorised
    /\ \A i \in Ids : row[i] # Absent => row[i].tenant \in tenants
    /\ \A r \in Requests : Fit(r, req[r], tenants, row)
    /\ \A r, o \in Requests : r # o => Apart(req[r], req[o])

-------------------------------------------------------------------------------
LEMMA SessionsAreTyped == NewSession \in Sessions /\ Ended \in Sessions
BY DEF NewSession, Ended, Sessions, ProgramCounters, OpenPoints, Ops

LEMMA EndedFits ==
    ASSUME NEW r, NEW ts, NEW rw
    PROVE  Fit(r, Ended, ts, rw) /\ \A o : Apart(Ended, o) /\ Apart(o, Ended)
BY DEF Fit, Apart, Inserting, Ended, NewSession, OpenPoints

LEMMA SeedsAreRows ==
    /\ \A i \in Seeds : SeedRow[i] \in Active /\ SeedRow[i].tenant \in Tenants
    /\ Active \subseteq Rows /\ Absent \in Rows /\ Absent \notin Active
    /\ \A m \in Rows : m # Absent <=> m.state \in {"active", "revoked"}
<1>1. \A i \in Seeds : SeedRow[i] \in Active
  BY SeedAssumption
<1>2. Active \subseteq Rows /\ Absent \in Rows /\ Absent \notin Active
  BY DEF Active, Rows, Absent
<1>3. \A m \in Rows : m # Absent <=> m.state \in {"active", "revoked"}
  BY DEF Rows, Absent
<1> QED
  BY <1>1, <1>2, <1>3 DEF Active

LEMMA InitEstablishesMInv == Init => MInv
<1> SUFFICES ASSUME Init PROVE MInv
  OBVIOUS
<1>1. /\ \A i \in Seeds : row[i] = SeedRow[i]
      /\ \A i \in Ids \ Seeds : row[i] = Absent
      /\ \A r \in Requests : req[r] = NewSession /\ r \notin Seeds
  BY SeedAssumption DEF Init, Ids
<1>2. row \in [Ids -> Rows]
  BY SeedsAreRows DEF Init
<1>3. TypeOK
  BY <1>2, SeedsAreRows, SessionsAreTyped DEF Init, TypeOK
<1>4. OneActiveMembership
  BY <1>1, SeedAssumption DEF OneActiveMembership, IsActive, Absent
<1>5. EveryChangeAuthorised
  <2>1. \A i \in Ids : row[i].state # "revoked" /\ (row[i] # Absent => i \in Seeds)
    BY <1>1, SeedsAreRows DEF Active, Absent
  <2> QED
    BY <2>1 DEF EveryChangeAuthorised, Logged, Init
<1>6. \A i \in Ids : row[i] # Absent => row[i].tenant \in tenants
  BY <1>1 DEF Init
<1>7. \A r \in Requests : Fit(r, req[r], tenants, row)
  BY <1>1 DEF Fit, NewSession, OpenPoints, Ids
<1>8. \A r, o \in Requests : r # o => Apart(req[r], req[o])
  BY <1>1 DEF Apart, Inserting, NewSession
<1> QED
  BY <1>3, <1>4, <1>5, <1>6, <1>7, <1>8 DEF MInv

\* A step that changes nothing but the session of one request, and a lock.
LEMMA SessionStep ==
    ASSUME MInv, NEW r \in Requests, NEW s \in Sessions,
           req' = [req EXCEPT ![r] = s], UNCHANGED <<tenants, row, log>>,
           rowLock' \in [Ids -> Requests \union {None}],
           Fit(r, s, tenants, row),
           \A o \in Requests \ {r} : Apart(s, req[o]) /\ Apart(req[o], s)
    PROVE  MInv'
<1>1. TypeOK'
  BY DEF MInv, TypeOK
<1>2. OneActiveMembership' /\ EveryChangeAuthorised'
      /\ \A i \in Ids : row'[i] # Absent => row'[i].tenant \in tenants'
  BY DEF MInv, OneActiveMembership, EveryChangeAuthorised, Logged, WasAdmin, IsActive
<1>3. \A o \in Requests : req'[o] = IF o = r THEN s ELSE req[o]
  BY DEF MInv, TypeOK
<1>4. \A o \in Requests : Fit(o, req'[o], tenants', row')
  BY <1>3 DEF MInv
<1>5. \A o, p \in Requests : o # p => Apart(req'[o], req'[p])
  BY <1>3 DEF MInv
<1> QED
  BY <1>1, <1>2, <1>4, <1>5 DEF MInv

\* A session that is allowed to go on must fit; one that is not ends.
LEMMA GoKeepsMInv ==
    ASSUME MInv, NEW r \in Requests, NEW allowed \in BOOLEAN, NEW s, Go(r, allowed, s),
           UNCHANGED <<tenants, row, log>>, rowLock' \in [Ids -> Requests \union {None}],
           allowed => /\ s \in Sessions /\ Fit(r, s, tenants, row)
                      /\ \A o \in Requests \ {r} : Apart(s, req[o]) /\ Apart(req[o], s)
    PROVE  MInv'
<1>1. CASE allowed
  BY <1>1, SessionStep DEF Go
<1>2. CASE ~allowed
  BY <1>2, SessionStep, EndedFits, SessionsAreTyped DEF Go
<1> QED
  BY <1>1, <1>2

LEMMA NotCommitting ==
    ASSUME NEW s, s.pc # "commit" \/ s.op = "revoke"
    PROVE  \A o : Apart(s, o) /\ Apart(o, s)
BY DEF Apart, Inserting

\* The session that goes on to point pc.
LEMMA MovedSession ==
    ASSUME NEW s \in Sessions, NEW pc \in ProgramCounters
    PROVE  LET m == [s EXCEPT !.pc = pc] IN
           /\ m \in Sessions
           /\ m.pc = pc /\ m.op = s.op /\ m.actor = s.actor /\ m.id = s.id /\ m.user = s.user
           /\ m.tenant = s.tenant /\ m.role = s.role /\ m.seen = s.seen
BY DEF Sessions

LEMMA AuthorisedWasAdmin ==
    ASSUME NEW u, NEW t, Authorised(u, t)
    PROVE  WasAdminIn(u, t, row)
BY DEF Authorised, HasRole, WasAdminIn

-------------------------------------------------------------------------------
(* grant                                                                    *)

LEMMA GrantKeepsMInv ==
    ASSUME MInv, NEW r \in Requests, Grant(r)
    PROVE  MInv'
<1>1. PICK actor \in Users, user \in Users, t \in Tenants, role \in Roles :
        Go(r, /\ Authorised(actor, t)
              /\ role = "platform_admin" => actor \in PlatformAdmins,
           [NewSession EXCEPT !.pc = "find_active", !.op = "grant", !.actor = actor, !.id = r,
                              !.user = user, !.tenant = t, !.role = role])
  BY DEF Grant
<1> DEFINE allowed == /\ Authorised(actor, t)
                      /\ role = "platform_admin" => actor \in PlatformAdmins
           s == [NewSession EXCEPT !.pc = "find_active", !.op = "grant", !.actor = actor,
                                   !.id = r, !.user = user, !.tenant = t, !.role = role]
<1>2. /\ s.pc = "find_active" /\ s.op = "grant" /\ s.actor = actor /\ s.id = r
      /\ s.user = user /\ s.tenant = t /\ s.role = role
  BY DEF NewSession
<1>3. s \in Sessions
  BY SeedAssumption DEF NewSession, Sessions, ProgramCounters, OpenPoints, Ops, Ids
<1>4. row[r] = Absent
  BY DEF Grant, MInv, Fit
<1> HIDE DEF s
<1>5. allowed => Fit(r, s, tenants, row)
  BY <1>2, <1>4, AuthorisedWasAdmin, SeedAssumption DEF Fit, Granting, Ops, Ids
<1>6. allowed \in BOOLEAN
  BY DEF Authorised, HasRole
<1>7. Go(r, allowed, s)
  BY <1>1 DEF s
<1> HIDE DEF allowed
<1> QED
  BY <1>2, <1>3, <1>5, <1>6, <1>7, NotCommitting, GoKeepsMInv DEF Grant, MInv, TypeOK

LEMMA FindActiveKeepsMInv ==
    ASSUME MInv, NEW r \in Requests, FindActive(r)
    PROVE  MInv'
<1> DEFINE allowed == req[r].tenant \in tenants /\ ~HasRole(req[r].user, req[r].tenant, {req[r].role})
           s == [req[r] EXCEPT !.pc = "insert"]
<1>1. req[r] \in Sessions /\ req[r].pc = "find_active" /\ Fit(r, req[r], tenants, row)
  BY DEF MInv, TypeOK, FindActive
<1>2. /\ s \in Sessions /\ s.pc = "insert" /\ s.op = req[r].op /\ s.actor = req[r].actor
      /\ s.id = req[r].id /\ s.user = req[r].user /\ s.tenant = req[r].tenant
      /\ s.role = req[r].role
  BY <1>1, MovedSession DEF ProgramCounters, OpenPoints
<1> HIDE DEF s
<1>3. allowed => Fit(r, s, tenants, row)
  BY <1>1, <1>2 DEF Fit, Granting, Creating, Revoking, OpenPoints, Ops
<1>4. Go(r, allowed, s)
  BY DEF FindActive, Proceed, s
<1>5. allowed \in BOOLEAN
  BY DEF HasRole
<1> HIDE DEF allowed
<1> QED
  BY <1>2, <1>3, <1>4, <1>5, NotCommitting, GoKeepsMInv DEF FindActive, MInv, TypeOK

\* The index finds neither a row with the key nor another request about to insert one.
LEMMA InsertMembershipKeepsMInv ==
    ASSUME MInv, NEW r \in Requests, InsertMembership(r)
    PROVE  MInv'
<1> DEFINE allowed == ~HasRole(req[r].user, req[r].tenant, {req[r].role}) /\ req[r].role # "platform_admin"
           s == [req[r] EXCEPT !.pc = "commit"]
<1>1. req[r] \in Sessions /\ req[r].pc = "insert" /\ Fit(r, req[r], tenants, row)
  BY DEF MInv, TypeOK, InsertMembership
<1>2. /\ s \in Sessions /\ s.pc = "commit" /\ s.op = req[r].op /\ s.actor = req[r].actor
      /\ s.id = req[r].id /\ s.user = req[r].user /\ s.tenant = req[r].tenant /\ s.role = req[r].role
  BY <1>1, MovedSession DEF ProgramCounters, OpenPoints
<1>3. req[r].op = "grant" /\ Granting(r, req[r], tenants, row)
  BY <1>1 DEF Fit, Creating, Revoking, OpenPoints, Ops
<1> HIDE DEF s
<1>4. allowed => s.role \in TenantRoles
  BY <1>2, <1>3 DEF Granting
<1>5. allowed => NoneActive(s, row)
  BY <1>2 DEF HasRole, NoneActive, SameKey, IsActive
<1>6. allowed => Fit(r, s, tenants, row)
  BY <1>1, <1>2, <1>3, <1>4, <1>5 DEF Fit, Granting, OpenPoints
<1>7. ASSUME NEW o \in Requests \ {r} PROVE Apart(s, req[o]) /\ Apart(req[o], s)
  BY <1>2, <1>3 DEF InsertMembership, KeyContended, Apart, Inserting, SameKey
<1>8. Go(r, allowed, s)
  BY DEF InsertMembership, Proceed, s
<1>9. allowed \in BOOLEAN
  BY DEF HasRole
<1> HIDE DEF allowed
<1> QED
  BY <1>2, <1>6, <1>7, <1>8, <1>9, GoKeepsMInv DEF InsertMembership, MInv, TypeOK

-------------------------------------------------------------------------------
(* revoke                                                                   *)

LEMMA RevokeKeepsMInv ==
    ASSUME MInv, NEW r \in Requests, Revoke(r)
    PROVE  MInv'
<1>1. PICK actor \in Users, i \in Ids, t \in Tenants :
        Go(r, Authorised(actor, t),
           [NewSession EXCEPT !.pc = "load", !.op = "revoke", !.actor = actor,
                              !.id = i, !.tenant = t])
  BY DEF Revoke
<1> DEFINE allowed == Authorised(actor, t)
           s == [NewSession EXCEPT !.pc = "load", !.op = "revoke", !.actor = actor,
                                   !.id = i, !.tenant = t]
<1>2. s.pc = "load" /\ s.op = "revoke" /\ s.actor = actor /\ s.id = i /\ s.tenant = t
  BY DEF NewSession
<1>3. s \in Sessions
  BY DEF NewSession, Sessions, ProgramCounters, OpenPoints, Ops
<1> HIDE DEF s
<1>4. allowed => Fit(r, s, tenants, row)
  BY <1>2, AuthorisedWasAdmin DEF Fit, Revoking, Ops
<1>5. allowed \in BOOLEAN
  BY DEF Authorised, HasRole
<1>6. Go(r, allowed, s)
  BY <1>1 DEF s
<1> HIDE DEF allowed
<1> QED
  BY <1>2, <1>3, <1>4, <1>5, <1>6, NotCommitting, GoKeepsMInv DEF Revoke, MInv, TypeOK

LEMMA LoadTargetKeepsMInv ==
    ASSUME MInv, NEW r \in Requests, LoadTarget(r)
    PROVE  MInv'
<1> DEFINE target == row[req[r].id]
           allowed == /\ target.state = "active" /\ target.tenant = req[r].tenant
                      /\ target.user # req[r].actor
           pc == IF target.role \in AdminRoles THEN "count" ELSE "reload"
           s == [req[r] EXCEPT !.pc = pc]
<1>1. req[r] \in Sessions /\ req[r].pc = "load" /\ Fit(r, req[r], tenants, row)
  BY DEF MInv, TypeOK, LoadTarget
<1>2. pc \in {"count", "reload"} /\ (pc = "reload" => target.role \notin AdminRoles)
  OBVIOUS
<1>3. Go(r, allowed, s)
  BY DEF LoadTarget, Proceed
<1> HIDE DEF pc
<1>4. /\ s \in Sessions /\ s.pc = pc /\ s.op = req[r].op /\ s.actor = req[r].actor
      /\ s.id = req[r].id /\ s.tenant = req[r].tenant
  BY <1>1, <1>2, MovedSession DEF ProgramCounters, OpenPoints
<1> HIDE DEF s
<1>5. req[r].op = "revoke" /\ Revoking(req[r], row)
  BY <1>1 DEF Fit, Granting, Creating, OpenPoints, Ops
<1>6. allowed => row[s.id] # Absent /\ row[s.id].tenant = s.tenant /\ row[s.id].user # s.actor
  BY <1>4 DEF Absent
<1>7. allowed => Fit(r, s, tenants, row)
  BY <1>1, <1>2, <1>4, <1>5, <1>6 DEF Fit, Revoking, OpenPoints
<1>8. allowed \in BOOLEAN
  OBVIOUS
<1> HIDE DEF allowed
<1> QED
  BY <1>3, <1>4, <1>5, <1>7, <1>8, NotCommitting, GoKeepsMInv DEF LoadTarget, MInv, TypeOK

\* Of more than one admin, one at least is not the one to be revoked.
LEMMA AnotherAdmin ==
    ASSUME NEW S, IsFiniteSet(S), Cardinality(S) > 1, NEW x
    PROVE  \E i \in S : i # x
<1>1. SUFFICES ASSUME \A i \in S : i = x PROVE FALSE
  OBVIOUS
<1>2. S \subseteq {} \union {x}
  BY <1>1
<1>3. IsFiniteSet({} \union {x}) /\ Cardinality({} \union {x}) = 1
  <2>1. IsFiniteSet({}) /\ Cardinality({}) = 0 /\ x \notin {}
    BY FS_EmptySet
  <2> QED
    BY <2>1, FS_AddElement
<1> QED
  BY <1>2, <1>3, FS_Subset, FS_CardinalityType

LEMMA CountAdminsKeepsMInv ==
    ASSUME MInv, NEW r \in Requests, CountAdmins(r)
    PROVE  MInv'
<1> DEFINE admins == ActiveAdmins(req[r].tenant)
           allowed == Cardinality(admins) > 1
           s == [req[r] EXCEPT !.pc = "reload", !.seen = admins]
<1>1. req[r] \in Sessions /\ req[r].pc = "count" /\ Fit(r, req[r], tenants, row)
  BY DEF MInv, TypeOK, CountAdmins
<1>2. /\ s.pc = "reload" /\ s.op = req[r].op /\ s.actor = req[r].actor
      /\ s.id = req[r].id /\ s.tenant = req[r].tenant /\ s.seen = admins
  BY <1>1 DEF Sessions
<1>3. admins \subseteq Ids
  BY DEF ActiveAdmins
<1>4. s \in Sessions
  BY <1>1, <1>3 DEF Sessions, ProgramCounters, OpenPoints
<1>5. Go(r, allowed, s)
  BY DEF CountAdmins
<1>6. allowed => \E i \in admins : i # req[r].id
  BY <1>3, AnotherAdmin, FS_Subset, SeedAssumption
<1>7. \A i \in admins : row[i] # Absent /\ row[i].tenant = req[r].tenant /\ row[i].role \in AdminRoles
  BY DEF ActiveAdmins, IsActive, Absent
<1>8. req[r].op = "revoke" /\ Revoking(req[r], row)
  BY <1>1 DEF Fit, Granting, Creating, OpenPoints, Ops
<1> HIDE DEF s, admins
<1>9. allowed => Fit(r, s, tenants, row)
  BY <1>1, <1>2, <1>6, <1>7, <1>8 DEF Fit, Revoking, OpenPoints
<1>10. allowed \in BOOLEAN
  OBVIOUS
<1> HIDE DEF allowed
<1> QED
  BY <1>2, <1>4, <1>5, <1>8, <1>9, <1>10, NotCommitting, GoKeepsMInv DEF CountAdmins, MInv, TypeOK

\* A revocation goes on with all that it knows.
LEMMA RevocationGoesOn ==
    ASSUME MInv, NEW r \in Requests, NEW allowed \in BOOLEAN, NEW pc \in {"write", "commit"},
           req[r].pc \in {"reload", "write"}, Proceed(r, allowed, pc),
           UNCHANGED <<tenants, row, log>>, rowLock' \in [Ids -> Requests \union {None}]
    PROVE  MInv'
<1> DEFINE s == [req[r] EXCEPT !.pc = pc]
<1>1. req[r] \in Sessions /\ Fit(r, req[r], tenants, row)
  BY DEF MInv, TypeOK
<1>2. /\ s \in Sessions /\ s.pc = pc /\ s.op = req[r].op /\ s.actor = req[r].actor
      /\ s.id = req[r].id /\ s.tenant = req[r].tenant /\ s.seen = req[r].seen
  BY <1>1, MovedSession DEF ProgramCounters, OpenPoints
<1>3. Go(r, allowed, s)
  BY DEF Proceed
<1> HIDE DEF s
<1>4. req[r].op = "revoke" /\ Revoking(req[r], row)
  BY <1>1 DEF Fit, Granting, Creating, OpenPoints, Ops
<1>5. Fit(r, s, tenants, row)
  BY <1>1, <1>2, <1>4 DEF Fit, Revoking, OpenPoints
<1> QED
  BY <1>2, <1>3, <1>4, <1>5, NotCommitting, GoKeepsMInv

LEMMA ReloadKeepsMInv ==
    ASSUME MInv, NEW r \in Requests, Reload(r)
    PROVE  MInv'
BY RevocationGoesOn DEF Reload, IsActive, MInv, TypeOK

LEMMA WriteRevokedKeepsMInv ==
    ASSUME MInv, NEW r \in Requests, WriteRevoked(r)
    PROVE  MInv'
<1>1. rowLock' \in [Ids -> Requests \union {None}]
  BY DEF WriteRevoked, MInv, TypeOK
<1> QED
  BY <1>1, RevocationGoesOn DEF WriteRevoked

-------------------------------------------------------------------------------
(* create_tenant                                                            *)

LEMMA CreateTenantKeepsMInv ==
    ASSUME MInv, NEW r \in Requests, CreateTenant(r)
    PROVE  MInv'
<1>1. PICK actor \in Users, t \in Tenants, role \in AdminRoles :
        Go(r, Cardinality(TenantsOf(actor)) < MaxTenantsPerUser,
           [NewSession EXCEPT !.pc = "check_slug", !.op = "create", !.actor = actor, !.id = r,
                              !.user = actor, !.tenant = t, !.role = role])
  BY DEF CreateTenant
<1> DEFINE allowed == Cardinality(TenantsOf(actor)) < MaxTenantsPerUser
           s == [NewSession EXCEPT !.pc = "check_slug", !.op = "create", !.actor = actor, !.id = r,
                                   !.user = actor, !.tenant = t, !.role = role]
<1>2. /\ s.pc = "check_slug" /\ s.op = "create" /\ s.actor = actor /\ s.id = r
      /\ s.user = actor /\ s.tenant = t /\ s.role = role
  BY DEF NewSession
<1>3. s \in Sessions
  BY DEF NewSession, Sessions, ProgramCounters, OpenPoints, Ops, Ids, TenantRoles
<1>4. row[r] = Absent
  BY DEF CreateTenant, MInv, Fit
<1> HIDE DEF s
<1>5. Fit(r, s, tenants, row)
  BY <1>2, <1>4 DEF Fit, Creating, Ops, Ids
<1>6. Go(r, allowed, s) /\ allowed \in BOOLEAN
  BY <1>1 DEF s
<1> HIDE DEF allowed
<1> QED
  BY <1>2, <1>3, <1>5, <1>6, NotCommitting, GoKeepsMInv DEF CreateTenant, MInv, TypeOK

LEMMA CheckSlugKeepsMInv ==
    ASSUME MInv, NEW r \in Requests, CheckSlug(r)
    PROVE  MInv'
<1> DEFINE allowed == req[r].tenant \notin ReservedSlugs \union tenants
           s == [req[r] EXCEPT !.pc = "insert_tenant"]
<1>1. req[r] \in Sessions /\ req[r].pc = "check_slug" /\ Fit(r, req[r], tenants, row)
  BY DEF MInv, TypeOK, CheckSlug
<1>2. /\ s \in Sessions /\ s.pc = "insert_tenant" /\ s.op = req[r].op /\ s.actor = req[r].actor
      /\ s.id = req[r].id /\ s.user = req[r].user /\ s.tenant = req[r].tenant /\ s.role = req[r].role
  BY <1>1, MovedSession DEF ProgramCounters, OpenPoints
<1>3. Go(r, allowed, s) /\ allowed \in BOOLEAN
  BY DEF CheckSlug, Proceed
<1> HIDE DEF s
<1>4. Fit(r, s, tenants, row)
  BY <1>1, <1>2 DEF Fit, Granting, Creating, Revoking, OpenPoints, Ops
<1> HIDE DEF allowed
<1> QED
  BY <1>2, <1>3, <1>4, NotCommitting, GoKeepsMInv DEF CheckSlug, MInv, TypeOK

\* The slug is free, and nobody else is about to commit it; a grant only ever names a tenant
\* that is there.
LEMMA InsertTenantKeepsMInv ==
    ASSUME MInv, NEW r \in Requests, InsertTenant(r)
    PROVE  MInv'
<1> DEFINE allowed == req[r].tenant \notin tenants
           s == [req[r] EXCEPT !.pc = "commit"]
<1>1. req[r] \in Sessions /\ req[r].pc = "insert_tenant" /\ Fit(r, req[r], tenants, row)
  BY DEF MInv, TypeOK, InsertTenant
<1>2. /\ s \in Sessions /\ s.pc = "commit" /\ s.op = req[r].op /\ s.actor = req[r].actor
      /\ s.id = req[r].id /\ s.user = req[r].user /\ s.tenant = req[r].tenant /\ s.role = req[r].role
  BY <1>1, MovedSession DEF ProgramCounters, OpenPoints
<1>3. Go(r, allowed, s) /\ allowed \in BOOLEAN
  BY DEF InsertTenant, Proceed
<1> HIDE DEF s
<1>4. req[r].op = "create"
  BY <1>1 DEF Fit, Granting, Revoking, OpenPoints, Ops
<1>5. allowed => Fit(r, s, tenants, row)
  BY <1>1, <1>2, <1>4 DEF Fit, Creating, OpenPoints
<1>6. ASSUME NEW o \in Requests \ {r}, allowed PROVE Apart(s, req[o]) /\ Apart(req[o], s)
  <2>1. CASE ~Inserting(req[o])
    BY <2>1 DEF Apart
  <2>2. CASE Inserting(req[o]) /\ req[o].op = "create"
    BY <1>2, <2>2 DEF InsertTenant, Apart, SameKey, Inserting
  <2>3. CASE Inserting(req[o]) /\ req[o].op # "create"
    <3>1. Fit(o, req[o], tenants, row)
      BY DEF MInv
    <3>2. req[o].tenant \in tenants
      BY <2>3, <3>1 DEF Fit, Granting, Inserting, OpenPoints, Ops
    <3> QED
      BY <1>2, <1>6, <2>3, <3>2 DEF Apart, SameKey
  <2> QED
    BY <2>1, <2>2, <2>3
<1> HIDE DEF allowed
<1> QED
  BY <1>2, <1>3, <1>5, <1>6, GoKeepsMInv DEF InsertTenant, MInv, TypeOK

-------------------------------------------------------------------------------
(* Committing.                                                              *)

\* A commit inserts a row where there was none, or revokes one that is there.
LEMMA CommittedRow ==
    ASSUME MInv, NEW r \in Requests, Commit(r)
    PROVE  LET s == req[r] IN
           /\ s \in Sessions /\ s.pc = "commit" /\ s.id \in Ids /\ s.tenant \in Tenants
           /\ s.actor \in Users /\ s.op \in Ops
           /\ s.op # "create" => WasAdminIn(s.actor, s.tenant, row)
           /\ \A i \in Ids \ {s.id} : row'[i] = row[i]
           /\ s.op # "revoke" =>
                /\ s.id = r /\ row[r] = Absent /\ s.role \in TenantRoles /\ s.user \in Users
                /\ row'[r] = Inserted(s) /\ NoneActive(s, row)
           /\ s.op = "create" => s.role \in AdminRoles /\ s.user = s.actor /\ s.tenant \notin tenants
           /\ s.op = "revoke" =>
                /\ row[s.id] # Absent /\ row[s.id].tenant = s.tenant /\ row[s.id].user # s.actor
                /\ row'[s.id] = [row[s.id] EXCEPT !.state = "revoked"]
           /\ s.op # "create" => s.tenant \in tenants
<1> DEFINE s == req[r]
<1>1. s \in Sessions /\ s.pc = "commit" /\ Fit(r, s, tenants, row)
  BY DEF MInv, TypeOK, Commit
<1>2. /\ s.op \in Ops /\ s.id \in Ids /\ s.tenant \in Tenants /\ s.actor \in Users
      /\ s.op # "revoke" => row[r] = Absent
      /\ s.op = "grant" => Granting(r, s, tenants, row)
      /\ s.op = "create" => Creating(r, s, tenants)
      /\ s.op = "revoke" => Revoking(s, row)
  BY <1>1 DEF Fit, OpenPoints
<1>3. /\ \A i \in Ids \ {s.id} : row'[i] = row[i]
      /\ row'[s.id] = IF s.op = "revoke" THEN [row[s.id] EXCEPT !.state = "revoked"] ELSE Inserted(s)
  BY <1>2 DEF Commit, MInv, TypeOK
<1>4. \A i \in Ids : row[i] # Absent => row[i].tenant \in tenants
  BY DEF MInv
<1>5. CASE s.op = "grant"
  BY <1>1, <1>2, <1>3, <1>5 DEF Granting
<1>6. CASE s.op = "create"
  <2>1. /\ s.id = r /\ s.user = s.actor /\ s.role \in AdminRoles /\ s.tenant \notin tenants
    BY <1>1, <1>2, <1>6 DEF Creating
  <2>2. NoneActive(s, row)
    <3>1. ASSUME NEW i \in Ids, row[i].state = "active" PROVE row[i].tenant # s.tenant
      BY <1>4, <2>1, <3>1 DEF Absent
    <3> QED
      BY <3>1 DEF NoneActive, SameKey
  <2> QED
    BY <1>1, <1>2, <1>3, <1>6, <2>1, <2>2 DEF TenantRoles
<1>7. CASE s.op = "revoke"
  <2>1. row[s.id] # Absent /\ row[s.id].tenant = s.tenant /\ row[s.id].user # s.actor
        /\ WasAdminIn(s.actor, s.tenant, row)
    BY <1>1, <1>2, <1>7 DEF Revoking
  <2> QED
    BY <1>1, <1>2, <1>3, <1>4, <1>7, <2>1
<1> QED
  BY <1>2, <1>5, <1>6, <1>7 DEF Ops

LEMMA OthersStay ==
    ASSUME MInv, NEW r \in Requests, Commit(r), NEW i \in Ids, i # req[r].id
    PROVE  row'[i] = row[i]
BY DEF Commit, MInv, TypeOK

\* Rows stay, and change in nothing but their state.
LEMMA RowsStay ==
    ASSUME MInv, NEW r \in Requests, Commit(r), NEW i \in Ids, row[i] # Absent
    PROVE  /\ row'[i] # Absent /\ row'[i].user = row[i].user /\ row'[i].tenant = row[i].tenant
           /\ row'[i].role = row[i].role /\ row'[i].by = row[i].by
           /\ row[i].state = "revoked" => row'[i].state = "revoked"
<1>1. row[i] \in Rows
  BY DEF MInv, TypeOK
<1>2. CASE i # req[r].id
  BY <1>2, CommittedRow
<1>3. CASE i = req[r].id
  <2>1. row'[i] = [row[i] EXCEPT !.state = "revoked"]
    BY <1>3, CommittedRow
  <2> QED
    BY <1>1, <2>1 DEF Rows, Absent
<1> QED
  BY <1>2, <1>3

LEMMA AdminsStay ==
    ASSUME MInv, NEW r \in Requests, Commit(r), NEW u \in Users, NEW t, WasAdminIn(u, t, row)
    PROVE  WasAdminIn(u, t, row')
<1>1. CASE u \in PlatformAdmins
  BY <1>1 DEF WasAdminIn
<1>2. CASE u \notin PlatformAdmins
  <2>1. PICK i \in Ids : row[i].user = u /\ row[i].tenant = t /\ row[i].role = "agency_admin"
    BY <1>2 DEF WasAdminIn
  <2>2. row[i] # Absent
    BY <2>1, SeedAssumption DEF Absent
  <2> QED
    BY <2>1, <2>2, RowsStay DEF WasAdminIn
<1> QED
  BY <1>1, <1>2

LEMMA InsertedIsRow ==
    ASSUME NEW s \in Sessions, s.user \in Users, s.tenant \in Tenants, s.role \in TenantRoles, s.actor \in Users
    PROVE  /\ Inserted(s) \in Rows /\ Inserted(s) # Absent /\ Inserted(s).state = "active"
           /\ Inserted(s).user = s.user /\ Inserted(s).tenant = s.tenant
           /\ Inserted(s).role = s.role /\ Inserted(s).by = s.actor
BY DEF Inserted, Rows, Absent

LEMMA CommittedInsert ==
    ASSUME MInv, NEW r \in Requests, Commit(r), req[r].op # "revoke"
    PROVE  /\ req[r].id = r /\ row'[r] \in Rows /\ row'[r] # Absent /\ row'[r].state = "active"
           /\ row'[r].user = req[r].user /\ row'[r].tenant = req[r].tenant
           /\ row'[r].role = req[r].role /\ row'[r].by = req[r].actor
<1>1. /\ req[r] \in Sessions /\ req[r].id = r /\ req[r].tenant \in Tenants /\ req[r].actor \in Users
      /\ req[r].user \in Users /\ req[r].role \in TenantRoles /\ row'[r] = Inserted(req[r])
  BY CommittedRow
<1> QED
  BY <1>1, InsertedIsRow

\* After a commit, an active row was active, or is the one inserted.
LEMMA ActiveAfterCommit ==
    ASSUME MInv, NEW r \in Requests, Commit(r), NEW i \in Ids, row'[i].state = "active"
    PROVE  \/ row'[i] = row[i]
           \/ i = r /\ req[r].op # "revoke" /\ row'[i] = Inserted(req[r])
<1>1. CASE i # req[r].id
  BY <1>1, CommittedRow
<1>2. CASE i = req[r].id /\ req[r].op = "revoke"
  <2>1. row[i] \in Rows /\ row[i] # Absent /\ row'[i] = [row[i] EXCEPT !.state = "revoked"]
    BY <1>2, CommittedRow DEF MInv, TypeOK
  <2>2. row'[i].state = "revoked"
    BY <2>1 DEF Rows
  <2> QED
    BY <2>2
<1>3. CASE i = req[r].id /\ req[r].op # "revoke"
  BY <1>3, CommittedRow
<1> QED
  BY <1>1, <1>2, <1>3

LEMMA CommitKeepsTypes ==
    ASSUME MInv, NEW r \in Requests, Commit(r)
    PROVE  TypeOK'
<1>1. tenants' \subseteq Tenants /\ log' \subseteq Entries
  <2>1. req[r].tenant \in Tenants /\ req[r].op \in Ops /\ req[r].id \in Ids /\ req[r].actor \in Users
    BY CommittedRow
  <2> QED
    BY <2>1 DEF MInv, TypeOK, Commit, Entries
<1>2. row' \in [Ids -> Rows]
  <2>1. row' = [i \in Ids |-> row'[i]] /\ row \in [Ids -> Rows]
    BY DEF Commit, MInv, TypeOK
  <2>2. row'[req[r].id] \in Rows
    <3>1. CASE req[r].op = "revoke"
      <4>1. row[req[r].id] \in Rows /\ row[req[r].id] # Absent
            /\ row'[req[r].id] = [row[req[r].id] EXCEPT !.state = "revoked"]
        BY <2>1, <3>1, CommittedRow
      <4> QED
        BY <4>1 DEF Rows
    <3>2. CASE req[r].op # "revoke"
      BY <3>2, CommittedInsert
    <3> QED
      BY <3>1, <3>2
  <2>3. \A i \in Ids \ {req[r].id} : row'[i] = row[i]
    BY CommittedRow
  <2>4. \A i \in Ids : row'[i] \in Rows
    BY <2>1, <2>2, <2>3
  <2> QED
    BY <2>1, <2>4
<1>3. rowLock' \in [Ids -> Requests \union {None}]
  BY DEF MInv, TypeOK, Commit, Release
<1>4. req' \in [Requests -> Sessions]
  <2>1. [req[r] EXCEPT !.pc = "done"] \in Sessions
    BY MovedSession DEF MInv, TypeOK, ProgramCounters
  <2> QED
    BY <2>1 DEF MInv, TypeOK, Commit
<1> QED
  BY <1>1, <1>2, <1>3, <1>4 DEF TypeOK

LEMMA CommitKeepsOneActive ==
    ASSUME MInv, NEW r \in Requests, Commit(r)
    PROVE  OneActiveMembership'
<1> SUFFICES ASSUME NEW i \in Ids, NEW j \in Ids, row'[i].state = "active",
                    row'[j].state = "active", SameKey(row'[i], row'[j])
             PROVE  i = j
  BY DEF OneActiveMembership, IsActive
<1>1. ASSUME NEW k \in Ids, row'[k] = row[k], row[k].state = "active", req[r].op # "revoke"
      PROVE  ~SameKey(row[k], Inserted(req[r])) /\ ~SameKey(Inserted(req[r]), row[k])
  <2>1. ~SameKey(row[k], req[r])
    BY <1>1, CommittedRow DEF NoneActive
  <2>2. /\ Inserted(req[r]).user = req[r].user /\ Inserted(req[r]).tenant = req[r].tenant
        /\ Inserted(req[r]).role = req[r].role
    BY DEF Inserted
  <2> QED
    BY <2>1, <2>2 DEF SameKey
<1>2. CASE row'[i] = row[i] /\ row'[j] = row[j]
  BY <1>2 DEF MInv, OneActiveMembership, IsActive
<1>3. CASE row'[i] # row[i]
  BY <1>1, <1>3, ActiveAfterCommit
<1>4. CASE row'[j] # row[j]
  BY <1>1, <1>4, ActiveAfterCommit
<1> QED
  BY <1>2, <1>3, <1>4

LEMMA CommitKeepsAuthority ==
    ASSUME MInv, NEW r \in Requests, Commit(r)
    PROVE  EveryChangeAuthorised'
<1> DEFINE s == req[r]
           entry == [action |-> s.op, id |-> s.id, by |-> s.actor]
<1>1. log' = log \union {entry}
  BY DEF Commit
<1>2. EveryChangeAuthorised
  BY DEF MInv
<1>3. row \in [Ids -> Rows] /\ log \subseteq Entries
  BY DEF MInv, TypeOK
<1>4. Logged'
  <2> SUFFICES ASSUME NEW i \in Ids
               PROVE  /\ row'[i] # Absent /\ i \notin Seeds =>
                            \E e \in log' : e.action \in {"grant", "create"} /\ e.id = i
                      /\ row'[i].state = "revoked" => \E e \in log' : e.action = "revoke" /\ e.id = i
    BY DEF Logged
  <2>1. CASE row'[i] = row[i]
    BY <1>1, <1>2, <2>1 DEF EveryChangeAuthorised, Logged
  <2>2. CASE row'[i] # row[i]
    <3>1. i = s.id /\ s.op \in {"grant", "revoke", "create"}
      BY <2>2, CommittedRow DEF Ops
    <3>2. entry \in log' /\ entry.id = i /\ entry.action = s.op
      BY <1>1, <3>1
    <3>3. CASE s.op = "revoke"
      <4>1. row[i] # Absent
        BY <3>1, <3>3, CommittedRow
      <4>2. i \notin Seeds => \E e \in log' : e.action \in {"grant", "create"} /\ e.id = i
        BY <1>1, <1>2, <4>1 DEF EveryChangeAuthorised, Logged
      <4> QED
        BY <3>2, <3>3, <4>2
    <3>4. CASE s.op # "revoke"
      <4>1. row'[i].state = "active"
        BY <3>1, <3>4, CommittedInsert
      <4> QED
        BY <3>1, <3>2, <3>4, <4>1
    <3> QED
      BY <3>3, <3>4
  <2> QED
    BY <2>1, <2>2
<1>5. ASSUME NEW e \in log'
      PROVE  /\ row'[e.id] # Absent
             /\ e.action # "revoke" => e.by = row'[e.id].by
             /\ e.action = "create" => row'[e.id].user = row'[e.id].by /\ row'[e.id].role \in AdminRoles
             /\ e.action # "create" => WasAdminIn(e.by, row'[e.id].tenant, row')
             /\ e.action = "revoke" => row'[e.id].state = "revoked" /\ e.by # row'[e.id].user
  <2>1. CASE e \in log
    <3>1. e.id \in Ids /\ e.by \in Users
      BY <1>3, <2>1 DEF Entries
    <3>2. /\ row[e.id] # Absent
          /\ e.action # "revoke" => e.by = row[e.id].by
          /\ e.action = "create" => row[e.id].user = row[e.id].by /\ row[e.id].role \in AdminRoles
          /\ e.action # "create" => WasAdminIn(e.by, row[e.id].tenant, row)
          /\ e.action = "revoke" => row[e.id].state = "revoked" /\ e.by # row[e.id].user
      BY <1>2, <2>1 DEF EveryChangeAuthorised, WasAdmin, WasAdminIn
    <3> QED
      BY <3>1, <3>2, RowsStay, AdminsStay
  <2>2. CASE e = entry /\ s.op = "revoke"
    <3>1. e.id = s.id /\ e.by = s.actor /\ e.action = "revoke"
      BY <2>2
    <3>2. row[s.id] # Absent /\ row[s.id].tenant = s.tenant /\ row[s.id].user # s.actor
          /\ row'[s.id] = [row[s.id] EXCEPT !.state = "revoked"] /\ s.id \in Ids /\ s.actor \in Users
          /\ WasAdminIn(s.actor, s.tenant, row)
      BY <2>2, CommittedRow
    <3>3. row'[s.id].state = "revoked"
      BY <1>3, <3>2 DEF Rows
    <3>4. WasAdminIn(s.actor, s.tenant, row')
      BY <3>2, AdminsStay
    <3> QED
      BY <3>1, <3>2, <3>3, <3>4, RowsStay
  <2>3. CASE e = entry /\ s.op # "revoke"
    <3>1. e.id = s.id /\ e.by = s.actor /\ e.action = s.op
      BY <2>3
    <3>2. /\ row'[s.id] # Absent /\ row'[s.id].by = s.actor /\ row'[s.id].user = s.user
          /\ row'[s.id].role = s.role /\ row'[s.id].tenant = s.tenant
      BY <2>3, CommittedInsert
    <3>3. s.op = "create" => s.role \in AdminRoles /\ s.user = s.actor
      BY CommittedRow
    <3>4. s.op # "create" => WasAdminIn(s.actor, s.tenant, row')
      BY CommittedRow, AdminsStay
    <3> QED
      BY <2>3, <3>1, <3>2, <3>3, <3>4
  <2> QED
    BY <1>1, <2>1, <2>2, <2>3
<1> QED
  BY <1>4, <1>5 DEF EveryChangeAuthorised, WasAdmin, WasAdminIn

LEMMA CommitKeepsFits ==
    ASSUME MInv, NEW r \in Requests, Commit(r), NEW o \in Requests \ {r}
    PROVE  Fit(o, req[o], tenants', row')
<1>1. Fit(o, req[o], tenants, row) /\ Apart(req[r], req[o]) /\ req[r].pc = "commit"
  BY DEF MInv, Commit
<1>2. tenants' = tenants \union {req[r].tenant}
  BY DEF Commit
<1>3. ASSUME row[o] = Absent PROVE row'[o] = Absent
  <2>1. o # req[r].id
    BY <1>3, CommittedRow
  <2> QED
    BY <1>3, <2>1, OthersStay DEF Ids
<1>4. ASSUME Granting(o, req[o], tenants, row), req[o].actor \in Users, req[o].op # "revoke"
      PROVE  Granting(o, req[o], tenants', row')
  <2>1. WasAdminIn(req[o].actor, req[o].tenant, row')
    BY <1>4, AdminsStay DEF Granting
  <2>2. ASSUME req[o].pc = "commit" PROVE NoneActive(req[o], row')
    <3> SUFFICES ASSUME NEW i \in Ids, row'[i].state = "active" PROVE ~SameKey(row'[i], req[o])
      BY DEF NoneActive
    <3>1. CASE row'[i] = row[i]
      BY <1>4, <2>2, <3>1 DEF Granting, NoneActive
    <3>2. CASE row'[i] # row[i]
      <4>1. i = r /\ req[r].op # "revoke"
        BY <3>2, ActiveAfterCommit
      <4>2. ~SameKey(req[r], req[o])
        BY <1>1, <1>4, <2>2, <4>1 DEF Apart, Inserting
      <4> QED
        BY <4>1, <4>2, CommittedInsert DEF SameKey
    <3> QED
      BY <3>1, <3>2
  <2> QED
    BY <1>2, <1>4, <2>1, <2>2 DEF Granting
<1>5. ASSUME Creating(o, req[o], tenants), req[o].op = "create"
      PROVE  Creating(o, req[o], tenants')
  <2>1. ASSUME req[o].pc = "commit" PROVE req[r].tenant # req[o].tenant
    <3>1. CASE req[r].op = "create"
      BY <1>1, <1>5, <2>1, <3>1 DEF Apart, Inserting
    <3>2. CASE req[r].op # "create"
      BY <1>5, <2>1, <3>2, CommittedRow DEF Creating
    <3> QED
      BY <3>1, <3>2
  <2> QED
    BY <1>2, <1>5, <2>1 DEF Creating
<1>6. ASSUME Revoking(req[o], row), req[o].actor \in Users, req[o].id \in Ids
      PROVE  Revoking(req[o], row')
  <2>1. WasAdminIn(req[o].actor, req[o].tenant, row')
    BY <1>6, AdminsStay DEF Revoking
  <2>2. req[o].seen \subseteq Ids
    BY DEF MInv, TypeOK, Sessions
  <2>3. req[o].pc # "load" =>
          /\ row'[req[o].id] # Absent /\ row'[req[o].id].tenant = req[o].tenant
          /\ row'[req[o].id].user # req[o].actor /\ row'[req[o].id].role = row[req[o].id].role
    BY <1>6, RowsStay DEF Revoking
  <2>4. \A i \in req[o].seen :
          row[i] # Absent => /\ row'[i] # Absent /\ row'[i].tenant = row[i].tenant
                             /\ row'[i].role = row[i].role
    BY <2>2, RowsStay
  <2> QED
    BY <1>6, <2>1, <2>3, <2>4 DEF Revoking
<1> QED
  BY <1>1, <1>3, <1>4, <1>5, <1>6 DEF Fit, Ops

LEMMA CommitKeepsMInv ==
    ASSUME MInv, NEW r \in Requests, Commit(r)
    PROVE  MInv'
<1>1. /\ \A o \in Requests \ {r} : req'[o] = req[o]
      /\ req'[r].pc = "done"
  BY DEF MInv, TypeOK, Commit, Sessions
<1>2. \A i \in Ids : row'[i] # Absent => row'[i].tenant \in tenants'
  <2> SUFFICES ASSUME NEW i \in Ids, row'[i] # Absent PROVE row'[i].tenant \in tenants'
    OBVIOUS
  <2>1. tenants' = tenants \union {req[r].tenant}
    BY DEF Commit
  <2>2. CASE row[i] # Absent
    BY <2>1, <2>2, RowsStay DEF MInv
  <2>3. CASE row[i] = Absent
    <3>1. i = req[r].id /\ req[r].op # "revoke"
      BY <2>3, CommittedRow
    <3> QED
      BY <2>1, <3>1, CommittedInsert
  <2> QED
    BY <2>2, <2>3
<1>3. \A o \in Requests : Fit(o, req'[o], tenants', row')
  <2>1. Fit(r, req'[r], tenants', row')
    BY <1>1 DEF Fit, OpenPoints
  <2> QED
    BY <1>1, <2>1, CommitKeepsFits
<1>4. \A o, p \in Requests : o # p => Apart(req'[o], req'[p])
  BY <1>1 DEF MInv, Apart, Inserting
<1> QED
  BY <1>2, <1>3, <1>4, CommitKeepsTypes, CommitKeepsOneActive, CommitKeepsAuthority DEF MInv

LEMMA RollbackKeepsMInv ==
    ASSUME MInv, NEW r \in Requests, Rollback(r)
    PROVE  MInv'
<1>1. rowLock' \in [Ids -> Requests \union {None}]
  BY DEF Rollback, Release, MInv, TypeOK
<1> QED
  BY <1>1, SessionStep, EndedFits, SessionsAreTyped DEF Rollback

LEMMA StepKeepsMInv == MInv /\ [Next]_vars => MInv'
<1> SUFFICES ASSUME MInv, [Next]_vars PROVE MInv'
  OBVIOUS
<1>1. ASSUME NEW r \in Requests, Advance(r) PROVE MInv'
  BY <1>1, FindActiveKeepsMInv, InsertMembershipKeepsMInv, LoadTargetKeepsMInv,
     CountAdminsKeepsMInv, ReloadKeepsMInv, WriteRevokedKeepsMInv, CheckSlugKeepsMInv,
     InsertTenantKeepsMInv, CommitKeepsMInv DEF Advance
<1>2. CASE \E r \in Requests :
              Grant(r) \/ Revoke(r) \/ CreateTenant(r) \/ Advance(r) \/ Rollback(r)
  BY <1>1, <1>2, GrantKeepsMInv, RevokeKeepsMInv, CreateTenantKeepsMInv, RollbackKeepsMInv
<1>3. CASE UNCHANGED vars
  BY <1>3 DEF MInv, TypeOK, OneActiveMembership, EveryChangeAuthorised, Logged, WasAdmin,
              IsActive, vars
<1> QED
  BY <1>2, <1>3 DEF Next, AllAnswered

-------------------------------------------------------------------------------
(* The theorems.                                                            *)

\* Rows, locks, requests and the log keep their types.
THEOREM MembershipsTypeCorrect == Spec => []TypeOK
<1>1. MInv => TypeOK
  BY DEF MInv
<1> QED
  BY <1>1, InitEstablishesMInv, StepKeepsMInv, PTL DEF Spec

\* However many grants have looked for a duplicate before any of them inserts, a user has a
\* role in a tenant once: the index compares with the rows and with those about to insert.
THEOREM OneActiveMembershipHolds == Spec => []OneActiveMembership
<1>1. MInv => OneActiveMembership
  BY DEF MInv
<1> QED
  BY <1>1, InitEstablishesMInv, StepKeepsMInv, PTL DEF Spec

\* What is committed about memberships is logged, and was done by somebody who could once
\* manage the tenant, to somebody else if it was a revocation.
THEOREM EveryChangeAuthorisedHolds == Spec => []EveryChangeAuthorised
<1>1. MInv => EveryChangeAuthorised
  BY DEF MInv
<1> QED
  BY <1>1, InitEstablishesMInv, StepKeepsMInv, PTL DEF Spec

LEMMA OnlyCommitsChangeRows ==
    ASSUME Next
    PROVE  UNCHANGED <<tenants, row>> \/ \E r \in Requests : Commit(r)
BY DEF Next, AllAnswered, vars, Advance, Grant, Revoke, CreateTenant, Rollback, FindActive,
       InsertMembership, LoadTarget, CountAdmins, Reload, WriteRevoked, CheckSlug, InsertTenant

\* A commit that leaves a tenant without admins revoked one while another that it had
\* counted was revoked too.
LEMMA LastAdminGoesToRaces ==
    ASSUME MInv, NEW r \in Requests, Commit(r), NEW t \in Tenants,
           Administered(t), ~Administered(t)'
    PROVE  \E i \in req[r].seen \ {req[r].id} : row[i].state = "revoked"
<1>1. PICK a \in Ids : row[a].state = "active" /\ row[a].tenant = t /\ row[a].role \in AdminRoles
  BY DEF Administered, ActiveAdmins, IsActive
<1>2. \A i \in Ids : ~(row'[i].state = "active" /\ row'[i].tenant = t /\ row'[i].role \in AdminRoles)
  BY DEF Administered, ActiveAdmins, IsActive
<1>3. a = req[r].id
  <2>1. row'[a] # row[a]
    BY <1>1, <1>2
  <2> QED
    BY <2>1, OthersStay
<1>4. req[r].op = "revoke"
  <2>1. row[a] # Absent
    BY <1>1 DEF Absent
  <2>2. req[r].op # "revoke" => req[r].id = r /\ row[r] = Absent
    BY CommittedRow
  <2> QED
    BY <1>3, <2>1, <2>2
<1>5. Revoking(req[r], row) /\ req[r].pc = "commit" /\ req[r].seen \subseteq Ids
  BY <1>4 DEF MInv, Fit, TypeOK, Sessions, Commit, OpenPoints
<1>6. req[r].tenant = t
  BY <1>1, <1>3, <1>4, CommittedRow
<1>7. PICK i \in req[r].seen : /\ i # req[r].id /\ row[i] # Absent
                               /\ row[i].tenant = t /\ row[i].role \in AdminRoles
  BY <1>1, <1>3, <1>5, <1>6 DEF Revoking
<1>8. row[i] \in Rows /\ row'[i] = row[i]
  <2>1. i \in Ids /\ i # req[r].id
    BY <1>5, <1>7
  <2> QED
    BY <2>1, OthersStay DEF MInv, TypeOK
<1>9. row[i].state # "active"
  BY <1>2, <1>5, <1>7, <1>8
<1> QED
  BY <1>7, <1>8, <1>9, SeedsAreRows

\* A tenant is founded with an admin; that it loses its last one takes two revocations, one of
\* which was committed after the other had counted (the revoke of IdentityService).
THEOREM OnlyRacesLoseAdminsHolds == Spec => OnlyRacesLoseAdmins
<1> DEFINE Step(t) ==
        /\ t \notin tenants /\ t \in tenants' => Administered(t)'
        /\ Administered(t) /\ ~Administered(t)' =>
            \E r \in Requests :
                /\ req[r].pc = "commit" /\ req'[r].pc = "done"
                /\ \E i \in req[r].seen \ {req[r].id} : row[i].state = "revoked"
<1>1. MInv /\ [Next]_vars => [\A t \in Tenants : Step(t)]_vars
  <2> SUFFICES ASSUME MInv, Next, NEW t \in Tenants PROVE Step(t)
    BY DEF vars
  <2>1. CASE UNCHANGED <<tenants, row>>
    BY <2>1 DEF Administered, ActiveAdmins, IsActive
  <2>2. ASSUME NEW r \in Requests, Commit(r) PROVE Step(t)
    <3>1. ASSUME t \notin tenants, t \in tenants' PROVE Administered(t)'
      <4>1. t = req[r].tenant /\ req[r].op = "create"
        <5>1. t = req[r].tenant
          BY <2>2, <3>1 DEF Commit
        <5>2. req[r].op # "create" => req[r].tenant \in tenants
          BY <2>2, CommittedRow
        <5> QED
          BY <3>1, <5>1, <5>2
      <4>2. row'[r].state = "active" /\ row'[r].tenant = t /\ row'[r].role \in AdminRoles
        BY <2>2, <4>1, CommittedRow, CommittedInsert
      <4> QED
        BY <4>2 DEF Administered, ActiveAdmins, IsActive, Ids
    <3>2. req[r].pc = "commit" /\ req'[r].pc = "done"
      BY <2>2 DEF Commit, MInv, TypeOK, Sessions
    <3>3. Administered(t) /\ ~Administered(t)' =>
            \E i \in req[r].seen \ {req[r].id} : row[i].state = "revoked"
      BY <2>2, LastAdminGoesToRaces
    <3> QED
      BY <3>1, <3>2, <3>3
  <2> QED
    BY <2>1, <2>2, OnlyCommitsChangeRows
<1> QED
  BY <1>1, InitEstablishesMInv, StepKeepsMInv, PTL DEF Spec, OnlyRacesLoseAdmins

===============================================================================
