------------------------------- MODULE Businesses -------------------------------
(***************************************************************************)
(* The business profiles of tenants, as BusinessProfileService             *)
(* (app/modules/business_profile/service.py) keeps them for the routes of  *)
(* api/v1/routers/businesses.py.  Each request is a transaction of its own *)
(* under READ COMMITTED: it reads the business once, keeps that copy for   *)
(* the rest of the session, and its UPDATE sends only the columns that     *)
(* differ from the copy.  The uniqueness score is derived from the name    *)
(* and the aliases and stored beside them.                                 *)
(***************************************************************************)
EXTENDS Naturals, FiniteSets

CONSTANTS
    Requests,       \* the requests that may arrive, each made once
    Seeds, SeedOf,  \* businesses there are to begin with, and their tenants
    Tenants, Direct,\* the tenants, and those of type direct_business
    Names,          \* the names a business may be given
    Actors,
    Roles, Scope,   \* an actor's roles in a tenant, and the businesses of its scope
    None

\* A business is named by the request that created it.
Ids == Requests \union Seeds

\* What _assert_write_access takes for access to all of a tenant.
BroadRoles == {"agency_admin", "business_owner"}

\* update_business is a rename if it is given a name, and else a change of other columns.
Ops == {"create", "rename", "update", "delete", "alias", "primary", "location", "keywords"}

\* A score is what it was computed from: _compute_uniqueness_score is a function of these.
Scores == [name : Names, aliases : SUBSET Requests]
Score(n, aliases) == [name |-> n, aliases |-> aliases]

ASSUME BusinessesAssumption ==
    /\ Requests \intersect Seeds = {}
    /\ SeedOf \in [Seeds -> Tenants]
    /\ Direct \subseteq Tenants
    /\ \A b, c \in Seeds : SeedOf[b] = SeedOf[c] /\ SeedOf[b] \in Direct => b = c
    /\ Roles \in [Actors \X Tenants -> SUBSET (BroadRoles \union {"business_member", "platform_admin"})]
    /\ Scope \in [Actors -> SUBSET Seeds]
    /\ None \notin Ids \union Tenants \union Names \union Scores

VARIABLES
    row,        \* row[b]: the committed businesses row b
    child,      \* child[r]: the committed alias, location or keywords request r has added
    rowLock,    \* rowLock[b]: the transaction that has written row b
    tenantLock, \* tenantLock[t]: the transaction that holds tenant t FOR UPDATE
    call,       \* call[r]: the request's program counter, copy and uncommitted writes
    raced       \* history: the businesses last scored by a request another had overtaken

vars == <<row, child, rowLock, tenantLock, call, raced>>

-------------------------------------------------------------------------------
Statuses == {"trial", "active", "suspended", "deleted"}

NoRow == [tenant |-> None, name |-> None, status |-> None, deleted |-> FALSE, score |-> None]
Rows == [tenant : Tenants, name : Names, status : Statuses, deleted : BOOLEAN, score : Scores]

\* What is attached to a business; a primary location is one with is_primary.
Kinds == {"alias", "primary", "location", "keywords"}
NoChild == [kind |-> None, of |-> None]
Children == [kind : Kinds, of : Ids]

\* The columns a transaction is going to write; None is a column it leaves alone.
NoWrites == [name |-> None, status |-> None, deleted |-> FALSE, score |-> None]
Writes == [name : Names \union {None}, status : Statuses \union {None},
           deleted : BOOLEAN, score : Scores \union {None}]

OpenPoints == {"insert", "attach", "list", "write", "commit"}

\* id is the business, tenant that of the request's context.
Calls == [pc : {"new", "done"} \union OpenPoints, op : Ops \union {None},
          id : Ids \union {None}, tenant : Tenants \union {None},
          copy : Rows \union {NoRow}, writes : Writes, overtaken : BOOLEAN]

NewCall == [pc |-> "new", op |-> None, id |-> None, tenant |-> None, copy |-> NoRow,
            writes |-> NoWrites, overtaken |-> FALSE]
Over == [NewCall EXCEPT !.pc = "done"]

TypeOK ==
    /\ row \in [Ids -> Rows \union {NoRow}]
    /\ child \in [Requests -> Children \union {NoChild}]
    /\ rowLock \in [Ids -> Requests \union {None}]
    /\ tenantLock \in [Tenants -> Requests \union {None}]
    /\ call \in [Requests -> Calls]
    /\ raced \subseteq Ids

Init ==
    \E n \in Names :
    /\ row = [b \in Ids |-> IF b \in Seeds
                            THEN [tenant |-> SeedOf[b], name |-> n, status |-> "trial",
                                  deleted |-> FALSE, score |-> Score(n, {})]
                            ELSE NoRow]
    /\ child = [r \in Requests |-> NoChild]
    /\ rowLock = [b \in Ids |-> None]
    /\ tenantLock = [t \in Tenants |-> None]
    /\ call = [r \in Requests |-> NewCall]
    /\ raced = {}

InTransaction(r) == call[r].pc \in OpenPoints

Release(r) ==
    /\ rowLock' = [b \in Ids |-> IF rowLock[b] = r THEN None ELSE rowLock[b]]
    /\ tenantLock' = [t \in Tenants |-> IF tenantLock[t] = r THEN None ELSE tenantLock[t]]

-------------------------------------------------------------------------------
(* Access and the first read.                                               *)

\* has_role looks for one membership with one of two roles, by scalar_one_or_none: an actor
\* who has both gets an error.  A scope gives access to its businesses, on the routes that
\* admit a business_member.
MayWrite(a, t, b, op) ==
    LET held == Roles[a, t] \intersect BroadRoles IN
    /\ Cardinality(held) <= 1
    /\ \/ held # {}
       \/ "platform_admin" \in Roles[a, t]
       \/ op \in Kinds /\ "business_member" \in Roles[a, t] /\ b \in Scope[a]

\* Faulty variant: get_by_id finds a deleted business too.
StillStored(b, t) == row[b] # NoRow /\ row[b].tenant = t
\* get_by_id, which asks for the tenant itself.  The policies of migration 001 would also
\* filter by the caller's scope (businesses_scope_filter); they do not bind the superuser the
\* repository's services connect as, and are left out.
Visible(b, t) == row[b] # NoRow /\ row[b].tenant = t /\ ~row[b].deleted

\* create_business, once the name, the access and the category have been looked at.
CreateBusiness(r) ==
    /\ call[r].pc = "new"
    /\ \E t \in Tenants, n \in Names :
        /\ \E a \in Actors : MayWrite(a, t, None, "create")
        /\ call' = [call EXCEPT ![r] = [NewCall EXCEPT
               !.pc = "insert", !.op = "create", !.id = r, !.tenant = t,
               !.writes = [NoWrites EXCEPT !.name = n, !.status = "trial"]]]
    /\ UNCHANGED <<row, child, rowLock, tenantLock, raced>>

\* The other operations begin with get_business, whose row is the session's copy from then
\* on: a later SELECT of it only looks whether the business is still there.
BeginOn(r, b, t, op, pc, columns) ==
    /\ call[r].pc = "new"
    /\ \E a \in Actors : MayWrite(a, t, b, op)
    /\ Visible(b, t)
    /\ \E w \in columns :
        call' = [call EXCEPT ![r] = [NewCall EXCEPT !.pc = pc, !.op = op, !.id = b,
                                        !.tenant = t, !.copy = row[b], !.writes = w]]
    /\ UNCHANGED <<row, child, rowLock, tenantLock, raced>>

\* What the session sends of a column that is given v and was loaded as old.
Sent(v, old) == IF v = old THEN None ELSE v

\* update_business, given a name and maybe a status.
Rename(r) ==
    \E b \in Ids, t \in Tenants :
        BeginOn(r, b, t, "rename", "write",
            {[NoWrites EXCEPT !.name = Sent(x[1], row[b].name), !.status = Sent(x[2], row[b].status)] :
                 x \in Names \X {"suspended", row[b].status}})

\* update_business without a name: BusinessUpdate takes any status, deleted among them.
UpdateStatus(r) ==
    \E b \in Ids, t \in Tenants :
        BeginOn(r, b, t, "update", "write",
            {[NoWrites EXCEPT !.status = Sent(s, row[b].status)] : s \in Statuses})

DeleteBusiness(r) ==
    \E b \in Ids, t \in Tenants :
        BeginOn(r, b, t, "delete", "write",
            {[NoWrites EXCEPT !.deleted = TRUE, !.status = Sent("deleted", row[b].status)]})

\* add_alias, add_location with and without is_primary, add_keywords.
AddChild(r) ==
    \E kind \in Kinds, b \in Ids, t \in Tenants :
        BeginOn(r, b, t, kind, IF kind = "alias" THEN "list" ELSE "attach", {NoWrites})

-------------------------------------------------------------------------------
(* Statements.                                                              *)

Advance(r, pc) == call' = [call EXCEPT ![r].pc = pc]

\* The other businesses of the tenant that the trigger counts: all of them, as long as the
\* scope filter does not bind the role that inserts.
Others(r) == {b \in Ids \ {r} : Visible(b, call[r].tenant)}

\* Faulty variant: the trigger counts without the lock of the tenant.
CountUnlocked(r) ==
    /\ call[r].pc = "insert"
    /\ IF call[r].tenant \in Direct /\ Others(r) # {}
       THEN call' = [call EXCEPT ![r] = Over]
       ELSE call' = [call EXCEPT ![r].pc = "commit",
                                 ![r].writes.score = Score(call[r].writes.name, {})]
    /\ UNCHANGED <<row, child, rowLock, tenantLock, raced>>

\* The INSERT's trigger locks the tenant, waiting for whoever is creating a business in it,
\* and then counts.  The score of the new row follows in an UPDATE of its own.
InsertBusiness(r) ==
    LET t == call[r].tenant IN
    /\ call[r].pc = "insert"
    /\ tenantLock[t] = None
    /\ IF t \in Direct /\ Others(r) # {}
       THEN call' = [call EXCEPT ![r] = Over] /\ UNCHANGED tenantLock
       ELSE /\ tenantLock' = [tenantLock EXCEPT ![t] = r]
            /\ call' = [call EXCEPT ![r].pc = "commit",
                                    ![r].writes.score = Score(call[r].writes.name, {})]
    /\ UNCHANGED <<row, child, rowLock, raced>>

Primaries(b) == {r \in Requests : child[r] = [kind |-> "primary", of |-> b]}

\* The INSERT of a location or of keywords.  That of a primary location waits for one of the
\* same business that is not committed, and fails if there is one.
InsertChild(r) ==
    LET b == call[r].id IN
    /\ call[r].pc = "attach"
    /\ IF call[r].op = "primary"
       THEN /\ \A o \in Requests \ {r} :
                    ~(call[o].pc = "commit" /\ call[o].op = "primary" /\ call[o].id = b)
            /\ IF Primaries(b) = {} THEN Advance(r, "commit")
                                    ELSE call' = [call EXCEPT ![r] = Over]
       ELSE Advance(r, "commit")
    /\ UNCHANGED <<row, child, rowLock, tenantLock, raced>>

Aliases(b) == {r \in Requests : child[r] = [kind |-> "alias", of |-> b]}

\* Faulty variant: add_alias lists the aliases before its own is inserted.
RescoreWithoutOwn(r) ==
    LET name == IF call[r].writes.name = None THEN call[r].copy.name ELSE call[r].writes.name
    IN Sent(Score(name, Aliases(call[r].id)), call[r].copy.score)

\* The score from the name of the session's copy and the aliases a SELECT finds now, the
\* request's own among them.
Rescore(r) ==
    LET own == IF call[r].op = "alias" THEN {r} ELSE {}
        name == IF call[r].writes.name = None THEN call[r].copy.name ELSE call[r].writes.name
    IN Sent(Score(name, Aliases(call[r].id) \union own), call[r].copy.score)

\* add_alias has inserted its row, looks for the business once more and computes the score
\* it will write; update_business, given a name, computes it with the row locked.
ListAliases(r) ==
    /\ call[r].pc = "list"
    /\ IF call[r].op = "alias" /\ ~Visible(call[r].id, call[r].tenant)
       THEN call' = [call EXCEPT ![r] = Over]
       ELSE call' = [call EXCEPT ![r].pc = IF call[r].op = "alias" THEN "write" ELSE "commit",
                                 ![r].writes.score = Rescore(r)]
    /\ UNCHANGED <<row, child, rowLock, tenantLock, raced>>

\* The UPDATE waits for the lock of the row; it has no condition but the identifier.
UpdateBusiness(r) ==
    /\ call[r].pc = "write"
    /\ rowLock[call[r].id] = None
    /\ rowLock' = [rowLock EXCEPT ![call[r].id] = r]
    /\ Advance(r, IF call[r].op = "rename" THEN "list" ELSE "commit")
    /\ UNCHANGED <<row, child, tenantLock, raced>>

-------------------------------------------------------------------------------
(* Committing.                                                              *)

Or(v, old) == IF v = None THEN old ELSE v

\* Faulty variant: the columns left alone are written as null.
WrittenWithNulls(old, c) ==
    [tenant |-> c.tenant, name |-> c.writes.name, status |-> c.writes.status,
     deleted |-> old.deleted \/ c.writes.deleted, score |-> c.writes.score]

\* The row after a transaction's columns have been applied to the newest version of it.
Written(old, c) ==
    [tenant |-> c.tenant, name |-> Or(c.writes.name, old.name),
     status |-> Or(c.writes.status, old.status),
     deleted |-> old.deleted \/ c.writes.deleted, score |-> Or(c.writes.score, old.score)]

\* The operations that derive the score anew.
Rescoring == {"create", "rename", "alias"}

\* What r writes becomes visible, and r lets its locks go.
Commit(r) ==
    LET c == call[r] IN
    /\ c.pc = "commit"
    /\ row' = [row EXCEPT ![c.id] = IF c.op \in Kinds \ {"alias"} THEN @ ELSE Written(@, c)]
    /\ child' = IF c.op \in Kinds THEN [child EXCEPT ![r] = [kind |-> c.op, of |-> c.id]]
                                  ELSE child
    /\ raced' = IF c.op \in Rescoring
                THEN IF c.overtaken THEN raced \union {c.id} ELSE raced \ {c.id}
                ELSE raced
    /\ Release(r)
    /\ call' = [o \in Requests |->
                    IF o = r THEN Over
                    ELSE IF c.op \in Rescoring /\ call[o].id = c.id
                         THEN [call[o] EXCEPT !.overtaken = TRUE] ELSE call[o]]

\* A database error, a cancelled request or a crashed worker.
Rollback(r) ==
    /\ InTransaction(r)
    /\ Release(r)
    /\ call' = [call EXCEPT ![r] = Over]
    /\ UNCHANGED <<row, child, raced>>

-------------------------------------------------------------------------------
Begin(r) ==
    \/ CreateBusiness(r)
    \/ Rename(r)
    \/ UpdateStatus(r)
    \/ DeleteBusiness(r)
    \/ AddChild(r)

Step(r) ==
    \/ InsertBusiness(r)
    \/ InsertChild(r)
    \/ ListAliases(r)
    \/ UpdateBusiness(r)
    \/ Commit(r)

AllOver ==
    /\ \A r \in Requests : call[r].pc = "done"
    /\ UNCHANGED vars

Next ==
    \/ \E r \in Requests : Begin(r) \/ Step(r) \/ Rollback(r)
    \/ AllOver

Spec == Init /\ [][Next]_vars

-------------------------------------------------------------------------------
(* Properties.                                                              *)

\* However requests overlap, a direct_business tenant has one business that is not deleted.
SingletonKept ==
    \A b, c \in Ids :
        /\ row[b] # NoRow /\ row[c] # NoRow
        /\ row[b].tenant = row[c].tenant /\ row[b].tenant \in Direct
        /\ ~row[b].deleted /\ ~row[c].deleted
        => b = c

\* The stored score is that of the stored name and aliases, unless the request that scored
\* the business last was overtaken by another that did.  Even then it may lack aliases of
\* requests that overlapped, but counts none that is not stored.
OnlyRacesMisscore ==
    \A b \in Ids :
        row[b] # NoRow =>
            /\ b \notin raced => row[b].score = Score(row[b].name, Aliases(b))
            /\ row[b].score.aliases \subseteq Aliases(b)

\* b is deleted and no request that found it before that is still under way.
Gone(b) ==
    /\ row[b].deleted
    /\ \A r \in Requests : InTransaction(r) /\ call[r].id = b => call[r].copy.deleted

\* Nothing changes a deleted business or adds to it, once those that overlapped its deletion
\* have ended; while they have not, none of them brings it back.
DeletedIsFinal ==
    [][\A b \in Ids :
        /\ row[b].deleted => row'[b].deleted
        /\ Gone(b) => /\ row'[b] = row[b]
                      /\ \A r \in Requests : child'[r].of = b => child[r].of = b]_vars
===============================================================================
