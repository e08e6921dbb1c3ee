---------------------------- MODULE BusinessesProofs ----------------------------
(***************************************************************************)
(* The business profiles of any number of tenants under any number of      *)
(* overlapping requests: types, the one business of a direct_business      *)
(* tenant, and the finality of a deletion.                                 *)
(***************************************************************************)
EXTENDS Businesses, TLAPS

\* Of the rows rw, those of tenant t that are not deleted are business b's.
OnlyBusiness(b, t, rw) ==
    \A x \in Ids : rw[x] # NoRow /\ rw[x].tenant = t /\ ~rw[x].deleted => x = b

\* A request that creates a business is the only one to, from the INSERT on, in its tenant.
Creating(r, c, locks, rw) ==
    /\ c.id = r /\ rw[r] = NoRow /\ c.copy = NoRow
    /\ c.pc \in {"insert", "commit"} /\ c.writes.name \in Names /\ c.writes.status = "trial"
    /\ c.pc = "commit" =>
        /\ c.writes.score \in Scores
        /\ locks[c.tenant] = r
        /\ c.tenant \in Direct => OnlyBusiness(r, c.tenant, rw)

\* Any other request works on a business that was there, and still is its tenant's.
Working(c, rw) ==
    /\ c.pc # "insert"
    /\ c.copy \in Rows /\ ~c.copy.deleted
    /\ rw[c.id] # NoRow /\ rw[c.id].tenant = c.tenant

\* What c may be as the call of request r.
Fit(r, c, locks, rw) ==
    /\ c.pc = "new" => rw[r] = NoRow
    /\ c.pc \in OpenPoints =>
        /\ c.op \in Ops /\ c.id \in Ids /\ c.tenant \in Tenants
        /\ c.op = "create" => Creating(r, c, locks, rw)
        /\ c.op # "create" => Working(c, rw)

BInv ==
    /\ TypeOK /\ SingletonKept
    /\ \A r \in Requests : Fit(r, call[r], tenantLock, row)

-------------------------------------------------------------------------------
LEMMA NewCallIsTyped == NewCall \in Calls /\ Over \in Calls
BY DEF NewCall, Over, Calls, NoWrites, Writes, Ops, Kinds, OpenPoints

LEMMA InitEstablishesBInv == Init => BInv
<1> SUFFICES ASSUME Init PROVE BInv
  OBVIOUS
<1>1. PICK n \in Names :
        row = [b \in Ids |-> IF b \in Seeds
                             THEN [tenant |-> SeedOf[b], name |-> n, status |-> "trial",
                                   deleted |-> FALSE, score |-> Score(n, {})]
                             ELSE NoRow]
  BY DEF Init
<1>2. \A b \in Seeds : row[b] \in Rows /\ row[b].tenant = SeedOf[b]
  BY <1>1, BusinessesAssumption DEF Ids, Rows, Score, Scores, Statuses
<1>3. \A b \in Ids \ Seeds : row[b] = NoRow
  BY <1>1
<1>4. row \in [Ids -> Rows \union {NoRow}]
  BY <1>1, <1>2, <1>3
<1>5. TypeOK
  BY <1>4, NewCallIsTyped DEF Init, TypeOK
<1>6. SingletonKept
  BY <1>2, <1>3, BusinessesAssumption DEF SingletonKept
<1>7. \A r \in Requests : Fit(r, call[r], tenantLock, row)
  BY <1>3, BusinessesAssumption DEF Init, Fit, NewCall, OpenPoints, Ids
<1> QED
  BY <1>5, <1>6, <1>7 DEF BInv

\* A step that leaves the rows alone, and changes the call of one request to one that fits.
LEMMA CallStep ==
    ASSUME BInv, NEW r \in Requests, NEW c \in Calls,
           call' = [call EXCEPT ![r] = c],
           UNCHANGED <<row, child, raced>>,
           rowLock' \in [Ids -> Requests \union {None}],
           tenantLock' \in [Tenants -> Requests \union {None}],
           \A o \in Requests \ {r}, t \in Tenants : tenantLock[t] = o => tenantLock'[t] = o,
           Fit(r, c, tenantLock', row)
    PROVE  BInv'
<1>1. TypeOK'
  BY DEF BInv, TypeOK
<1>2. SingletonKept'
  BY DEF BInv, SingletonKept
<1>3. ASSUME NEW o \in Requests PROVE Fit(o, call'[o], tenantLock', row')
  <2>1. CASE o = r
    BY <2>1 DEF BInv, TypeOK
  <2>2. CASE o # r
    <3>1. call'[o] = call[o] /\ Fit(o, call[o], tenantLock, row) /\ row' = row
      BY <2>2 DEF BInv, TypeOK
    <3> QED
      BY <3>1, <2>2 DEF Fit, Creating
  <2> QED
    BY <2>1, <2>2
<1> QED
  BY <1>1, <1>2, <1>3 DEF BInv

\* An end, whichever it is, lets go of the request's locks alone.
LEMMA ReleaseKeepsOthers ==
    ASSUME BInv, NEW r \in Requests, Release(r)
    PROVE  /\ rowLock' \in [Ids -> Requests \union {None}]
           /\ tenantLock' \in [Tenants -> Requests \union {None}]
           /\ \A o \in Requests \ {r}, t \in Tenants : tenantLock[t] = o => tenantLock'[t] = o
BY BusinessesAssumption DEF BInv, TypeOK, Release

LEMMA OverFits ==
    ASSUME NEW r, NEW locks, NEW rw
    PROVE  Fit(r, Over, locks, rw)
BY DEF Fit, Over, NewCall, OpenPoints

LEMMA RollbackKeepsBInv ==
    ASSUME BInv, NEW r \in Requests, Rollback(r)
    PROVE  BInv'
BY CallStep, OverFits, ReleaseKeepsOthers, NewCallIsTyped DEF Rollback

LEMMA CreateKeepsBInv ==
    ASSUME BInv, NEW r \in Requests, CreateBusiness(r)
    PROVE  BInv'
<1>1. PICK t \in Tenants, n \in Names :
        call' = [call EXCEPT ![r] = [NewCall EXCEPT
                    !.pc = "insert", !.op = "create", !.id = r, !.tenant = t,
                    !.writes = [NoWrites EXCEPT !.name = n, !.status = "trial"]]]
  BY DEF CreateBusiness
<1> DEFINE c == [NewCall EXCEPT !.pc = "insert", !.op = "create", !.id = r, !.tenant = t,
                                !.writes = [NoWrites EXCEPT !.name = n, !.status = "trial"]]
<1>2. c \in Calls
  BY DEF NewCall, Calls, NoWrites, Writes, Ops, Kinds, OpenPoints, Statuses, Ids
<1>3. row[r] = NoRow
  BY DEF BInv, Fit, CreateBusiness
<1>4. Fit(r, c, tenantLock, row)
  BY <1>3 DEF Fit, Creating, NewCall, NoWrites, Ops, OpenPoints, Ids
<1> HIDE DEF c
<1>5. UNCHANGED <<row, child, rowLock, tenantLock, raced>>
  BY DEF CreateBusiness
<1> QED
  BY <1>1, <1>2, <1>4, <1>5, CallStep DEF c, BInv, TypeOK

\* The request has found a business and decided what to write of it.
LEMMA BeginKeepsBInv ==
    ASSUME BInv, NEW r \in Requests, NEW op \in Ops \ {"create"},
           NEW pc \in {"write", "list", "attach"}, NEW b \in Ids, NEW t \in Tenants,
           Visible(b, t), NEW w \in Writes,
           call' = [call EXCEPT ![r] = [NewCall EXCEPT !.pc = pc, !.op = op, !.id = b,
                                            !.tenant = t, !.copy = row[b], !.writes = w]],
           UNCHANGED <<row, child, rowLock, tenantLock, raced>>
    PROVE  BInv'
<1> DEFINE c == [NewCall EXCEPT !.pc = pc, !.op = op, !.id = b, !.tenant = t,
                                !.copy = row[b], !.writes = w]
<1>1. row[b] \in Rows
  BY DEF BInv, TypeOK, Visible
<1>2. c \in Calls
  BY <1>1 DEF NewCall, Calls, Ops, OpenPoints
<1>3. Fit(r, c, tenantLock, row)
  BY <1>1 DEF Fit, Working, NewCall, OpenPoints, Visible
<1> HIDE DEF c
<1> QED
  BY <1>2, <1>3, CallStep DEF c, BInv, TypeOK

LEMMA SentIsTyped ==
    ASSUME NEW S, NEW v \in S, NEW old
    PROVE  Sent(v, old) \in S \union {None}
BY DEF Sent

\* What the beginnings of the operations on a business have in common.
Begun(r, op, pc, w, b, t) ==
    /\ Visible(b, t)
    /\ call' = [call EXCEPT ![r] = [NewCall EXCEPT !.pc = pc, !.op = op, !.id = b,
                                        !.tenant = t, !.copy = row[b], !.writes = w]]
    /\ UNCHANGED <<row, child, rowLock, tenantLock, raced>>

LEMMA BegunKeepsBInv ==
    ASSUME BInv, NEW r \in Requests, NEW op \in Ops \ {"create"},
           NEW pc \in {"write", "list", "attach"}, NEW b \in Ids, NEW t \in Tenants,
           NEW w \in Writes, Begun(r, op, pc, w, b, t)
    PROVE  BInv'
BY BeginKeepsBInv DEF Begun

LEMMA StartKeepsBInv ==
    ASSUME BInv, NEW r \in Requests, Begin(r)
    PROVE  BInv'
<1>0. \A b \in Ids, t \in Tenants : Visible(b, t) => row[b] \in Rows
  BY DEF BInv, TypeOK, Visible
<1>1. CASE Rename(r)
  <2>1. PICK b \in Ids, t \in Tenants :
          \E w \in {[NoWrites EXCEPT !.name = Sent(x[1], row[b].name), !.status = Sent(x[2], row[b].status)] :
                        x \in Names \X {"suspended", row[b].status}} :
              Begun(r, "rename", "write", w, b, t)
    BY <1>1 DEF Rename, BeginOn, Begun
  <2>2. row[b].status \in Statuses
    <3>1. Visible(b, t)
      BY <2>1 DEF Begun
    <3> QED
      BY <1>0, <3>1 DEF Rows
  <2>3. \A x \in Names \X {"suspended", row[b].status} :
          [NoWrites EXCEPT !.name = Sent(x[1], row[b].name),
                           !.status = Sent(x[2], row[b].status)] \in Writes
    BY <2>2 DEF NoWrites, Writes, Sent, Statuses
  <2>4. PICK w \in Writes : Begun(r, "rename", "write", w, b, t)
    BY <2>1, <2>3
  <2>5. "rename" \in Ops \ {"create"} /\ "write" \in {"write", "list", "attach"}
    BY DEF Ops
  <2> QED
    BY <2>4, <2>5, BegunKeepsBInv
<1>2. CASE UpdateStatus(r)
  <2>1. PICK b \in Ids, t \in Tenants :
          \E w \in {[NoWrites EXCEPT !.status = Sent(s, row[b].status)] : s \in Statuses} :
              Begun(r, "update", "write", w, b, t)
    BY <1>2 DEF UpdateStatus, BeginOn, Begun
  <2>2. \A s \in Statuses : [NoWrites EXCEPT !.status = Sent(s, row[b].status)] \in Writes
    BY DEF NoWrites, Writes, Sent
  <2>3. PICK w \in Writes : Begun(r, "update", "write", w, b, t)
    BY <2>1, <2>2
  <2>4. "update" \in Ops \ {"create"} /\ "write" \in {"write", "list", "attach"}
    BY DEF Ops
  <2> QED
    BY <2>3, <2>4, BegunKeepsBInv
<1>3. CASE DeleteBusiness(r)
  <2>1. PICK b \in Ids, t \in Tenants :
          Begun(r, "delete", "write", [NoWrites EXCEPT !.deleted = TRUE,
                                           !.status = Sent("deleted", row[b].status)], b, t)
    BY <1>3 DEF DeleteBusiness, BeginOn, Begun
  <2>2. [NoWrites EXCEPT !.deleted = TRUE, !.status = Sent("deleted", row[b].status)] \in Writes
    BY DEF NoWrites, Writes, Sent, Statuses
  <2>3. "delete" \in Ops \ {"create"} /\ "write" \in {"write", "list", "attach"}
    BY DEF Ops
  <2> QED
    BY <2>1, <2>2, <2>3, BegunKeepsBInv
<1>4. CASE AddChild(r)
  <2>1. PICK kind \in Kinds : \E b \in Ids, t \in Tenants :
          Begun(r, kind, IF kind = "alias" THEN "list" ELSE "attach", NoWrites, b, t)
    BY <1>4 DEF AddChild, BeginOn, Begun
  <2>2. NoWrites \in Writes
    BY DEF NoWrites, Writes
  <2>3. kind \in Ops \ {"create"}
    BY DEF Kinds, Ops
  <2>4. (IF kind = "alias" THEN "list" ELSE "attach") \in {"write", "list", "attach"}
    OBVIOUS
  <2> QED
    BY <2>1, <2>2, <2>3, <2>4, BegunKeepsBInv
<1> QED
  BY <1>1, <1>2, <1>3, <1>4, CreateKeepsBInv DEF Begin

-------------------------------------------------------------------------------
(* Statements.                                                              *)

LEMMA InsertBusinessKeepsBInv ==
    ASSUME BInv, NEW r \in Requests, InsertBusiness(r)
    PROVE  BInv'
<1> DEFINE t == call[r].tenant
<1>1. call[r] \in Calls /\ call[r].pc = "insert" /\ Fit(r, call[r], tenantLock, row)
  BY DEF BInv, TypeOK, InsertBusiness
<1>2. call[r].op = "create" /\ Creating(r, call[r], tenantLock, row) /\ t \in Tenants
  BY <1>1 DEF Fit, Working, OpenPoints
<1>3. UNCHANGED <<row, child, rowLock, raced>>
  BY DEF InsertBusiness
<1>4. CASE t \in Direct /\ Others(r) # {}
  <2>1. call' = [call EXCEPT ![r] = Over] /\ UNCHANGED tenantLock
    BY <1>4 DEF InsertBusiness
  <2> QED
    BY <1>3, <2>1, CallStep, OverFits, NewCallIsTyped DEF BInv, TypeOK
<1>5. CASE ~(t \in Direct /\ Others(r) # {})
  <2> DEFINE c == [call[r] EXCEPT !.pc = "commit",
                                  !.writes.score = Score(call[r].writes.name, {})]
  <2>1. tenantLock[t] = None /\ tenantLock' = [tenantLock EXCEPT ![t] = r]
    BY <1>5 DEF InsertBusiness
  <2>2. call' = [call EXCEPT ![r] = c]
    BY <1>5 DEF InsertBusiness
  <2>3. Score(call[r].writes.name, {}) \in Scores
    BY <1>2 DEF Creating, Score, Scores
  <2>4. c \in Calls
    BY <1>1, <2>3 DEF Calls, Writes, OpenPoints
  <2>5. tenantLock' \in [Tenants -> Requests \union {None}] /\ tenantLock'[t] = r
    BY <1>2, <2>1 DEF BInv, TypeOK
  <2>6. t \in Direct => OnlyBusiness(r, t, row)
    BY <1>5 DEF OnlyBusiness, Others, Visible
  <2>7. Fit(r, c, tenantLock', row)
    BY <1>1, <1>2, <2>3, <2>5, <2>6 DEF Fit, Creating, Calls, Writes, OpenPoints
  <2>8. \A o \in Requests \ {r}, x \in Tenants : tenantLock[x] = o => tenantLock'[x] = o
    BY <1>2, <2>1, BusinessesAssumption DEF BInv, TypeOK, Ids
  <2>9. rowLock' \in [Requests \union Seeds -> Requests \union {None}]
    BY <1>3 DEF BInv, TypeOK, Ids
  <2> HIDE DEF c
  <2> QED
    BY <1>3, <2>2, <2>4, <2>5, <2>7, <2>8, <2>9, CallStep DEF Ids
<1> QED
  BY <1>4, <1>5

\* A request other than the creation of a business goes on, maybe with another score to write.
LEMMA WorkOn ==
    ASSUME BInv, NEW r \in Requests, NEW pc \in {"list", "write", "commit"},
           call[r].pc \in {"attach", "list", "write"}, NEW w \in Writes,
           call' = [call EXCEPT ![r] = [call[r] EXCEPT !.pc = pc, !.writes = w]],
           rowLock' \in [Ids -> Requests \union {None}],
           UNCHANGED <<row, child, tenantLock, raced>>
    PROVE  BInv'
<1> DEFINE c == [call[r] EXCEPT !.pc = pc, !.writes = w]
<1>1. call[r] \in Calls /\ Fit(r, call[r], tenantLock, row)
  BY DEF BInv, TypeOK
<1>2. c \in Calls
  BY <1>1 DEF Calls, OpenPoints
<1>3. call[r].op # "create" /\ Working(call[r], row)
  BY <1>1 DEF Fit, Creating, OpenPoints
<1>4. Fit(r, c, tenantLock, row)
  BY <1>1, <1>3 DEF Fit, Working, Calls, OpenPoints
<1> HIDE DEF c
<1> QED
  BY <1>2, <1>4, CallStep DEF c, BInv, TypeOK

LEMMA StatementKeepsBInv ==
    ASSUME BInv, NEW r \in Requests, InsertChild(r) \/ ListAliases(r) \/ UpdateBusiness(r)
    PROVE  BInv'
<1>1. call[r] \in Calls /\ Fit(r, call[r], tenantLock, row)
  BY DEF BInv, TypeOK
<1>2. call[r].writes \in Writes /\ rowLock \in [Ids -> Requests \union {None}]
      /\ tenantLock \in [Tenants -> Requests \union {None}]
  BY <1>1 DEF BInv, TypeOK, Calls
<1>3. ASSUME call' = [call EXCEPT ![r] = Over], UNCHANGED <<row, child, rowLock, tenantLock, raced>>
      PROVE  BInv'
  BY <1>2, <1>3, CallStep, OverFits, NewCallIsTyped
<1>4. ASSUME NEW pc, Advance(r, pc)
      PROVE  call' = [call EXCEPT ![r] = [call[r] EXCEPT !.pc = pc, !.writes = call[r].writes]]
  BY <1>1, <1>4 DEF Advance, Calls
<1>5. CASE InsertChild(r)
  <2>1. call' = [call EXCEPT ![r] = Over] \/ Advance(r, "commit")
    BY <1>5 DEF InsertChild
  <2>2. call[r].pc = "attach" /\ UNCHANGED <<row, child, rowLock, tenantLock, raced>>
    BY <1>5 DEF InsertChild
  <2> QED
    BY <1>2, <1>3, <1>4, <2>1, <2>2, WorkOn
<1>6. CASE UpdateBusiness(r)
  <2>1. Advance(r, "list") \/ Advance(r, "commit")
    BY <1>6 DEF UpdateBusiness
  <2>2. call[r].pc = "write" /\ UNCHANGED <<row, child, tenantLock, raced>>
    BY <1>6 DEF UpdateBusiness
  <2>3. rowLock' \in [Ids -> Requests \union {None}]
    BY <1>2, <1>6 DEF UpdateBusiness
  <2> QED
    BY <1>2, <1>4, <2>1, <2>2, <2>3, WorkOn
<1>7. CASE ListAliases(r)
  <2>1. call[r].pc = "list" /\ UNCHANGED <<row, child, rowLock, tenantLock, raced>>
    BY <1>7 DEF ListAliases
  <2>2. call[r].op # "create" /\ Working(call[r], row)
    BY <1>1, <2>1 DEF Fit, Creating, OpenPoints
  <2>3. Rescore(r) \in Scores \union {None}
    <3>1. call[r].copy.name \in Names
      BY <2>2 DEF Working, Rows
    <3>2. Aliases(call[r].id) \union (IF call[r].op = "alias" THEN {r} ELSE {}) \in SUBSET Requests
      BY DEF Aliases
    <3>3. (IF call[r].writes.name = None THEN call[r].copy.name ELSE call[r].writes.name) \in Names
      BY <1>2, <3>1 DEF Writes
    <3> QED
      BY <3>2, <3>3 DEF Rescore, Sent, Score, Scores
  <2> DEFINE w == [call[r].writes EXCEPT !.score = Rescore(r)]
             pc == IF call[r].op = "alias" THEN "write" ELSE "commit"
  <2>4. w \in Writes /\ pc \in {"list", "write", "commit"}
    BY <1>2, <2>3 DEF Writes
  <2>5. \/ call' = [call EXCEPT ![r] = Over]
        \/ call' = [call EXCEPT ![r] = [call[r] EXCEPT !.pc = pc, !.writes = w]]
    BY <1>1, <1>7 DEF ListAliases, Calls, Writes
  <2> HIDE DEF w, pc
  <2> QED
    BY <1>2, <1>3, <2>1, <2>4, <2>5, WorkOn
<1> QED
  BY <1>5, <1>6, <1>7

-------------------------------------------------------------------------------
(* Committing.                                                              *)

\* What a commit makes of the row it is about.
LEMMA CommittedRow ==
    ASSUME BInv, NEW r \in Requests, Commit(r)
    PROVE  /\ call[r].id \in Ids /\ call[r].tenant \in Tenants
           /\ \A b \in Ids \ {call[r].id} : row'[b] = row[b]
           /\ row'[call[r].id] \in Rows /\ row'[call[r].id].tenant = call[r].tenant
           /\ row[call[r].id].deleted => row'[call[r].id].deleted
<1> DEFINE c == call[r]
           b == call[r].id
<1>1. c \in Calls /\ c.pc = "commit" /\ Fit(r, c, tenantLock, row)
  BY DEF BInv, TypeOK, Commit
<1>2. /\ c.op \in Ops /\ b \in Ids /\ c.tenant \in Tenants
      /\ c.op = "create" => Creating(r, c, tenantLock, row)
      /\ c.op # "create" => Working(c, row)
  BY <1>1 DEF Fit, OpenPoints
<1>3. row \in [Ids -> Rows \union {NoRow}]
  BY DEF BInv, TypeOK
<1>4. /\ \A x \in Ids \ {b} : row'[x] = row[x]
      /\ row'[b] = IF c.op \in Kinds \ {"alias"} THEN row[b] ELSE Written(row[b], c)
  BY <1>2, <1>3 DEF Commit
<1>5. c.writes \in Writes
  BY <1>1 DEF Calls
<1>6. CASE c.op = "create"
  <2>1. row[b] = NoRow /\ c.writes.name \in Names /\ c.writes.status = "trial"
        /\ c.writes.score \in Scores
    BY <1>1, <1>2, <1>6 DEF Creating
  <2>2. row'[b] = Written(NoRow, c)
    BY <1>4, <1>6, <2>1 DEF Kinds
  <2>3. Written(NoRow, c) \in Rows /\ Written(NoRow, c).tenant = c.tenant
    BY <1>2, <1>5, <2>1 DEF Written, Or, NoRow, Rows, Writes, Statuses
  <2> QED
    BY <1>2, <1>4, <2>1, <2>2, <2>3 DEF NoRow
<1>7. CASE c.op # "create"
  <2>1. row[b] \in Rows /\ row[b].tenant = c.tenant
    BY <1>2, <1>3, <1>7 DEF Working
  <2>2. /\ Written(row[b], c) \in Rows /\ Written(row[b], c).tenant = c.tenant
        /\ row[b].deleted => Written(row[b], c).deleted
    BY <1>2, <1>5, <2>1 DEF Written, Or, Rows, Writes
  <2>3. row'[b] = row[b] \/ row'[b] = Written(row[b], c)
    BY <1>4
  <2> QED
    BY <1>2, <1>4, <2>1, <2>2, <2>3
<1> QED
  BY <1>6, <1>7

\* The rows of a tenant that are not deleted grow by a creation alone.
LEMMA CommittedOnly ==
    ASSUME BInv, NEW r \in Requests, Commit(r), NEW b \in Ids,
           row'[b] # NoRow, ~row'[b].deleted
    PROVE  \/ row[b] # NoRow /\ row[b].tenant = row'[b].tenant /\ ~row[b].deleted
           \/ /\ call[r].op = "create" /\ b = r /\ row'[b].tenant = call[r].tenant
              /\ tenantLock[call[r].tenant] = r
              /\ call[r].tenant \in Direct => OnlyBusiness(r, call[r].tenant, row)
<1>1. Fit(r, call[r], tenantLock, row) /\ call[r].pc = "commit"
  BY DEF BInv, Commit
<1>2. /\ call[r].op = "create" => Creating(r, call[r], tenantLock, row)
      /\ call[r].op # "create" => Working(call[r], row)
  BY <1>1 DEF Fit, OpenPoints
<1>3. CASE b # call[r].id
  BY <1>3, CommittedRow
<1>4. CASE b = call[r].id /\ call[r].op = "create"
  BY <1>1, <1>2, <1>4, CommittedRow DEF Creating
<1>5. CASE b = call[r].id /\ call[r].op # "create"
  <2>1. row[b] # NoRow /\ row[b].tenant = call[r].tenant
    BY <1>2, <1>5 DEF Working
  <2>2. row'[b].tenant = call[r].tenant /\ row[b].deleted => row'[b].deleted
    BY <1>5, CommittedRow
  <2> QED
    BY <2>1, <2>2, <1>5, CommittedRow
<1> QED
  BY <1>3, <1>4, <1>5

LEMMA NoRowIsNoRow == NoRow \notin Rows
BY BusinessesAssumption DEF Rows, NoRow

LEMMA CommitKeepsBInv ==
    ASSUME BInv, NEW r \in Requests, Commit(r)
    PROVE  BInv'
<1>1. row' \in [Ids -> Rows \union {NoRow}]
  <2>1. row \in [Ids -> Rows \union {NoRow}] /\ row' = [b \in Ids |-> row'[b]]
    BY DEF BInv, TypeOK, Commit
  <2> QED
    BY <2>1, CommittedRow
<1>2. call[r] \in Calls /\ call[r].pc = "commit" /\ call[r].id \in Ids
  BY CommittedRow DEF BInv, TypeOK, Commit
<1>3. child' \in [Requests -> Children \union {NoChild}]
  BY <1>2 DEF BInv, TypeOK, Commit, Children
<1>4. Release(r) /\ raced' \subseteq Ids
  BY <1>2 DEF BInv, TypeOK, Commit
<1>5. \A o \in Requests : call'[o] = IF o = r THEN Over
            ELSE IF call[r].op \in Rescoring /\ call[o].id = call[r].id
                 THEN [call[o] EXCEPT !.overtaken = TRUE] ELSE call[o]
  BY DEF Commit
<1>6. call' \in [Requests -> Calls]
  <2>1. call' = [o \in Requests |-> call'[o]]
    BY DEF Commit
  <2>2. \A o \in Requests : call'[o] \in Calls
    <3> SUFFICES ASSUME NEW o \in Requests PROVE call'[o] \in Calls
      OBVIOUS
    <3>1. call[o] \in Calls
      BY DEF BInv, TypeOK
    <3>2. [call[o] EXCEPT !.overtaken = TRUE] \in Calls
      BY <3>1 DEF Calls
    <3> QED
      BY <1>5, <3>1, <3>2, NewCallIsTyped
  <2> QED
    BY <2>1, <2>2
<1>7. TypeOK'
  BY <1>1, <1>3, <1>4, <1>6, ReleaseKeepsOthers DEF TypeOK
<1>8. SingletonKept'
  <2> SUFFICES ASSUME NEW b \in Ids, NEW c \in Ids, row'[b] # NoRow, row'[c] # NoRow,
                      row'[b].tenant = row'[c].tenant, row'[b].tenant \in Direct,
                      ~row'[b].deleted, ~row'[c].deleted
               PROVE  b = c
    BY DEF SingletonKept
  <2> QED
    BY CommittedOnly DEF BInv, SingletonKept, OnlyBusiness
<1>9. ASSUME NEW o \in Requests PROVE Fit(o, call'[o], tenantLock', row')
  <2>1. CASE o = r
    BY <1>5, <2>1, OverFits
  <2>2. CASE o # r
    <3>1. call[o] \in Calls /\ Fit(o, call[o], tenantLock, row)
      BY DEF BInv, TypeOK
    <3>2. /\ call'[o].pc = call[o].pc /\ call'[o].op = call[o].op /\ call'[o].id = call[o].id
          /\ call'[o].tenant = call[o].tenant /\ call'[o].copy = call[o].copy
          /\ call'[o].writes = call[o].writes
      BY <1>5, <2>2, <3>1 DEF Calls
    <3>3. ASSUME NEW b \in Ids, row[b] = NoRow, b # r PROVE row'[b] = NoRow
      <4>1. b # call[r].id
        BY <3>3, <1>2 DEF BInv, Fit, Creating, Working, OpenPoints
      <4> QED
        BY <3>3, <4>1, CommittedRow
    <3>4. ASSUME NEW b \in Ids, row[b] # NoRow
          PROVE row'[b] # NoRow /\ row'[b].tenant = row[b].tenant
      <4>1. CASE b = call[r].id
        <5>1. row[b].tenant = call[r].tenant
          BY <3>4, <4>1, <1>2 DEF BInv, Fit, Creating, Working, OpenPoints
        <5>2. row'[b] # NoRow
          BY <4>1, CommittedRow, NoRowIsNoRow
        <5> QED
          BY <5>1, <5>2, <4>1, CommittedRow
      <4> QED
        BY <3>4, <4>1, CommittedRow
    <3>5. call[o].tenant \in Tenants /\ tenantLock[call[o].tenant] = o =>
            tenantLock'[call[o].tenant] = o
      BY <1>4, <2>2, ReleaseKeepsOthers
    <3>6. ASSUME call[o].tenant \in Tenants, tenantLock[call[o].tenant] = o,
                 OnlyBusiness(o, call[o].tenant, row)
          PROVE  OnlyBusiness(o, call[o].tenant, row')
      BY <2>2, <3>6, CommittedOnly DEF OnlyBusiness
    <3>7. ASSUME Creating(o, call[o], tenantLock, row), call[o].tenant \in Tenants
          PROVE  Creating(o, call'[o], tenantLock', row')
      <4>1. row'[o] = NoRow
        BY <2>2, <3>3, <3>7 DEF Creating, Ids
      <4> QED
        BY <3>2, <3>5, <3>6, <3>7, <4>1 DEF Creating
    <3>8. ASSUME Working(call[o], row), call[o].id \in Ids
          PROVE  Working(call'[o], row')
      BY <3>2, <3>4, <3>8 DEF Working
    <3>9. row[o] = NoRow => row'[o] = NoRow
      BY <2>2, <3>3 DEF Ids
    <3> QED
      BY <3>1, <3>2, <3>7, <3>8, <3>9 DEF Fit
  <2> QED
    BY <2>1, <2>2
<1> QED
  BY <1>7, <1>8, <1>9 DEF BInv

-------------------------------------------------------------------------------
(* The theorems.                                                            *)

LEMMA StepKeepsBInv == BInv /\ [Next]_vars => BInv'
<1> SUFFICES ASSUME BInv, [Next]_vars PROVE BInv'
  OBVIOUS
<1>1. CASE \E r \in Requests : Begin(r) \/ Step(r) \/ Rollback(r)
  BY <1>1, StartKeepsBInv, InsertBusinessKeepsBInv, StatementKeepsBInv, CommitKeepsBInv,
     RollbackKeepsBInv DEF Step
<1>2. CASE UNCHANGED vars
  BY <1>2 DEF BInv, TypeOK, SingletonKept, Aliases, vars
<1> QED
  BY <1>1, <1>2 DEF Next, AllOver

\* Rows, locks and calls keep their types: a business that a request is working on is a row
\* of its tenant, and its score is always that of a name and of aliases.
THEOREM BusinessesTypeCorrect == Spec => []TypeOK
<1>1. BInv => TypeOK
  BY DEF BInv
<1> QED
  BY <1>1, InitEstablishesBInv, StepKeepsBInv, PTL DEF Spec

\* However many businesses of a direct_business tenant are created at once, one of them is
\* not deleted: the trigger counts under the lock of the tenant.
THEOREM SingletonKeptHolds == Spec => []SingletonKept
<1>1. BInv => SingletonKept
  BY DEF BInv
<1> QED
  BY <1>1, InitEstablishesBInv, StepKeepsBInv, PTL DEF Spec

LEMMA OnlyCommitsWrite ==
    ASSUME BInv, Next
    PROVE  UNCHANGED <<row, child>> \/ \E r \in Requests : Commit(r)
BY DEF Next, AllOver, vars, Begin, Step, Rollback, CreateBusiness, Rename, UpdateStatus,
       DeleteBusiness, AddChild, BeginOn, InsertBusiness, InsertChild, ListAliases, UpdateBusiness

\* No request is under way on a business that is gone.
LEMMA NobodyOnGone ==
    ASSUME BInv, NEW r \in Requests, Commit(r), NEW b \in Ids, Gone(b)
    PROVE  call[r].id # b
<1>1. Fit(r, call[r], tenantLock, row) /\ InTransaction(r)
  BY DEF BInv, Commit, InTransaction, OpenPoints
<1>2. ~call[r].copy.deleted
  BY <1>1 DEF Fit, Creating, Working, InTransaction, NoRow
<1> QED
  BY <1>1, <1>2 DEF Gone

\* A deletion is final: no rename, change of status or addition that overlapped it undoes it,
\* and once these have ended nothing touches the business again.
THEOREM DeletedIsFinalHolds == Spec => DeletedIsFinal
<1> DEFINE Kept == \A b \in Ids :
        /\ row[b].deleted => row'[b].deleted
        /\ Gone(b) => /\ row'[b] = row[b]
                      /\ \A r \in Requests : child'[r].of = b => child[r].of = b
<1>1. BInv /\ [Next]_vars => [Kept]_vars
  <2> SUFFICES ASSUME BInv, Next PROVE Kept
    BY DEF vars
  <2>1. CASE UNCHANGED <<row, child>>
    BY <2>1
  <2>2. ASSUME NEW r \in Requests, Commit(r) PROVE Kept
    <3> SUFFICES ASSUME NEW b \in Ids
                 PROVE  /\ row[b].deleted => row'[b].deleted
                        /\ Gone(b) => /\ row'[b] = row[b]
                                      /\ \A o \in Requests : child'[o].of = b => child[o].of = b
      OBVIOUS
    <3>1. row[b].deleted => row'[b].deleted
      BY <2>2, CommittedRow
    <3>2. Gone(b) => row'[b] = row[b]
      BY <2>2, CommittedRow, NobodyOnGone
    <3>3. ASSUME Gone(b), NEW o \in Requests, child'[o].of = b PROVE child[o].of = b
      <4>1. call[r].id # b
        BY <2>2, <3>3, NobodyOnGone
      <4>2. child'[o] = child[o] \/ child'[o] = [kind |-> call[r].op, of |-> call[r].id]
        BY <2>2 DEF Commit, BInv, TypeOK
      <4> QED
        BY <3>3, <4>1, <4>2
    <3> QED
      BY <3>1, <3>2, <3>3
  <2> QED
    BY <2>1, <2>2, OnlyCommitsWrite
<1> QED
  BY <1>1, InitEstablishesBInv, StepKeepsBInv, PTL DEF Spec, DeletedIsFinal

-------------------------------------------------------------------------------
(* Scores.                                                                  *)

AliasesOf(ch, b) == {x \in Requests : ch[x] = [kind |-> "alias", of |-> b]}

\* A request that has decided on a score, and what it decided it of.
Scored(c) == c.pc = "commit" \/ (c.op = "alias" /\ c.pc = "write")
Own(r, c) == IF c.op = "alias" THEN {r} ELSE {}

\* A score that counts aliases among those given, or no score.
Counts(score, aliases) == score # None => score.aliases \subseteq aliases

\* Until it is overtaken, what a request has read of a business is what there is.
UpToDate(r, c, ch, rw) ==
    /\ rw[c.id].name = c.copy.name /\ rw[c.id].score = c.copy.score
    /\ Scored(c) => Or(c.writes.score, c.copy.score) =
                        Score(Or(c.writes.name, c.copy.name), AliasesOf(ch, c.id) \union Own(r, c))

\* What an open request will write of the name and the score.
Derives(r, c, ch, rw) ==
    /\ c.op \notin Rescoring => /\ c.writes.name = None /\ c.writes.score = None
                                /\ c.pc \in {"attach", "write", "commit"}
    /\ c.op = "alias" => c.writes.name = None /\ c.pc \in {"list", "write", "commit"}
    /\ c.op = "rename" => c.pc \in {"list", "write", "commit"}
    /\ c.op \in {"alias", "rename"} /\ ~c.overtaken => UpToDate(r, c, ch, rw)
    /\ c.op = "create" /\ c.pc = "commit" => c.writes.score = Score(c.writes.name, {})
    /\ Counts(c.writes.score, AliasesOf(ch, c.id) \union Own(r, c))

ScoreFit(r, c, ch, rw) ==
    /\ c.pc # "done" => ch[r] = NoChild
    /\ c.pc \in OpenPoints => Derives(r, c, ch, rw)

SInv ==
    /\ OnlyRacesMisscore
    /\ \A x \in Requests, b \in Ids : child[x].of = b => row[b] # NoRow
    /\ \A r \in Requests : ScoreFit(r, call[r], child, row)

LEMMA AliasesAreAliasesOf == \A b : Aliases(b) = AliasesOf(child, b)
BY DEF Aliases, AliasesOf

LEMMA InitEstablishesSInv == Init => SInv
<1> SUFFICES ASSUME Init PROVE SInv
  OBVIOUS
<1>0. None \notin Ids /\ \A x \in Requests : child[x] = NoChild
  BY BusinessesAssumption DEF Init
<1>1. \A b \in Ids : Aliases(b) = {}
  BY <1>0 DEF Aliases, NoChild
<1>2. \A b \in Ids : row[b] # NoRow => row[b].score = Score(row[b].name, {})
  <2>1. PICK n \in Names :
        row = [b \in Ids |-> IF b \in Seeds
                             THEN [tenant |-> SeedOf[b], name |-> n, status |-> "trial",
                                   deleted |-> FALSE, score |-> Score(n, {})]
                             ELSE NoRow]
    BY DEF Init
  <2> QED
    BY <2>1
<1>3. OnlyRacesMisscore
  BY <1>1, <1>2 DEF OnlyRacesMisscore, Score
<1>4. \A x \in Requests, b \in Ids : child[x].of # b
  BY <1>0 DEF NoChild
<1>5. \A r \in Requests : ScoreFit(r, call[r], child, row)
  BY DEF Init, ScoreFit, NewCall, OpenPoints
<1> QED
  BY <1>3, <1>4, <1>5 DEF SInv

\* A step of one request that leaves rows and children alone.
LEMMA ScoreStep ==
    ASSUME BInv, SInv, NEW r \in Requests, NEW c,
           call' = [call EXCEPT ![r] = c], UNCHANGED <<row, child, raced>>,
           ScoreFit(r, c, child, row)
    PROVE  SInv'
<1>1. OnlyRacesMisscore'
  BY DEF SInv, OnlyRacesMisscore, Aliases
<1>2. ASSUME NEW o \in Requests PROVE ScoreFit(o, call'[o], child', row')
  BY DEF BInv, TypeOK, SInv
<1> QED
  BY <1>1, <1>2 DEF SInv

LEMMA OverIsScored == \A r, ch, rw : ScoreFit(r, Over, ch, rw)
BY DEF ScoreFit, Over, NewCall, OpenPoints

\* A request that has just begun has read what there is.
LEMMA BegunKeepsSInv ==
    ASSUME BInv, SInv, NEW r \in Requests, NEW op \in Ops \ {"create"},
           NEW pc \in {"write", "list", "attach"}, NEW b \in Ids, NEW t \in Tenants,
           NEW w \in Writes, Begun(r, op, pc, w, b, t), call[r].pc = "new",
           op \notin Rescoring => w.name = None /\ pc \in {"attach", "write"}, w.score = None,
           op = "alias" => w.name = None /\ pc = "list",
           op = "rename" => pc = "write"
    PROVE  SInv'
<1> DEFINE c == [NewCall EXCEPT !.pc = pc, !.op = op, !.id = b, !.tenant = t,
                                !.copy = row[b], !.writes = w]
<1>1. /\ c.pc = pc /\ c.op = op /\ c.id = b /\ c.copy = row[b] /\ c.writes = w /\ ~c.overtaken
      /\ call' = [call EXCEPT ![r] = c] /\ UNCHANGED <<row, child, raced>>
  BY DEF NewCall, Begun
<1>2. child[r] = NoChild
  BY DEF SInv, ScoreFit
<1> HIDE DEF c
<1>3. ScoreFit(r, c, child, row)
  BY <1>1, <1>2 DEF ScoreFit, Derives, UpToDate, Scored, Rescoring, Counts
<1> QED
  BY <1>1, <1>3, ScoreStep

LEMMA StartKeepsSInv ==
    ASSUME BInv, SInv, NEW r \in Requests, Begin(r)
    PROVE  SInv'
<1>0. \A b \in Ids, t \in Tenants : Visible(b, t) => row[b] \in Rows
  BY DEF BInv, TypeOK, Visible
<1>1. CASE CreateBusiness(r)
  <2>1. PICK t \in Tenants, n \in Names :
        call' = [call EXCEPT ![r] = [NewCall EXCEPT
                    !.pc = "insert", !.op = "create", !.id = r, !.tenant = t,
                    !.writes = [NoWrites EXCEPT !.name = n, !.status = "trial"]]]
    BY <1>1 DEF CreateBusiness
  <2> DEFINE c == [NewCall EXCEPT !.pc = "insert", !.op = "create", !.id = r, !.tenant = t,
                                  !.writes = [NoWrites EXCEPT !.name = n, !.status = "trial"]]
  <2>2. c.pc = "insert" /\ c.op = "create" /\ c.writes.score = None
    BY DEF NewCall, NoWrites
  <2>3. child[r] = NoChild /\ UNCHANGED <<row, child, raced>>
    BY <1>1 DEF CreateBusiness, SInv, ScoreFit
  <2> HIDE DEF c
  <2>4. ScoreFit(r, c, child, row)
    BY <2>2, <2>3 DEF ScoreFit, Derives, Rescoring, Counts
  <2> QED
    BY <2>1, <2>3, <2>4, ScoreStep DEF c
<1>2. CASE Rename(r)
  <2>1. PICK b \in Ids, t \in Tenants :
          \E w \in {[NoWrites EXCEPT !.name = Sent(x[1], row[b].name), !.status = Sent(x[2], row[b].status)] :
                        x \in Names \X {"suspended", row[b].status}} :
              Begun(r, "rename", "write", w, b, t)
    BY <1>2 DEF Rename, BeginOn, Begun
  <2>2. row[b].status \in Statuses
    <3>1. Visible(b, t)
      BY <2>1 DEF Begun
    <3> QED
      BY <1>0, <3>1 DEF Rows
  <2>3. \A x \in Names \X {"suspended", row[b].status} :
          [NoWrites EXCEPT !.name = Sent(x[1], row[b].name),
                           !.status = Sent(x[2], row[b].status)] \in Writes
          /\ [NoWrites EXCEPT !.name = Sent(x[1], row[b].name),
                              !.status = Sent(x[2], row[b].status)].score = None
    BY <2>2 DEF NoWrites, Writes, Sent, Statuses
  <2>4. PICK w \in Writes : Begun(r, "rename", "write", w, b, t) /\ w.score = None
    BY <2>1, <2>3
  <2>5. "rename" \in Ops \ {"create"} /\ "write" \in {"write", "list", "attach"}
        /\ "rename" \in Rescoring
    BY DEF Ops, Rescoring
  <2>6. call[r].pc = "new"
    BY <1>2 DEF Rename, BeginOn
  <2> QED
    BY <2>4, <2>5, <2>6, BegunKeepsSInv
<1>3. CASE UpdateStatus(r)
  <2>1. PICK b \in Ids, t \in Tenants :
          \E w \in {[NoWrites EXCEPT !.status = Sent(s, row[b].status)] : s \in Statuses} :
              Begun(r, "update", "write", w, b, t)
    BY <1>3 DEF UpdateStatus, BeginOn, Begun
  <2>2. \A s \in Statuses :
          /\ [NoWrites EXCEPT !.status = Sent(s, row[b].status)] \in Writes
          /\ [NoWrites EXCEPT !.status = Sent(s, row[b].status)].name = None
          /\ [NoWrites EXCEPT !.status = Sent(s, row[b].status)].score = None
    BY DEF NoWrites, Writes, Sent
  <2>3. PICK w \in Writes : Begun(r, "update", "write", w, b, t) /\ w.name = None /\ w.score = None
    BY <2>1, <2>2
  <2>4. "update" \in Ops \ {"create"} /\ "write" \in {"write", "list", "attach"}
    BY DEF Ops
  <2>5. call[r].pc = "new"
    BY <1>3 DEF UpdateStatus, BeginOn
  <2> QED
    BY <2>3, <2>4, <2>5, BegunKeepsSInv
<1>4. CASE DeleteBusiness(r)
  <2>1. PICK b \in Ids, t \in Tenants :
          Begun(r, "delete", "write", [NoWrites EXCEPT !.deleted = TRUE,
                                           !.status = Sent("deleted", row[b].status)], b, t)
    BY <1>4 DEF DeleteBusiness, BeginOn, Begun
  <2> DEFINE w == [NoWrites EXCEPT !.deleted = TRUE, !.status = Sent("deleted", row[b].status)]
  <2>2. w \in Writes /\ w.name = None /\ w.score = None
    BY DEF NoWrites, Writes, Sent, Statuses
  <2>3. "delete" \in Ops \ {"create"} /\ "write" \in {"write", "list", "attach"}
    BY DEF Ops
  <2>4. call[r].pc = "new"
    BY <1>4 DEF DeleteBusiness, BeginOn
  <2> HIDE DEF w
  <2> QED
    BY <2>1, <2>2, <2>3, <2>4, BegunKeepsSInv DEF w
<1>5. CASE AddChild(r)
  <2>1. PICK kind \in Kinds : \E b \in Ids, t \in Tenants :
          Begun(r, kind, IF kind = "alias" THEN "list" ELSE "attach", NoWrites, b, t)
    BY <1>5 DEF AddChild, BeginOn, Begun
  <2>2. NoWrites \in Writes /\ NoWrites.name = None /\ NoWrites.score = None
    BY DEF NoWrites, Writes
  <2>3. kind \in Ops \ {"create"} /\ kind # "rename" /\ (kind \notin Rescoring <=> kind # "alias")
    BY DEF Kinds, Ops, Rescoring
  <2>4. call[r].pc = "new"
    BY <1>5 DEF AddChild, BeginOn
  <2> DEFINE pc == IF kind = "alias" THEN "list" ELSE "attach"
  <2>5. pc \in {"write", "list", "attach"} /\ (kind = "alias" <=> pc = "list")
        /\ (kind # "alias" => pc = "attach")
    OBVIOUS
  <2> HIDE DEF pc
  <2> QED
    BY <2>1, <2>2, <2>3, <2>4, <2>5, BegunKeepsSInv DEF pc
<1> QED
  BY <1>1, <1>2, <1>3, <1>4, <1>5 DEF Begin

LEMMA InsertsKeepSInv ==
    ASSUME BInv, SInv, NEW r \in Requests, InsertBusiness(r) \/ InsertChild(r)
    PROVE  SInv'
<1>1. /\ call[r] \in Calls /\ Fit(r, call[r], tenantLock, row)
      /\ ScoreFit(r, call[r], child, row)
  BY DEF BInv, TypeOK, SInv
<1>2. UNCHANGED <<row, child, raced>>
  BY DEF InsertBusiness, InsertChild
<1>3. CASE call' = [call EXCEPT ![r] = Over]
  BY <1>2, <1>3, OverIsScored, ScoreStep
<1>4. CASE InsertBusiness(r) /\ call' # [call EXCEPT ![r] = Over]
  <2> DEFINE c == [call[r] EXCEPT !.pc = "commit",
                                  !.writes.score = Score(call[r].writes.name, {})]
  <2>1. call[r].pc = "insert" /\ call' = [call EXCEPT ![r] = c]
    BY <1>4 DEF InsertBusiness
  <2>2. call[r].op = "create"
    BY <1>1, <2>1 DEF Fit, Working, OpenPoints
  <2>3. /\ c.pc = "commit" /\ c.op = "create"
        /\ c.writes.score = Score(c.writes.name, {})
    BY <1>1, <2>2 DEF Calls, Writes
  <2>4. child[r] = NoChild
    BY <1>1, <2>1 DEF ScoreFit
  <2> HIDE DEF c
  <2>5. ScoreFit(r, c, child, row)
    BY <2>3, <2>4 DEF ScoreFit, Derives, Rescoring, Counts, Score
  <2> QED
    BY <1>2, <2>1, <2>5, ScoreStep
<1>5. CASE InsertChild(r) /\ call' # [call EXCEPT ![r] = Over]
  <2> DEFINE c == [call[r] EXCEPT !.pc = "commit"]
  <2>1. call[r].pc = "attach" /\ call' = [call EXCEPT ![r] = c]
    BY <1>5 DEF InsertChild, Advance
  <2>2. call[r].op \notin Rescoring
    BY <1>1, <2>1 DEF ScoreFit, Derives, OpenPoints, Rescoring, Fit, Creating
  <2>3. c.pc = "commit" /\ c.op = call[r].op /\ c.writes = call[r].writes
    BY <1>1 DEF Calls
  <2>4. child[r] = NoChild /\ c.writes.name = None /\ c.writes.score = None
    BY <1>1, <2>1, <2>2, <2>3 DEF ScoreFit, Derives, OpenPoints
  <2> HIDE DEF c
  <2>5. ScoreFit(r, c, child, row)
    BY <2>2, <2>3, <2>4 DEF ScoreFit, Derives, Rescoring, Counts
  <2> QED
    BY <1>2, <2>1, <2>5, ScoreStep
<1> QED
  BY <1>3, <1>4, <1>5

\* The score is that of what there is, its own alias included.
LEMMA ListKeepsSInv ==
    ASSUME BInv, SInv, NEW r \in Requests, ListAliases(r)
    PROVE  SInv'
<1>1. /\ call[r] \in Calls /\ Fit(r, call[r], tenantLock, row)
      /\ ScoreFit(r, call[r], child, row) /\ call[r].pc = "list"
  BY DEF BInv, TypeOK, SInv, ListAliases
<1>2. UNCHANGED <<row, child, raced>>
  BY DEF ListAliases
<1>3. CASE call' = [call EXCEPT ![r] = Over]
  BY <1>2, <1>3, OverIsScored, ScoreStep
<1>4. CASE call' # [call EXCEPT ![r] = Over]
  <2> DEFINE pc == IF call[r].op = "alias" THEN "write" ELSE "commit"
             c == [call[r] EXCEPT !.pc = pc, !.writes.score = Rescore(r)]
  <2>1. call' = [call EXCEPT ![r] = c]
    BY <1>4 DEF ListAliases
  <2>2. call[r].op \in {"alias", "rename"} /\ child[r] = NoChild
        /\ (call[r].op = "alias" => call[r].writes.name = None)
        /\ (~call[r].overtaken => UpToDate(r, call[r], child, row))
    BY <1>1 DEF ScoreFit, Derives, OpenPoints, Fit, Creating, Rescoring
  <2>3. /\ c.pc = pc /\ c.op = call[r].op /\ c.id = call[r].id /\ c.copy = call[r].copy
        /\ c.overtaken = call[r].overtaken
        /\ c.writes.name = call[r].writes.name /\ c.writes.score = Rescore(r)
    BY <1>1 DEF Calls, Writes
  <2>4. Or(Rescore(r), call[r].copy.score) =
            Score(Or(call[r].writes.name, call[r].copy.name),
                  AliasesOf(child, call[r].id) \union Own(r, call[r]))
        /\ Counts(Rescore(r), AliasesOf(child, call[r].id) \union Own(r, call[r]))
    <3>1. call[r].copy.name \in Names
      BY <1>1, <2>2 DEF Fit, Working, OpenPoints, Rows
    <3>2. Or(call[r].writes.name, call[r].copy.name) \in Names
      BY <1>1, <3>1 DEF Or, Calls, Writes
    <3> DEFINE v == Score(Or(call[r].writes.name, call[r].copy.name),
                          AliasesOf(child, call[r].id) \union Own(r, call[r]))
    <3>3. v \in Scores
      BY <3>2 DEF Score, Scores, AliasesOf, Own
    <3>4. v # None
      BY <3>3, BusinessesAssumption
    <3>5. Rescore(r) = Sent(v, call[r].copy.score)
      BY AliasesAreAliasesOf DEF Rescore, Or, Own
    <3>6. v.aliases = AliasesOf(child, call[r].id) \union Own(r, call[r])
      BY DEF Score
    <3> HIDE DEF v
    <3> QED
      BY <3>4, <3>5, <3>6 DEF Sent, Or, Counts, v
  <2>5. ~call[r].overtaken => UpToDate(r, c, child, row)
    <3>1. Own(r, c) = Own(r, call[r])
      BY <2>3 DEF Own
    <3> HIDE DEF c
    <3> QED
      BY <2>2, <2>3, <2>4, <3>1 DEF UpToDate
  <2>7. Counts(c.writes.score, AliasesOf(child, c.id) \union Own(r, c))
    <3>1. Own(r, c) = Own(r, call[r])
      BY <2>3 DEF Own
    <3> HIDE DEF c
    <3> QED
      BY <2>3, <2>4, <3>1
  <2> HIDE DEF c
  <2>6. ScoreFit(r, c, child, row)
    BY <2>2, <2>3, <2>5, <2>7 DEF ScoreFit, Derives, Rescoring
  <2> QED
    BY <1>2, <2>1, <2>6, ScoreStep
<1> QED
  BY <1>3, <1>4

LEMMA UpdateKeepsSInv ==
    ASSUME BInv, SInv, NEW r \in Requests, UpdateBusiness(r)
    PROVE  SInv'
<1> DEFINE pc == IF call[r].op = "rename" THEN "list" ELSE "commit"
           c == [call[r] EXCEPT !.pc = pc]
<1>1. /\ call[r] \in Calls /\ Fit(r, call[r], tenantLock, row)
      /\ ScoreFit(r, call[r], child, row) /\ call[r].pc = "write"
  BY DEF BInv, TypeOK, SInv, UpdateBusiness
<1>2. call' = [call EXCEPT ![r] = c] /\ UNCHANGED <<row, child, raced>>
  BY DEF UpdateBusiness, Advance
<1>3. /\ c.pc = pc /\ c.op = call[r].op /\ c.id = call[r].id /\ c.copy = call[r].copy
      /\ c.overtaken = call[r].overtaken /\ c.writes = call[r].writes
  BY <1>1 DEF Calls
<1>4. child[r] = NoChild /\ Derives(r, call[r], child, row)
  BY <1>1 DEF ScoreFit, OpenPoints
<1>5. call[r].op # "create"
  BY <1>1 DEF Fit, Creating, OpenPoints
<1>6. ASSUME call[r].op \in {"alias", "rename"}, UpToDate(r, call[r], child, row)
      PROVE  UpToDate(r, c, child, row)
  <2>1. Scored(c) => Scored(call[r])
    BY <1>1, <1>3, <1>6 DEF Scored
  <2> QED
    BY <1>1, <1>3, <1>6, <2>1 DEF UpToDate, Own
<1> HIDE DEF c
<1>8. Own(r, c) = Own(r, call[r])
  BY <1>3 DEF Own
<1>7. ScoreFit(r, c, child, row)
  BY <1>3, <1>4, <1>5, <1>6, <1>8 DEF ScoreFit, Derives, Rescoring
<1> QED
  BY <1>2, <1>7, ScoreStep

\* What a commit makes of aliases, names and scores.
LEMMA CommittedScore ==
    ASSUME BInv, SInv, NEW r \in Requests, Commit(r)
    PROVE  /\ \A x \in Ids \ {call[r].id} : AliasesOf(child', x) = AliasesOf(child, x)
           /\ AliasesOf(child', call[r].id) = AliasesOf(child, call[r].id) \union Own(r, call[r])
           /\ call[r].op \notin Rescoring =>
                /\ Own(r, call[r]) = {}
                /\ row'[call[r].id].name = row[call[r].id].name
                /\ row'[call[r].id].score = row[call[r].id].score
           /\ call[r].op \in Rescoring =>
                /\ row'[call[r].id].name = Or(call[r].writes.name, row[call[r].id].name)
                /\ row'[call[r].id].score = Or(call[r].writes.score, row[call[r].id].score)
<1> DEFINE c == call[r]
           b == call[r].id
<1>1. /\ b \in Ids /\ c.pc = "commit" /\ c \in Calls /\ child[r] = NoChild
      /\ Derives(r, c, child, row)
  BY CommittedRow DEF BInv, TypeOK, SInv, ScoreFit, Commit, OpenPoints
<1>2. None \notin Ids
  BY BusinessesAssumption
<1>3. child \in [Requests -> Children \union {NoChild}] /\ row \in [Ids -> Rows \union {NoRow}]
  BY DEF BInv, TypeOK
<1>4. \A x \in Requests \ {r} : child'[x] = child[x]
  BY <1>3 DEF Commit
<1>5. c.op \in Kinds => child'[r] = [kind |-> c.op, of |-> b]
  BY <1>3 DEF Commit
<1>6. c.op \notin Kinds => child'[r] = NoChild
  BY <1>1 DEF Commit
<1>7. \A x \in Ids : child[r] # [kind |-> "alias", of |-> x]
  BY <1>1, <1>2 DEF NoChild
<1>8. \A x \in Ids \ {b} : child'[r] # [kind |-> "alias", of |-> x]
  BY <1>1, <1>2, <1>5, <1>6 DEF NoChild
<1>9. c.op = "alias" <=> child'[r] = [kind |-> "alias", of |-> b]
  BY <1>1, <1>2, <1>5, <1>6 DEF NoChild, Kinds
<1>10. \A x \in Ids \ {b} : AliasesOf(child', x) = AliasesOf(child, x)
  BY <1>4, <1>7, <1>8 DEF AliasesOf
<1>11. AliasesOf(child', b) = AliasesOf(child, b) \union Own(r, c)
  BY <1>1, <1>4, <1>7, <1>9 DEF AliasesOf, Own
<1>12. row'[b] = IF c.op \in Kinds \ {"alias"} THEN row[b] ELSE Written(row[b], c)
  BY <1>1, <1>3 DEF Commit
<1>13. c.op \notin Rescoring =>
          Own(r, c) = {} /\ row'[b].name = row[b].name /\ row'[b].score = row[b].score
  BY <1>1, <1>12 DEF Derives, Rescoring, Own, Written, Or
<1>14. c.op \in Rescoring =>
          row'[b].name = Or(c.writes.name, row[b].name) /\ row'[b].score = Or(c.writes.score, row[b].score)
  BY <1>12 DEF Rescoring, Kinds, Written
<1> QED
  BY <1>10, <1>11, <1>13, <1>14

LEMMA CommitKeepsSInv ==
    ASSUME BInv, SInv, NEW r \in Requests, Commit(r)
    PROVE  SInv'
<1> DEFINE c == call[r]
           b == call[r].id
<1>1. /\ b \in Ids /\ c.pc = "commit" /\ c \in Calls /\ Fit(r, c, tenantLock, row)
      /\ Derives(r, c, child, row) /\ child[r] = NoChild
  BY CommittedRow DEF BInv, TypeOK, SInv, ScoreFit, Commit, OpenPoints
<1>2. row'[b] \in Rows /\ row'[b] # NoRow /\ \A x \in Ids \ {b} : row'[x] = row[x]
  BY CommittedRow, NoRowIsNoRow
<1>3. \A x \in Requests \ {r} : child'[x] = child[x]
  BY DEF Commit, BInv, TypeOK
<1>4. child'[r] = NoChild \/ child'[r].of = b
  BY <1>1 DEF Commit, BInv, TypeOK
<1>5. /\ \A x \in Ids \ {b} : x \in raced' <=> x \in raced
      /\ c.op \in Rescoring => (b \in raced' <=> c.overtaken)
      /\ c.op \notin Rescoring => raced' = raced
  BY DEF Commit
<1>6. ASSUME NEW x \in Ids, row'[x] # NoRow, x \notin raced'
      PROVE  row'[x].score = Score(row'[x].name, AliasesOf(child', x))
  <2>1. CASE x # b
    BY <1>2, <1>5, <1>6, <2>1, CommittedScore, AliasesAreAliasesOf DEF SInv, OnlyRacesMisscore
  <2>2. CASE x = b /\ c.op \notin Rescoring
    <3>1. row[b] # NoRow
      BY <1>1, <2>2 DEF Fit, Working, OpenPoints, Rescoring
    <3>2. row[b].score = Score(row[b].name, AliasesOf(child, b))
      BY <1>1, <1>5, <1>6, <2>2, <3>1, AliasesAreAliasesOf DEF SInv, OnlyRacesMisscore
    <3>3. AliasesOf(child', b) = AliasesOf(child, b)
      BY <2>2, CommittedScore
    <3> QED
      BY <2>2, <3>2, <3>3, CommittedScore
  <2>3. CASE x = b /\ c.op = "create"
    <3>1. row[b] = NoRow
      BY <1>1, <2>3 DEF Fit, Creating, OpenPoints
    <3>2. AliasesOf(child, b) = {}
      BY <1>1, <3>1 DEF SInv, AliasesOf
    <3>3. row'[b].name = c.writes.name /\ row'[b].score = c.writes.score
      BY <2>3, <3>1, CommittedScore DEF Rescoring, Or, NoRow
    <3>4. c.writes.score = Score(c.writes.name, {}) /\ Own(r, c) = {}
      BY <1>1, <2>3 DEF Derives, Own
    <3> QED
      BY <2>3, <3>2, <3>3, <3>4, CommittedScore
  <2>4. CASE x = b /\ c.op \in {"alias", "rename"}
    <3>1. UpToDate(r, c, child, row)
      BY <1>1, <1>5, <1>6, <2>4 DEF Derives, Rescoring
    <3>2. row'[b].name = Or(c.writes.name, row[b].name) /\ row'[b].score = Or(c.writes.score, row[b].score)
      BY <2>4, CommittedScore DEF Rescoring
    <3>3. /\ row[b].name = c.copy.name /\ row[b].score = c.copy.score
          /\ Or(c.writes.score, c.copy.score) =
                Score(Or(c.writes.name, c.copy.name), AliasesOf(child, b) \union Own(r, c))
      <4>1. Scored(c)
        BY <1>1 DEF Scored
      <4> QED
        BY <3>1, <4>1, Zenon DEF UpToDate
    <3>4. AliasesOf(child', b) = AliasesOf(child, b) \union Own(r, c)
      BY CommittedScore
    <3> QED
      BY <2>4, <3>2, <3>3, <3>4
  <2> QED
    BY <2>1, <2>2, <2>3, <2>4 DEF Rescoring
<1>10. ASSUME NEW x \in Ids, row'[x] # NoRow
       PROVE  row'[x].score.aliases \subseteq AliasesOf(child', x)
  <2>1. CASE x # b
    BY <1>2, <1>10, <2>1, CommittedScore, AliasesAreAliasesOf DEF SInv, OnlyRacesMisscore
  <2>2. CASE x = b /\ row'[b].score = row[b].score /\ row[b] # NoRow
    <3>1. row[b].score.aliases \subseteq AliasesOf(child, b)
      BY <1>1, <2>2, AliasesAreAliasesOf DEF SInv, OnlyRacesMisscore
    <3> QED
      BY <2>2, <3>1, CommittedScore
  <2>3. CASE x = b /\ row'[b].score = c.writes.score /\ c.writes.score # None
    <3>1. c.writes.score.aliases \subseteq AliasesOf(child, b) \union Own(r, c)
      BY <1>1, <2>3 DEF Derives, Counts
    <3> QED
      BY <2>3, <3>1, CommittedScore
  <2>4. /\ c.op # "create" => row[b] # NoRow
        /\ c.op = "create" => c.writes.score # None
    BY <1>1, BusinessesAssumption DEF Fit, Working, Creating, OpenPoints
  <2>5. c.op \in Rescoring => row'[b].score = Or(c.writes.score, row[b].score)
    BY CommittedScore
  <2>6. c.op \notin Rescoring => row'[b].score = row[b].score
    BY CommittedScore
  <2> QED
    BY <2>1, <2>2, <2>3, <2>4, <2>5, <2>6 DEF Or, Rescoring
<1>7. OnlyRacesMisscore'
  BY <1>6, <1>10 DEF OnlyRacesMisscore, Aliases, AliasesOf
<1>8. ASSUME NEW x \in Requests, NEW d \in Ids, child'[x].of = d PROVE row'[d] # NoRow
  <2>1. CASE d = b
    BY <1>2, <2>1
  <2>2. CASE d # b
    <3>1. x # r
      BY <1>4, <1>8, <2>2, BusinessesAssumption DEF NoChild
    <3> QED
      BY <1>2, <1>3, <1>8, <2>2, <3>1 DEF SInv
  <2> QED
    BY <2>1, <2>2
<1>9. ASSUME NEW o \in Requests PROVE ScoreFit(o, call'[o], child', row')
  <2>1. CASE o = r
    BY <2>1, OverIsScored DEF Commit
  <2>2. CASE o # r
    <3>1. call[o] \in Calls /\ ScoreFit(o, call[o], child, row) /\ Fit(o, call[o], tenantLock, row)
      BY DEF BInv, TypeOK, SInv
    <3>2. call'[o] = IF c.op \in Rescoring /\ call[o].id = b
                     THEN [call[o] EXCEPT !.overtaken = TRUE] ELSE call[o]
      BY <2>2 DEF Commit
    <3>3. /\ call'[o].pc = call[o].pc /\ call'[o].op = call[o].op /\ call'[o].id = call[o].id
          /\ call'[o].copy = call[o].copy /\ call'[o].writes = call[o].writes
          /\ ~call'[o].overtaken => ~call[o].overtaken /\ (c.op \notin Rescoring \/ call[o].id # b)
      BY <3>1, <3>2 DEF Calls
    <3>4. child'[o] = child[o]
      BY <1>3, <2>2
    <3>5. ASSUME UpToDate(o, call[o], child, row), call[o].id \in Ids,
                 c.op \notin Rescoring \/ call[o].id # b
          PROVE  UpToDate(o, call'[o], child', row')
      <4>1. /\ AliasesOf(child', call[o].id) = AliasesOf(child, call[o].id)
            /\ row'[call[o].id].name = row[call[o].id].name
            /\ row'[call[o].id].score = row[call[o].id].score
        BY <1>2, <3>5, CommittedScore
      <4>2. Scored(call'[o]) = Scored(call[o]) /\ Own(o, call'[o]) = Own(o, call[o])
        BY <3>3 DEF Scored, Own
      <4> QED
        BY <3>3, <3>5, <4>1, <4>2 DEF UpToDate
    <3>6. ASSUME call[o].pc \in OpenPoints PROVE Derives(o, call'[o], child', row')
      <4>1. Derives(o, call[o], child, row) /\ call[o].id \in Ids
        BY <3>1, <3>6 DEF ScoreFit, Fit
      <4>2. AliasesOf(child, call[o].id) \subseteq AliasesOf(child', call[o].id)
        BY <4>1, CommittedScore
      <4>3. Counts(call[o].writes.score, AliasesOf(child', call[o].id) \union Own(o, call[o]))
        BY <4>1, <4>2 DEF Derives, Counts
      <4>4. Own(o, call'[o]) = Own(o, call[o])
        BY <3>3 DEF Own
      <4> QED
        BY <3>3, <3>5, <4>1, <4>3, <4>4 DEF Derives
    <3> QED
      BY <3>1, <3>3, <3>4, <3>6 DEF ScoreFit
  <2> QED
    BY <2>1, <2>2
<1> QED
  BY <1>7, <1>8, <1>9 DEF SInv

LEMMA StepKeepsSInv == BInv /\ SInv /\ [Next]_vars => SInv'
<1> SUFFICES ASSUME BInv, SInv, [Next]_vars PROVE SInv'
  OBVIOUS
<1>1. ASSUME NEW r \in Requests, Rollback(r) PROVE SInv'
  BY <1>1, ScoreStep, OverIsScored DEF Rollback
<1>2. CASE \E r \in Requests : Begin(r) \/ Step(r) \/ Rollback(r)
  BY <1>1, <1>2, StartKeepsSInv, InsertsKeepSInv, ListKeepsSInv, UpdateKeepsSInv,
     CommitKeepsSInv DEF Step
<1>3. CASE UNCHANGED vars
  BY <1>3 DEF SInv, OnlyRacesMisscore, Aliases, vars
<1> QED
  BY <1>2, <1>3 DEF Next, AllOver

\* The stored score is that of the stored name and aliases, however many renames and aliases
\* there were, unless two of them overlapped; even then it counts no alias that is not stored.
THEOREM OnlyRacesMisscoreHolds == Spec => []OnlyRacesMisscore
<1>1. SInv => OnlyRacesMisscore
  BY DEF SInv
<1> QED
  BY <1>1, InitEstablishesBInv, InitEstablishesSInv, StepKeepsBInv, StepKeepsSInv, PTL DEF Spec

===============================================================================
