----------------------------- MODULE ContentProofs -----------------------------
(***************************************************************************)
(* Proofs about ContentBriefs, for any number of requests, briefs, tenants *)
(* and notes, and about LLMGateway, for any number of callers, months and  *)
(* calls.                                                                  *)
(***************************************************************************)
EXTENDS ContentBriefs, LLMGateway, FoldTheorems, FiniteSetTheorems, TLAPS

-------------------------------------------------------------------------------
(* ContentBriefs.  The safety invariants are not inductive by themselves:   *)
(* they say nothing of what an open transaction is about to write.  The     *)
(* strengthening says, for each program counter, what the session holds,    *)
(* which locks it owns and what it may rely on in the database.             *)


\* The points each operation goes through before it commits.
PointsOf(op) ==
    CASE op = "generate" -> {"gateway", "review", "commit"}
      [] op = "approve"  -> {"update", "commit"}
      [] op = "reject"   -> {"load_asset", "write_notes", "update", "commit"}

\* A request in flight, or committed, knows its operation and its brief.
SessionShape ==
    \A r \in Requests :
        /\ InTransaction(r) \/ req[r].pc = "flush" \/ r \in committed =>
            req[r].op \in Ops /\ req[r].brief \in Briefs
        /\ InTransaction(r) => req[r].pc \in PointsOf(req[r].op)
        /\ InTransaction(r) /\ req[r].op = "reject" => req[r].notes \in Notes

\* A committed request stays what it was when it committed.
CommittedShape ==
    \A r \in Requests :
        /\ r \in committed => req[r].pc \in {"flush", "done", "failed"}
        /\ req[r].pc = "flush" => r \in committed /\ req[r].op # "reject"

\* The row a generation is about to insert, under an identifier of its own.
GenerationInv ==
    \A r \in Requests : InTransaction(r) /\ req[r].op = "generate" =>
        /\ brief[req[r].brief] = Absent
        /\ req[r].row.tenant \in Tenants
        /\ req[r].row.notes = None
        /\ req[r].row.reviewer = None
        /\ req[r].pc \in {"review", "commit"} => req[r].row.asset \in AssetSources
        /\ req[r].pc = "commit" => req[r].row.state = "in_review"
        /\ \A other \in Requests \ {r} :
            req[other].op = "generate" => req[other].brief # req[r].brief

\* What a review that passed its check relies on, and what it is about to write.
ReviewInv ==
    \A r \in Requests : InTransaction(r) /\ req[r].op # "generate" =>
        /\ brief[req[r].brief].state # "absent"
        /\ req[r].pc = "commit" => /\ req[r].row.state = Target(req[r].op)
                                   /\ req[r].row.reviewer = r
        /\ req[r].op = "reject" /\ req[r].pc = "write_notes" =>
            (req[r].loaded # None => brief[req[r].brief].notes # None)
        /\ req[r].op = "reject" /\ req[r].pc \in {"update", "commit"} =>
            \/ assetLock[req[r].brief] = r
            \/ brief[req[r].brief].notes # None

\* Where a review that does not write notes itself gets the brief's notes from, the
\* asset's lock holder is always a rejection of that brief past its flush.
LockInv ==
    \A b \in Briefs : assetLock[b] # None =>
        LET r == assetLock[b] IN
        /\ InTransaction(r)
        /\ req[r].op = "reject"
        /\ req[r].brief = b

\* Every committed row is complete, or absent altogether.
RowInv ==
    \A b \in Briefs :
        IF brief[b].state = "absent" THEN brief[b] = Absent
        ELSE brief[b].tenant # None /\ brief[b].asset # None

\* A rejected brief's asset carries notes, and notes are those of a committed rejection.
NotesPresent ==
    \A b \in Briefs :
        /\ brief[b].state = "rejected" => brief[b].notes # None
        /\ brief[b].notes # None =>
            \E r \in committed : /\ req[r].op = "reject"
                                 /\ req[r].brief = b
                                 /\ req[r].notes = brief[b].notes

IInv ==
    /\ TypeOK
    /\ SessionShape
    /\ CommittedShape
    /\ GenerationInv
    /\ ReviewInv
    /\ LockInv
    /\ RowInv
    /\ CommittedBriefsComplete
    /\ DecisionAttributed
    /\ NotesPresent
    /\ EventsFollowCommit

-------------------------------------------------------------------------------
(* Type correctness.                                                        *)

LEMMA NewSessionType == NewSession \in Sessions /\ Ended \in Sessions /\ Absent \in Rows
BY DEF NewSession, Ended, Absent, Sessions, Rows, ProgramCounters, OpenPoints

LEMMA BriefStatesDef ==
    BriefStates = {"draft", "in_review", "approved", "rejected", "superseded", "published"}
BY DEF BriefStates, VALID_TRANSITIONS

LEMMA SessionUpdate ==
    ASSUME NEW s \in Sessions, NEW pc \in ProgramCounters, NEW row \in Rows
    PROVE  [s EXCEPT !.pc = pc, !.row = row] \in Sessions
BY DEF Sessions

\* The row a transaction leaves behind is a row.
LEMMA RowAfterType ==
    ASSUME TypeOK, NEW r \in Requests, req[r].brief \in Briefs
    PROVE  RowAfter(r) \in Rows
<1> DEFINE b == req[r].brief
<1>1. req[r].row \in Rows /\ req[r].notes \in Notes \union {None} /\ brief[b] \in Rows
  BY DEF TypeOK, Sessions
<1>2. CASE req[r].op = "generate"
  BY <1>1, <1>2 DEF RowAfter
<1>3. CASE req[r].op # "generate"
  <2>1. RowAfter(r) = [brief[b] EXCEPT
                          !.state = req[r].row.state,
                          !.reviewer = req[r].row.reviewer,
                          !.notes = IF assetLock[b] = r THEN req[r].notes ELSE @]
    BY <1>3 DEF RowAfter
  <2> QED
    BY <1>1, <2>1 DEF Rows
<1> QED
  BY <1>2, <1>3

LEMMA ReleaseType ==
    ASSUME NEW lock \in [Briefs -> Requests \union {None}], NEW r \in Requests
    PROVE  Release(lock, r) \in [Briefs -> Requests \union {None}]
BY DEF Release

\* TypeOK holds of the initial states and every step preserves it, given that
\* requests in flight name a brief.
LEMMA TypeInit == Init => TypeOK
<1> SUFFICES ASSUME Init PROVE TypeOK
  OBVIOUS
<1>1. \A t \in Tenants, s \in AssetSources : Delivered(t, s) \in Rows
  BY DEF Delivered, Rows, BriefStates, VALID_TRANSITIONS
<1> QED
  BY <1>1, NewSessionType DEF Init, TypeOK

LEMMA TypeStep ==
    ASSUME TypeOK, SessionShape, [Next]_vars
    PROVE  TypeOK'
<1> USE DEF TypeOK
<1>1. ASSUME NEW r \in Requests, GenerateBrief(r) PROVE TypeOK'
  <2>1. PICK b \in Briefs, t \in Tenants :
            req' = [req EXCEPT ![r] = [NewSession EXCEPT
                      !.pc = "gateway", !.op = "generate", !.brief = b,
                      !.row = [Absent EXCEPT !.state = "draft", !.tenant = t]]]
    BY <1>1 DEF GenerateBrief
  <2>2. [Absent EXCEPT !.state = "draft", !.tenant = t] \in Rows
    BY DEF Absent, Rows, BriefStates, VALID_TRANSITIONS
  <2>3. [NewSession EXCEPT !.pc = "gateway", !.op = "generate", !.brief = b,
            !.row = [Absent EXCEPT !.state = "draft", !.tenant = t]] \in Sessions
    BY <2>2, NewSessionType DEF Sessions, ProgramCounters, OpenPoints, Ops
  <2> QED
    BY <1>1, <2>1, <2>3 DEF GenerateBrief
<1>2. ASSUME NEW r \in Requests, ReviewBrief(r) PROVE TypeOK'
  <2>1. PICK op \in {"approve", "reject"}, b \in Briefs, n \in Notes \union {None},
             next \in {"load_asset", "update"} :
            \/ req' = [req EXCEPT ![r] = [NewSession EXCEPT
                         !.pc = next, !.op = op, !.brief = b, !.row = brief[b], !.notes = n]]
            \/ req' = [req EXCEPT ![r] = Ended]
    BY <1>2 DEF ReviewBrief
  <2>2. [NewSession EXCEPT !.pc = next, !.op = op, !.brief = b,
                           !.row = brief[b], !.notes = n] \in Sessions
    BY NewSessionType DEF Sessions, ProgramCounters, OpenPoints, Ops
  <2> QED
    BY <1>2, <2>1, <2>2, NewSessionType DEF ReviewBrief
<1>3. ASSUME NEW r \in Requests, CreateAsset(r) PROVE TypeOK'
  <2>1. PICK source \in AssetSources :
            req' = [req EXCEPT ![r].pc = "review", ![r].row.asset = source]
    BY <1>3 DEF CreateAsset
  <2> DEFINE row == [req[r].row EXCEPT !.asset = source]
  <2>2. row \in Rows
    BY DEF Sessions, Rows
  <2>3. req' = [req EXCEPT ![r] = [req[r] EXCEPT !.pc = "review", !.row = row]]
    BY <2>1 DEF Sessions
  <2>4. [req[r] EXCEPT !.pc = "review", !.row = row] \in Sessions
    BY <2>2, SessionUpdate DEF ProgramCounters, OpenPoints
  <2> QED
    BY <1>3, <2>3, <2>4 DEF CreateAsset
<1>4. ASSUME NEW r \in Requests, CreateAssetRefused(r) PROVE TypeOK'
  BY <1>4, NewSessionType DEF CreateAssetRefused
<1>5. ASSUME NEW r \in Requests, SubmitForReview(r) PROVE TypeOK'
  <2> DEFINE row == [req[r].row EXCEPT !.state = "in_review"]
  <2>1. row \in Rows
    BY BriefStatesDef DEF Sessions, Rows
  <2>2. req' = [req EXCEPT ![r] = [req[r] EXCEPT !.pc = "commit", !.row = row]]
    BY <1>5 DEF SubmitForReview, Sessions
  <2>3. [req[r] EXCEPT !.pc = "commit", !.row = row] \in Sessions
    BY <2>1, SessionUpdate DEF ProgramCounters, OpenPoints
  <2> QED
    BY <1>5, <2>2, <2>3 DEF SubmitForReview
<1>6. ASSUME NEW r \in Requests, LoadAsset(r) PROVE TypeOK'
  <2>1. req[r].brief \in Briefs
    BY <1>6 DEF LoadAsset, SessionShape, InTransaction, OpenPoints
  <2>2. brief[req[r].brief].notes \in Notes \union {None}
    BY <2>1 DEF Rows
  <2>3. [req[r] EXCEPT !.pc = "write_notes", !.loaded = brief[req[r].brief].notes]
            \in Sessions
    BY <2>2 DEF Sessions, ProgramCounters, OpenPoints
  <2> QED
    BY <1>6, <2>3 DEF LoadAsset
<1>7. ASSUME NEW r \in Requests, WriteNotes(r) PROVE TypeOK'
  <2>1. [req[r] EXCEPT !.pc = "update"] \in Sessions
    BY DEF Sessions, ProgramCounters, OpenPoints
  <2>2. assetLock' \in [Briefs -> Requests \union {None}]
    BY <1>7 DEF WriteNotes
  <2> QED
    BY <1>7, <2>1, <2>2 DEF WriteNotes
<1>8. ASSUME NEW r \in Requests, UpdateState(r) PROVE TypeOK'
  <2> DEFINE row == [req[r].row EXCEPT !.state = Target(req[r].op), !.reviewer = r]
  <2>0. Target(req[r].op) \in BriefStates
    BY BriefStatesDef DEF Target
  <2>1. row \in Rows
    <3>1. req[r].row \in Rows
      BY DEF Sessions
    <3> HIDE DEF TypeOK
    <3> QED
      BY <2>0, <3>1 DEF Rows
  <2>2. req' = [req EXCEPT ![r] = [req[r] EXCEPT !.pc = "commit", !.row = row]]
    BY <1>8 DEF UpdateState, Sessions
  <2>3. [req[r] EXCEPT !.pc = "commit", !.row = row] \in Sessions
    BY <2>1, SessionUpdate DEF ProgramCounters, OpenPoints
  <2>4. req' \in [Requests -> Sessions]
    BY <2>2, <2>3
  <2>5. briefLock' \in [Briefs -> Requests \union {None}]
    BY <1>8 DEF UpdateState
  <2> QED
    BY <1>8, <2>4, <2>5 DEF UpdateState
<1>9. ASSUME NEW r \in Requests, Commit(r) PROVE TypeOK'
  <2>1. req[r].brief \in Briefs
    BY <1>9 DEF Commit, SessionShape, InTransaction, OpenPoints
  <2>2. RowAfter(r) \in Rows
    BY <2>1, RowAfterType
  <2>3. [req[r] EXCEPT !.pc = IF req[r].op = "reject" THEN "done" ELSE "flush",
                       !.row = Absent, !.loaded = None] \in Sessions
    BY NewSessionType DEF Sessions, ProgramCounters
  <2> QED
    BY <1>9, <2>2, <2>3, ReleaseType DEF Commit
<1>10. ASSUME NEW r \in Requests, FlushEvents(r) PROVE TypeOK'
  <2>1. req[r].brief \in Briefs
    BY <1>10 DEF FlushEvents, SessionShape
  <2>2. published' \subseteq Events
    BY <1>10, <2>1 DEF FlushEvents, PublishPending, Events
  <2>3. [req[r] EXCEPT !.pc = "done"] \in Sessions
    BY DEF Sessions, ProgramCounters
  <2> QED
    BY <1>10, <2>2, <2>3 DEF FlushEvents
<1>11. ASSUME NEW r \in Requests, Rollback(r) PROVE TypeOK'
  BY <1>11, NewSessionType, ReleaseType DEF Rollback
<1>12. ASSUME NEW r \in Requests, LoseEvents(r) PROVE TypeOK'
  <2>1. [req[r] EXCEPT !.pc = "failed"] \in Sessions
    BY DEF Sessions, ProgramCounters
  <2> QED
    BY <1>12, <2>1 DEF LoseEvents
<1>13. CASE UNCHANGED vars
  BY <1>13 DEF vars
<1> QED
  BY <1>1, <1>2, <1>3, <1>4, <1>5, <1>6, <1>7, <1>8, <1>9, <1>10, <1>11, <1>12, <1>13
     DEF Next, Advance, AllAnswered

-------------------------------------------------------------------------------
(* The strengthened invariant.                                              *)

\* What the steps that touch neither the database nor the history preserve: all
\* they do is move one request that has not committed yet.
LEMMA FrameStep ==
    ASSUME IInv, TypeOK',
           UNCHANGED <<brief, committed, published>>,
           NEW r \in Requests,
           \A x \in Requests \ {r} : req'[x] = req[x],
           r \in committed => /\ req'[r].op = req[r].op
                             /\ req'[r].brief = req[r].brief
                             /\ req'[r].notes = req[r].notes
    PROVE  /\ RowInv'
           /\ CommittedBriefsComplete'
           /\ DecisionAttributed'
           /\ NotesPresent'
           /\ EventsFollowCommit'
<1>0. \A x \in committed : /\ req'[x].op = req[x].op
                           /\ req'[x].brief = req[x].brief
                           /\ req'[x].notes = req[x].notes
  BY DEF IInv, TypeOK
<1>1. RowInv' /\ CommittedBriefsComplete'
  BY DEF IInv, RowInv, CommittedBriefsComplete
<1>2. DecisionAttributed'
  BY <1>0 DEF IInv, DecisionAttributed, Decided
<1>3. NotesPresent'
  BY <1>0 DEF IInv, NotesPresent
<1>4. EventsFollowCommit'
  BY <1>0 DEF IInv, EventsFollowCommit
<1> QED
  BY <1>1, <1>2, <1>3, <1>4

LEMMA InvInit == Init => IInv
<1> SUFFICES ASSUME Init PROVE IInv
  OBVIOUS
<1>1. TypeOK
  BY TypeInit
<1>2. \A r \in Requests : req[r].pc = "new" /\ ~InTransaction(r) /\ r \notin committed
  BY DEF Init, InTransaction, OpenPoints, NewSession
<1>3. SessionShape /\ CommittedShape /\ GenerationInv /\ ReviewInv /\ LockInv
  BY <1>2 DEF Init, SessionShape, CommittedShape, GenerationInv, ReviewInv, LockInv
<1>4. \A b \in Briefs : \/ brief[b] = Absent
                        \/ \E t \in Tenants, s \in AssetSources : brief[b] = Delivered(t, s)
  BY DEF Init
<1>5. \A b \in Briefs :
        /\ \/ brief[b] = Absent
           \/ /\ brief[b].state = "in_review"
              /\ brief[b].tenant # None
              /\ brief[b].asset # None
        /\ brief[b].notes = None
        /\ brief[b].reviewer = None
  <2> SUFFICES ASSUME NEW b \in Briefs
               PROVE  /\ \/ brief[b] = Absent
                         \/ /\ brief[b].state = "in_review"
                            /\ brief[b].tenant # None
                            /\ brief[b].asset # None
                      /\ brief[b].notes = None
                      /\ brief[b].reviewer = None
    OBVIOUS
  <2>1. CASE brief[b] = Absent
    BY <2>1 DEF Absent
  <2>2. ASSUME NEW t \in Tenants, NEW s \in AssetSources, brief[b] = Delivered(t, s)
        PROVE  /\ brief[b].state = "in_review" /\ brief[b].tenant # None
               /\ brief[b].asset # None /\ brief[b].notes = None
               /\ brief[b].reviewer = None
    BY <2>2, NoneAssumption DEF Delivered
  <2> QED
    BY <1>4, <2>1, <2>2
<1>6. RowInv /\ CommittedBriefsComplete
  BY <1>5 DEF RowInv, CommittedBriefsComplete, Absent
<1>7. DecisionAttributed /\ NotesPresent
  BY <1>5 DEF DecisionAttributed, Decided, NotesPresent, Absent
<1>8. EventsFollowCommit
  BY DEF Init, EventsFollowCommit
<1> QED
  BY <1>1, <1>3, <1>6, <1>7, <1>8 DEF IInv

\* What a request may rely on is only ever taken away by another generation of the
\* same brief, and there is none: a step of one request keeps the others' invariants.
LEMMA InvStep ==
    ASSUME IInv, TypeOK', [Next]_vars
    PROVE  IInv'
<1> USE DEF IInv
<1>1. ASSUME NEW r \in Requests, GenerateBrief(r) PROVE IInv'
  <2>1. PICK b \in Briefs, t \in Tenants :
          /\ brief[b] = Absent
          /\ \A other \in Requests : req[other].op = "generate" => req[other].brief # b
          /\ req' = [req EXCEPT ![r] = [NewSession EXCEPT
                      !.pc = "gateway", !.op = "generate", !.brief = b,
                      !.row = [Absent EXCEPT !.state = "draft", !.tenant = t]]]
    BY <1>1 DEF GenerateBrief
  <2>2. /\ \A o \in Requests \ {r} : req'[o] = req[o]
        /\ req'[r].pc = "gateway" /\ req'[r].op = "generate" /\ req'[r].brief = b
        /\ req'[r].row.tenant = t /\ req'[r].row.notes = None /\ req'[r].row.reviewer = None
    BY <2>1 DEF NewSession, Absent, TypeOK
  <2>3. r \notin committed /\ req[r].pc = "new"
    BY <1>1 DEF GenerateBrief, CommittedShape
  <2>4. UNCHANGED <<brief, briefLock, assetLock, committed, published>>
    BY <1>1 DEF GenerateBrief
  <2>5. SessionShape' /\ CommittedShape'
    BY <2>2, <2>3, <2>4 DEF SessionShape, CommittedShape, InTransaction, OpenPoints, PointsOf, Ops
  <2>6. GenerationInv'
    BY <2>1, <2>2, <2>3, <2>4 DEF GenerationInv, InTransaction, OpenPoints
  <2>7. ReviewInv' /\ LockInv'
    BY <2>2, <2>3, <2>4 DEF ReviewInv, LockInv, InTransaction, OpenPoints, TypeOK
  <2> QED
    BY <2>2, <2>3, <2>4, <2>5, <2>6, <2>7, FrameStep
<1>2. ASSUME NEW r \in Requests, ReviewBrief(r) PROVE IInv'
  <2>1. PICK op \in {"approve", "reject"}, b \in Briefs, t \in Tenants, n \in Notes :
          LET row == brief[b]
              notes == IF op = "reject" THEN n ELSE None
              accepted == /\ row # Absent
                          /\ row.tenant = t
                          /\ AssertTransition(row.state, Target(op))
              next == IF op = "reject" /\ row.asset # None THEN "load_asset" ELSE "update"
              session == [NewSession EXCEPT
                           !.pc = next, !.op = op, !.brief = b, !.row = row, !.notes = notes]
          IN req' = [req EXCEPT ![r] = IF accepted THEN session ELSE Ended]
    BY <1>2 DEF ReviewBrief
  <2>2. r \notin committed /\ req[r].pc = "new"
    BY <1>2 DEF ReviewBrief, CommittedShape
  <2>3. UNCHANGED <<brief, briefLock, assetLock, committed, published>>
    BY <1>2 DEF ReviewBrief
  <2>4. /\ \A o \in Requests \ {r} : req'[o] = req[o]
        /\ \/ /\ brief[b].state # "absent"
              /\ req'[r].op = op /\ req'[r].brief = b
              /\ req'[r].pc = IF op = "reject" THEN "load_asset" ELSE "update"
              /\ op = "reject" => req'[r].notes \in Notes
           \/ req'[r].pc = "failed" /\ req'[r].op = None
    BY <2>1 DEF NewSession, Ended, TypeOK, RowInv
  <2>5. SessionShape' /\ CommittedShape'
    BY <2>2, <2>3, <2>4 DEF SessionShape, CommittedShape, InTransaction, OpenPoints, PointsOf, Ops
  <2>6. GenerationInv'
    BY <2>2, <2>3, <2>4, NoneAssumption DEF Ops, GenerationInv, InTransaction, OpenPoints
  <2>7. ReviewInv' /\ LockInv'
    BY <2>2, <2>3, <2>4 DEF ReviewInv, LockInv, InTransaction, OpenPoints, TypeOK
  <2> QED
    BY <2>2, <2>3, <2>4, <2>5, <2>6, <2>7, FrameStep
<1>3. ASSUME NEW r \in Requests, CreateAsset(r) PROVE IInv'
  <2>1. PICK source \in AssetSources :
          req' = [req EXCEPT ![r].pc = "review", ![r].row.asset = source]
    BY <1>3 DEF CreateAsset
  <2>2. /\ \A o \in Requests \ {r} : req'[o] = req[o]
        /\ req'[r].pc = "review" /\ req'[r].row.asset = source
        /\ req'[r].op = req[r].op /\ req'[r].brief = req[r].brief
        /\ req'[r].notes = req[r].notes
        /\ req'[r].row.tenant = req[r].row.tenant
        /\ req'[r].row.notes = req[r].row.notes
        /\ req'[r].row.reviewer = req[r].row.reviewer
    BY <2>1 DEF TypeOK, Sessions, Rows
  <2>3. /\ req[r].pc = "gateway" /\ r \notin committed /\ InTransaction(r)
        /\ req[r].op = "generate"
    BY <1>3 DEF CreateAsset, CommittedShape, SessionShape, PointsOf, InTransaction, OpenPoints, Ops
  <2>4. UNCHANGED <<brief, briefLock, assetLock, committed, published>>
    BY <1>3 DEF CreateAsset
  <2>5. SessionShape' /\ CommittedShape'
    BY <2>2, <2>3, <2>4 DEF SessionShape, CommittedShape, InTransaction, OpenPoints, PointsOf, Ops
  <2>6. GenerationInv'
    BY <2>2, <2>3, <2>4 DEF GenerationInv, InTransaction, OpenPoints
  <2>7. ReviewInv' /\ LockInv'
    BY <2>2, <2>3, <2>4 DEF ReviewInv, LockInv, InTransaction, OpenPoints, TypeOK
  <2> QED
    BY <2>2, <2>3, <2>4, <2>5, <2>6, <2>7, FrameStep
<1>4. ASSUME NEW r \in Requests, CreateAssetRefused(r) PROVE IInv'
  <2>1. /\ \A o \in Requests \ {r} : req'[o] = req[o]
        /\ req'[r].pc = "failed" /\ req'[r].op = None
    BY <1>4 DEF CreateAssetRefused, Ended, NewSession, TypeOK
  <2>2. /\ req[r].pc = "gateway" /\ r \notin committed /\ InTransaction(r)
        /\ req[r].op = "generate"
    BY <1>4 DEF CreateAssetRefused, CommittedShape, SessionShape, PointsOf, InTransaction,
       OpenPoints, Ops
  <2>3. UNCHANGED <<brief, briefLock, assetLock, committed, published>>
    BY <1>4 DEF CreateAssetRefused
  <2>4. SessionShape' /\ CommittedShape'
    BY <2>1, <2>2, <2>3 DEF SessionShape, CommittedShape, InTransaction, OpenPoints
  <2>5. GenerationInv'
    BY <2>1, <2>2, <2>3, NoneAssumption DEF GenerationInv, InTransaction, OpenPoints, Ops
  <2>6. ReviewInv' /\ LockInv'
    BY <2>1, <2>2, <2>3 DEF ReviewInv, LockInv, InTransaction, OpenPoints, TypeOK
  <2> QED
    BY <2>1, <2>2, <2>3, <2>4, <2>5, <2>6, FrameStep
<1>5. ASSUME NEW r \in Requests, SubmitForReview(r) PROVE IInv'
  <2>1. /\ \A o \in Requests \ {r} : req'[o] = req[o]
        /\ req'[r].pc = "commit" /\ req'[r].row.state = "in_review"
        /\ req'[r].op = req[r].op /\ req'[r].brief = req[r].brief
        /\ req'[r].notes = req[r].notes
        /\ req'[r].row.asset = req[r].row.asset
        /\ req'[r].row.tenant = req[r].row.tenant
        /\ req'[r].row.notes = req[r].row.notes
        /\ req'[r].row.reviewer = req[r].row.reviewer
    BY <1>5 DEF SubmitForReview, TypeOK, Sessions, Rows
  <2>2. /\ req[r].pc = "review" /\ r \notin committed /\ InTransaction(r)
        /\ req[r].op = "generate"
    BY <1>5 DEF SubmitForReview, CommittedShape, SessionShape, PointsOf, InTransaction,
       OpenPoints, Ops
  <2>3. UNCHANGED <<brief, briefLock, assetLock, committed, published>>
    BY <1>5 DEF SubmitForReview
  <2>4. SessionShape' /\ CommittedShape'
    BY <2>1, <2>2, <2>3 DEF SessionShape, CommittedShape, InTransaction, OpenPoints, PointsOf, Ops
  <2>5. GenerationInv'
    BY <2>1, <2>2, <2>3 DEF GenerationInv, InTransaction, OpenPoints
  <2>6. ReviewInv' /\ LockInv'
    BY <2>1, <2>2, <2>3 DEF ReviewInv, LockInv, InTransaction, OpenPoints, TypeOK
  <2> QED
    BY <2>1, <2>2, <2>3, <2>4, <2>5, <2>6, FrameStep
<1>6. ASSUME NEW r \in Requests, LoadAsset(r) PROVE IInv'
  <2>1. /\ \A o \in Requests \ {r} : req'[o] = req[o]
        /\ req'[r].pc = "write_notes" /\ req'[r].loaded = brief[req[r].brief].notes
        /\ req'[r].op = req[r].op /\ req'[r].brief = req[r].brief
        /\ req'[r].notes = req[r].notes
    BY <1>6 DEF LoadAsset, TypeOK, Sessions
  <2>2. /\ req[r].pc = "load_asset" /\ r \notin committed /\ InTransaction(r)
        /\ req[r].op = "reject"
    BY <1>6 DEF LoadAsset, CommittedShape, SessionShape, PointsOf, InTransaction, OpenPoints, Ops
  <2>3. UNCHANGED <<brief, briefLock, assetLock, committed, published>>
    BY <1>6 DEF LoadAsset
  <2>4. SessionShape' /\ CommittedShape'
    BY <2>1, <2>2, <2>3 DEF SessionShape, CommittedShape, InTransaction, OpenPoints, PointsOf, Ops
  <2>5. GenerationInv'
    BY <2>1, <2>2, <2>3 DEF GenerationInv, InTransaction, OpenPoints
  <2>6. ReviewInv' /\ LockInv'
    BY <2>1, <2>2, <2>3 DEF ReviewInv, LockInv, InTransaction, OpenPoints, TypeOK
  <2> QED
    BY <2>1, <2>2, <2>3, <2>4, <2>5, <2>6, FrameStep
<1>7. ASSUME NEW r \in Requests, WriteNotes(r) PROVE IInv'
  <2> DEFINE b == req[r].brief
  <2>1. /\ \A o \in Requests \ {r} : req'[o] = req[o]
        /\ req'[r].pc = "update" /\ req'[r].op = req[r].op
        /\ req'[r].brief = b /\ req'[r].notes = req[r].notes
    BY <1>7 DEF WriteNotes, TypeOK, Sessions
  <2>2. /\ req[r].pc = "write_notes" /\ r \notin committed /\ InTransaction(r)
        /\ req[r].op = "reject" /\ b \in Briefs /\ req[r].notes # None
    BY <1>7, NoneAssumption DEF WriteNotes, CommittedShape, SessionShape, PointsOf,
       InTransaction, OpenPoints, Ops
  <2>3. UNCHANGED <<brief, briefLock, committed, published>>
    BY <1>7 DEF WriteNotes
  <2>4. /\ \A c \in Briefs : assetLock'[c] = assetLock[c] \/ (c = b /\ assetLock'[c] = r)
        /\ assetLock'[b] = r \/ brief[b].notes # None
        /\ \A c \in Briefs : assetLock[c] # None => assetLock'[c] = assetLock[c]
    BY <1>7, <2>2 DEF WriteNotes, ReviewInv, TypeOK
  <2>5. SessionShape' /\ CommittedShape'
    BY <2>1, <2>2, <2>3 DEF SessionShape, CommittedShape, InTransaction, OpenPoints, PointsOf, Ops
  <2>6. GenerationInv'
    BY <2>1, <2>2, <2>3 DEF GenerationInv, InTransaction, OpenPoints
  <2>7. ReviewInv'
    BY <2>1, <2>2, <2>3, <2>4, NoneAssumption
       DEF ReviewInv, InTransaction, OpenPoints, SessionShape
  <2>8. LockInv'
    BY <2>1, <2>2, <2>4, NoneAssumption DEF LockInv, InTransaction, OpenPoints, TypeOK
  <2> QED
    BY <2>1, <2>2, <2>3, <2>5, <2>6, <2>7, <2>8, FrameStep
<1>8. ASSUME NEW r \in Requests, UpdateState(r) PROVE IInv'
  <2>1. /\ \A o \in Requests \ {r} : req'[o] = req[o]
        /\ req'[r].pc = "commit" /\ req'[r].op = req[r].op
        /\ req'[r].brief = req[r].brief /\ req'[r].notes = req[r].notes
        /\ req'[r].row.state = Target(req[r].op) /\ req'[r].row.reviewer = r
    BY <1>8 DEF UpdateState, TypeOK, Sessions, Rows
  <2>2. /\ req[r].pc = "update" /\ r \notin committed /\ InTransaction(r)
        /\ req[r].op \in {"approve", "reject"}
    BY <1>8 DEF UpdateState, CommittedShape, SessionShape, PointsOf, InTransaction,
       OpenPoints, Ops
  <2>3. UNCHANGED <<brief, assetLock, committed, published>>
    BY <1>8 DEF UpdateState
  <2>4. SessionShape' /\ CommittedShape'
    BY <2>1, <2>2, <2>3 DEF SessionShape, CommittedShape, InTransaction, OpenPoints, PointsOf, Ops
  <2>5. GenerationInv'
    BY <2>1, <2>2, <2>3 DEF GenerationInv, InTransaction, OpenPoints
  <2>6. ReviewInv' /\ LockInv'
    BY <2>1, <2>2, <2>3 DEF ReviewInv, LockInv, InTransaction, OpenPoints, TypeOK
  <2> QED
    BY <2>1, <2>2, <2>3, <2>4, <2>5, <2>6, FrameStep
<1>9. ASSUME NEW r \in Requests, Commit(r) PROVE IInv'
  <2> DEFINE b == req[r].brief
  <2>1. /\ \A o \in Requests \ {r} : req'[o] = req[o]
        /\ req'[r].pc = IF req[r].op = "reject" THEN "done" ELSE "flush"
        /\ req'[r].op = req[r].op /\ req'[r].brief = b /\ req'[r].notes = req[r].notes
    BY <1>9 DEF Commit, TypeOK, Sessions
  <2>2. /\ req[r].pc = "commit" /\ r \notin committed /\ InTransaction(r)
        /\ req[r].op \in Ops /\ b \in Briefs
        /\ req[r].op = "reject" => req[r].notes \in Notes
    BY <1>9 DEF Commit, CommittedShape, SessionShape, InTransaction, OpenPoints
  <2>3. committed' = committed \union {r} /\ published' = published
    BY <1>9 DEF Commit
  <2>4. \A c \in Briefs : assetLock'[c] = IF assetLock[c] = r THEN None ELSE assetLock[c]
    BY <1>9 DEF Commit, Release
  <2>5. brief'[b] = RowAfter(r) /\ \A c \in Briefs \ {b} : brief'[c] = brief[c]
    BY <1>9, <2>2 DEF Commit, TypeOK
  <2>6. CASE req[r].op = "generate"
    <3>1. /\ brief[b] = Absent
          /\ brief'[b].state = "in_review"
          /\ brief'[b].tenant # None /\ brief'[b].asset # None
          /\ brief'[b].notes = None /\ brief'[b].reviewer = None
      BY <2>2, <2>5, <2>6, NoneAssumption DEF RowAfter, GenerationInv
    <3>2. \A c \in Briefs : assetLock[c] # r
      BY <2>6, NoneAssumption DEF LockInv
    <3>3. \A o \in Requests : InTransaction(o) /\ req[o].op # "generate" => req[o].brief # b
      BY <3>1 DEF ReviewInv, Absent
    <3>4. SessionShape' /\ CommittedShape'
      BY <2>1, <2>2, <2>3, <2>6 DEF SessionShape, CommittedShape, InTransaction, OpenPoints
    <3>5. GenerationInv'
      BY <2>1, <2>2, <2>3, <2>5, <2>6 DEF GenerationInv, SessionShape, InTransaction, OpenPoints
    <3>6. ReviewInv'
      <4>1. \A c \in Briefs : assetLock'[c] = assetLock[c]
        BY <2>4, <3>2
      <4> QED
        BY <2>1, <2>2, <2>5, <3>3, <4>1 DEF ReviewInv, SessionShape, InTransaction, OpenPoints
    <3>7. LockInv'
      BY <2>1, <2>2, <2>4, <3>2 DEF LockInv, InTransaction, OpenPoints, TypeOK
    <3>8. RowInv' /\ CommittedBriefsComplete'
      BY <2>5, <3>1 DEF RowInv, CommittedBriefsComplete, Absent
    <3>9. DecisionAttributed'
      <4> SUFFICES ASSUME NEW c \in Briefs
                   PROVE  LET x == brief'[c].reviewer IN
                          /\ Decided(c)' <=> x # None
                          /\ Decided(c)' => /\ x \in committed'
                                            /\ req'[x].brief = c
                                            /\ req'[x].op \in {"approve", "reject"}
                                            /\ Target(req'[x].op) = brief'[c].state
        BY DEF DecisionAttributed
      <4>1. CASE c = b
        BY <3>1, <4>1 DEF Decided
      <4>2. CASE c # b
        BY <2>1, <2>2, <2>3, <2>5, <4>2 DEF DecisionAttributed, Decided, TypeOK
      <4> QED
        BY <4>1, <4>2
    <3>10. NotesPresent'
      BY <2>1, <2>2, <2>3, <2>5, <3>1 DEF NotesPresent, TypeOK
    <3>11. EventsFollowCommit'
      BY <2>1, <2>2, <2>3 DEF EventsFollowCommit, TypeOK
    <3> QED
      BY <3>4, <3>5, <3>6, <3>7, <3>8, <3>9, <3>10, <3>11
  <2>7. CASE req[r].op # "generate"
    <3>0. /\ brief[b].state # "absent"
          /\ req[r].row.state = Target(req[r].op) /\ req[r].row.reviewer = r
          /\ req[r].op \in {"approve", "reject"}
      BY <2>2, <2>7 DEF ReviewInv, Ops
    <3>1. /\ brief'[b].state = Target(req[r].op) /\ brief'[b].reviewer = r
          /\ brief'[b].tenant = brief[b].tenant /\ brief'[b].asset = brief[b].asset
          /\ brief'[b].notes = IF assetLock[b] = r THEN req[r].notes ELSE brief[b].notes
      <4>1. brief'[b] = [brief[b] EXCEPT
                            !.state = req[r].row.state,
                            !.reviewer = req[r].row.reviewer,
                            !.notes = IF assetLock[b] = r THEN req[r].notes ELSE @]
        BY <2>5, <2>7 DEF RowAfter
      <4>2. brief[b] \in Rows
        BY <2>2 DEF TypeOK
      <4> QED
        BY <3>0, <4>1, <4>2 DEF Rows
    <3>2. /\ assetLock[b] = r => req[r].op = "reject" /\ req[r].notes # None
          /\ req[r].op = "reject" => brief'[b].notes # None
          /\ brief[b].notes # None => brief'[b].notes # None
      BY <2>2, <3>1, NoneAssumption DEF LockInv, ReviewInv
    <3>3. brief'[b].state \in {"approved", "rejected"} /\ brief'[b].state # "absent"
      BY <3>1 DEF Target
    <3>4. SessionShape' /\ CommittedShape'
      BY <2>1, <2>2, <2>3, <3>0 DEF SessionShape, CommittedShape, InTransaction, OpenPoints
    <3>5. GenerationInv'
      <4>1. \A o \in Requests : InTransaction(o) /\ req[o].op = "generate" => req[o].brief # b
        BY <3>0 DEF GenerationInv, Absent
      <4> QED
        BY <2>1, <2>2, <2>3, <2>5, <2>7, <4>1 DEF GenerationInv, SessionShape, InTransaction, OpenPoints
    <3>6. ReviewInv'
      BY <2>1, <2>2, <2>4, <2>5, <3>2, <3>3
         DEF ReviewInv, SessionShape, InTransaction, OpenPoints
    <3>7. LockInv'
      BY <2>1, <2>2, <2>4 DEF LockInv, InTransaction, OpenPoints, TypeOK
    <3>8. RowInv' /\ CommittedBriefsComplete'
      BY <2>2, <2>5, <3>0, <3>1, <3>3 DEF RowInv, CommittedBriefsComplete
    <3>9. DecisionAttributed'
      <4> SUFFICES ASSUME NEW c \in Briefs
                   PROVE  LET x == brief'[c].reviewer IN
                          /\ Decided(c)' <=> x # None
                          /\ Decided(c)' => /\ x \in committed'
                                            /\ req'[x].brief = c
                                            /\ req'[x].op \in {"approve", "reject"}
                                            /\ Target(req'[x].op) = brief'[c].state
        BY DEF DecisionAttributed
      <4>1. CASE c = b
        BY <2>1, <2>3, <3>0, <3>1, <3>3, <4>1, NoneAssumption DEF Decided
      <4>2. CASE c # b
        BY <2>1, <2>2, <2>3, <2>5, <4>2 DEF DecisionAttributed, Decided, TypeOK
      <4> QED
        BY <4>1, <4>2
    <3>10. NotesPresent'
      <4>0. \A x \in committed : req'[x] = req[x]
        BY <2>1, <2>2 DEF TypeOK
      <4> SUFFICES ASSUME NEW c \in Briefs
                   PROVE  /\ brief'[c].state = "rejected" => brief'[c].notes # None
                          /\ brief'[c].notes # None =>
                              \E x \in committed' : /\ req'[x].op = "reject"
                                                    /\ req'[x].brief = c
                                                    /\ req'[x].notes = brief'[c].notes
        BY DEF NotesPresent
      <4>1. CASE c = b
        <5>1. brief'[c].state = "rejected" => brief'[c].notes # None
          BY <3>0, <3>1, <3>2, <4>1 DEF Target
        <5>2. CASE assetLock[b] = r
          BY <2>1, <2>3, <3>1, <3>2, <4>1, <5>1, <5>2
        <5>3. CASE assetLock[b] # r
          BY <2>3, <3>1, <4>0, <4>1, <5>1, <5>3 DEF NotesPresent
        <5> QED
          BY <5>2, <5>3
      <4>2. CASE c # b
        BY <2>3, <2>5, <4>0, <4>2 DEF NotesPresent
      <4> QED
        BY <4>1, <4>2
    <3>11. EventsFollowCommit'
      BY <2>1, <2>2, <2>3 DEF EventsFollowCommit, TypeOK
    <3> QED
      BY <3>4, <3>5, <3>6, <3>7, <3>8, <3>9, <3>10, <3>11
  <2> QED
    BY <2>6, <2>7
<1>10. ASSUME NEW r \in Requests, FlushEvents(r) PROVE IInv'
  <2>1. /\ \A o \in Requests \ {r} : req'[o] = req[o]
        /\ req'[r].pc = "done" /\ req'[r].op = req[r].op
        /\ req'[r].brief = req[r].brief /\ req'[r].notes = req[r].notes
    BY <1>10 DEF FlushEvents, TypeOK, Sessions
  <2>2. /\ req[r].pc = "flush" /\ r \in committed /\ ~InTransaction(r)
        /\ req[r].op \in {"generate", "approve"} /\ req[r].brief \in Briefs
    BY <1>10 DEF FlushEvents, CommittedShape, SessionShape, InTransaction, OpenPoints, Ops
  <2>3. UNCHANGED <<brief, assetLock, committed>>
    BY <1>10 DEF FlushEvents
  <2>4. SessionShape' /\ CommittedShape'
    BY <2>1, <2>2, <2>3 DEF SessionShape, CommittedShape, InTransaction, OpenPoints
  <2>5. GenerationInv'
    BY <2>1, <2>2, <2>3 DEF GenerationInv, InTransaction, OpenPoints
  <2>6. ReviewInv' /\ LockInv'
    BY <2>1, <2>2, <2>3 DEF ReviewInv, LockInv, InTransaction, OpenPoints, TypeOK
  <2>7. RowInv' /\ CommittedBriefsComplete'
    BY <2>3 DEF RowInv, CommittedBriefsComplete
  <2>8. DecisionAttributed' /\ NotesPresent'
    BY <2>1, <2>3 DEF DecisionAttributed, Decided, NotesPresent, TypeOK
  <2>9. EventsFollowCommit'
    <3>1. \A e \in published' : \/ e \in published
                               \/ /\ e.by = r /\ e.brief = req[r].brief
                                  /\ e.kind = IF req[r].op = "generate"
                                              THEN "ready" ELSE "approved"
      BY <1>10 DEF FlushEvents, PublishPending
    <3> QED
      BY <2>1, <2>2, <2>3, <3>1 DEF EventsFollowCommit, TypeOK
  <2> QED
    BY <2>4, <2>5, <2>6, <2>7, <2>8, <2>9
<1>11. ASSUME NEW r \in Requests, Rollback(r) PROVE IInv'
  <2>1. /\ \A o \in Requests \ {r} : req'[o] = req[o]
        /\ req'[r].pc = "failed" /\ req'[r].op = None
    BY <1>11 DEF Rollback, Ended, NewSession, TypeOK
  <2>2. r \notin committed /\ InTransaction(r)
    BY <1>11 DEF Rollback, CommittedShape, InTransaction, OpenPoints
  <2>3. UNCHANGED <<brief, committed, published>>
    BY <1>11 DEF Rollback
  <2>4. \A b \in Briefs : assetLock'[b] = IF assetLock[b] = r THEN None ELSE assetLock[b]
    BY <1>11 DEF Rollback, Release
  <2>5. SessionShape' /\ CommittedShape'
    BY <2>1, <2>2, <2>3 DEF SessionShape, CommittedShape, InTransaction, OpenPoints
  <2>6. GenerationInv'
    BY <2>1, <2>2, <2>3, NoneAssumption DEF GenerationInv, InTransaction, OpenPoints, Ops
  <2>7. ReviewInv'
    BY <2>1, <2>2, <2>3, <2>4, NoneAssumption
       DEF ReviewInv, InTransaction, OpenPoints, SessionShape
  <2>8. LockInv'
    BY <2>1, <2>2, <2>4 DEF LockInv, InTransaction, OpenPoints, TypeOK
  <2> QED
    BY <2>1, <2>2, <2>3, <2>5, <2>6, <2>7, <2>8, FrameStep
<1>12. ASSUME NEW r \in Requests, LoseEvents(r) PROVE IInv'
  <2>1. /\ \A o \in Requests \ {r} : req'[o] = req[o]
        /\ req'[r].pc = "failed" /\ req'[r].op = req[r].op
        /\ req'[r].brief = req[r].brief /\ req'[r].notes = req[r].notes
    BY <1>12 DEF LoseEvents, TypeOK, Sessions
  <2>2. /\ req[r].pc = "flush" /\ r \in committed /\ ~InTransaction(r)
        /\ req[r].op \in Ops /\ req[r].brief \in Briefs
    BY <1>12 DEF LoseEvents, CommittedShape, SessionShape, InTransaction, OpenPoints
  <2>3. UNCHANGED <<brief, assetLock, committed, published>>
    BY <1>12 DEF LoseEvents
  <2>4. SessionShape' /\ CommittedShape'
    BY <2>1, <2>2, <2>3 DEF SessionShape, CommittedShape, InTransaction, OpenPoints
  <2>5. GenerationInv'
    BY <2>1, <2>2, <2>3 DEF GenerationInv, InTransaction, OpenPoints
  <2>6. ReviewInv' /\ LockInv'
    BY <2>1, <2>2, <2>3 DEF ReviewInv, LockInv, InTransaction, OpenPoints, TypeOK
  <2> QED
    BY <2>1, <2>2, <2>3, <2>4, <2>5, <2>6, FrameStep
<1>13. CASE UNCHANGED vars
  <2> USE <1>13 DEF vars
  <2>1. SessionShape' /\ CommittedShape' /\ RowInv' /\ CommittedBriefsComplete'
    BY DEF SessionShape, CommittedShape, InTransaction, RowInv, CommittedBriefsComplete
  <2>2. GenerationInv' /\ ReviewInv' /\ LockInv'
    BY DEF GenerationInv, ReviewInv, LockInv, InTransaction
  <2>3. DecisionAttributed' /\ NotesPresent' /\ EventsFollowCommit'
    BY DEF DecisionAttributed, Decided, NotesPresent, EventsFollowCommit
  <2> QED
    BY <2>1, <2>2, <2>3
<1> QED
  BY <1>1, <1>2, <1>3, <1>4, <1>5, <1>6, <1>7, <1>8, <1>9, <1>10, <1>11, <1>12, <1>13
     DEF Next, Advance, AllAnswered
-------------------------------------------------------------------------------
(* The theorems.                                                            *)

LEMMA Inductive == IInv /\ [Next]_vars => IInv'
<1> SUFFICES ASSUME IInv, [Next]_vars PROVE IInv'
  OBVIOUS
<1>1. TypeOK'
  BY TypeStep DEF IInv
<1> QED
  BY <1>1, InvStep

LEMMA Invariance == Spec => []IInv
BY InvInit, Inductive, PTL DEF Spec

\* Every row, lock and session keeps its type, however many requests overlap.
THEOREM TypeCorrect == Spec => []TypeOK
<1>1. IInv => TypeOK
  BY DEF IInv
<1> QED
  BY <1>1, Invariance, PTL

\* generate_brief never shows a half-made brief to another transaction.
THEOREM BriefsComplete == Spec => []CommittedBriefsComplete
<1>1. IInv => CommittedBriefsComplete
  BY DEF IInv
<1> QED
  BY <1>1, Invariance, PTL

\* A decision and its reviewer are those of one committed review, although reviews
\* are checked on stale copies.
THEOREM DecisionsAttributed == Spec => []DecisionAttributed
<1>1. IInv => DecisionAttributed
  BY DEF IInv
<1> QED
  BY <1>1, Invariance, PTL

-------------------------------------------------------------------------------
(* Whose notes a rejected brief carries.  RejectionCarriesNotes says        *)
(* nothing of the rejections under way; the strengthening says which        *)
(* committed rejection one that will send no notes relies on.               *)

\* An open rejection that loaded notes found those of a committed one, and one past its
\* flush has locked the asset or found its own notes there.
NotesInv ==
    \A r \in Requests : InTransaction(r) /\ req[r].op = "reject" =>
        /\ req[r].pc = "write_notes" /\ req[r].loaded # None =>
            RejectedWith(req[r].brief, req[r].loaded) # {}
        /\ req[r].pc \in {"update", "commit"} =>
            \/ assetLock[req[r].brief] = r
            \/ RejectedWith(req[r].brief, req[r].notes) # {}

\* Whether the notes of b are explained by its last decision.
Explained(b) ==
    brief[b].state = "rejected" =>
        LET r == brief[b].reviewer IN
        \/ brief[b].notes = req[r].notes
        \/ /\ RejectedWith(b, req[r].notes) \ {r} # {}
           /\ RejectedWith(b, brief[b].notes) \ {r} # {}

\* What has committed stays as it was.
LEMMA CommittedKept ==
    ASSUME IInv, [Next]_vars
    PROVE  /\ committed \subseteq committed'
           /\ \A x \in committed : /\ req'[x].op = req[x].op
                                   /\ req'[x].brief = req[x].brief
                                   /\ req'[x].notes = req[x].notes
<1> USE DEF IInv, TypeOK, CommittedShape
<1>0. \A x \in committed : req[x].pc \in {"flush", "done", "failed"}
  OBVIOUS
<1>1. ASSUME NEW r \in Requests,
             \/ GenerateBrief(r) \/ ReviewBrief(r) \/ CreateAsset(r) \/ CreateAssetRefused(r)
             \/ SubmitForReview(r) \/ LoadAsset(r) \/ WriteNotes(r) \/ UpdateState(r)
             \/ Rollback(r)
      PROVE  committed' = committed /\ r \notin committed
                /\ \A x \in Requests \ {r} : req'[x] = req[x]
  BY <1>0, <1>1 DEF GenerateBrief, ReviewBrief, CreateAsset, CreateAssetRefused,
     SubmitForReview, LoadAsset, WriteNotes, UpdateState, Rollback, InTransaction, OpenPoints
<1>2. ASSUME NEW r \in Requests, Commit(r) \/ FlushEvents(r) \/ LoseEvents(r)
      PROVE  /\ committed \subseteq committed'
             /\ \A x \in Requests \ {r} : req'[x] = req[x]
             /\ req'[r].op = req[r].op /\ req'[r].brief = req[r].brief
             /\ req'[r].notes = req[r].notes
  BY <1>2 DEF Commit, FlushEvents, LoseEvents, Sessions
<1>3. CASE UNCHANGED vars
  BY <1>3 DEF vars
<1> QED
  BY <1>1, <1>2, <1>3 DEF Next, Advance, AllAnswered

LEMMA RejectedGrows ==
    ASSUME committed \subseteq committed',
           \A x \in committed : /\ req'[x].op = req[x].op
                                /\ req'[x].brief = req[x].brief
                                /\ req'[x].notes = req[x].notes,
           NEW b, NEW n
    PROVE  RejectedWith(b, n) \subseteq RejectedWith(b, n)'
BY DEF RejectedWith

\* A request that a step leaves alone goes on relying on what it relied on.
LEMMA OtherNotes ==
    ASSUME NEW r \in Requests, req'[r] = req[r], NotesInv,
           \A b, n : RejectedWith(b, n) \subseteq RejectedWith(b, n)',
           assetLock[req[r].brief] = r => assetLock'[req[r].brief] = r
    PROVE  InTransaction(r)' /\ req'[r].op = "reject" =>
            /\ req'[r].pc = "write_notes" /\ req'[r].loaded # None =>
                RejectedWith(req[r].brief, req[r].loaded)' # {}
            /\ req'[r].pc \in {"update", "commit"} =>
                \/ assetLock'[req[r].brief] = r
                \/ RejectedWith(req[r].brief, req[r].notes)' # {}
BY DEF NotesInv, InTransaction

\* A step of r that gives away nobody else's lock.
LEMMA NotesOfOne ==
    ASSUME IInv, [Next]_vars, NotesInv, NEW r \in Requests,
           \A o \in Requests \ {r} : req'[o] = req[o],
           \A o \in Requests \ {r}, b \in Briefs : assetLock[b] = o => assetLock'[b] = o,
           InTransaction(r)' /\ req'[r].op = "reject" =>
            /\ req'[r].pc = "write_notes" /\ req'[r].loaded # None =>
                RejectedWith(req[r].brief, req[r].loaded)' # {}
            /\ req'[r].pc \in {"update", "commit"} =>
                \/ assetLock'[req'[r].brief] = r
                \/ RejectedWith(req[r].brief, req[r].notes)' # {}
    PROVE  NotesInv'
<1>1. \A b, n : RejectedWith(b, n) \subseteq RejectedWith(b, n)'
  BY CommittedKept, RejectedGrows
<1>2. ASSUME NEW o \in Requests, o # r, InTransaction(o)', req'[o].op = "reject"
      PROVE  /\ req'[o].pc = "write_notes" /\ req'[o].loaded # None =>
                RejectedWith(req[o].brief, req[o].loaded)' # {}
             /\ req'[o].pc \in {"update", "commit"} =>
                \/ assetLock'[req'[o].brief] = o
                \/ RejectedWith(req[o].brief, req[o].notes)' # {}
  <2>1. req'[o] = req[o] /\ req[o].brief \in Briefs
    BY <1>2 DEF IInv, SessionShape, InTransaction
  <2>2. assetLock[req[o].brief] = o => assetLock'[req[o].brief] = o
    BY <1>2, <2>1
  <2> QED
    BY <1>1, <1>2, <2>1, <2>2, OtherNotes
<1> QED
  BY <1>2 DEF NotesInv

LEMMA NotesStep ==
    ASSUME IInv, [Next]_vars, NotesInv
    PROVE  NotesInv'
<1> USE DEF IInv, TypeOK
<1>0. \A b, n : RejectedWith(b, n) \subseteq RejectedWith(b, n)'
  BY CommittedKept, RejectedGrows
<1>1. ASSUME NEW r \in Requests,
             GenerateBrief(r) \/ CreateAsset(r) \/ SubmitForReview(r)
      PROVE  NotesInv'
  <2>1. /\ \A o \in Requests \ {r} : req'[o] = req[o]
        /\ UNCHANGED assetLock
    BY <1>1 DEF GenerateBrief, CreateAsset, SubmitForReview
  <2>2. req[r].pc \in {"gateway", "review"} => req[r].op = "generate"
    BY DEF SessionShape, InTransaction, OpenPoints, PointsOf, Ops
  <2>3. req'[r].op = "generate"
    <3>1. CASE GenerateBrief(r)
      BY <3>1 DEF GenerateBrief, NewSession
    <3>2. CASE CreateAsset(r)
      BY <2>2, <3>2 DEF CreateAsset, Sessions
    <3>3. CASE SubmitForReview(r)
      BY <2>2, <3>3 DEF SubmitForReview, Sessions
    <3> QED
      BY <1>1, <3>1, <3>2, <3>3
  <2> QED
    BY <2>1, <2>3, NotesOfOne
<1>2. ASSUME NEW r \in Requests, ReviewBrief(r) PROVE NotesInv'
  <2>1. PICK op \in {"approve", "reject"}, b \in Briefs, t \in Tenants, n \in Notes :
          LET row == brief[b]
              notes == IF op = "reject" THEN n ELSE None
              accepted == /\ row # Absent
                          /\ row.tenant = t
                          /\ AssertTransition(row.state, Target(op))
              next == IF op = "reject" /\ row.asset # None THEN "load_asset" ELSE "update"
              session == [NewSession EXCEPT
                           !.pc = next, !.op = op, !.brief = b, !.row = row, !.notes = notes]
          IN req' = [req EXCEPT ![r] = IF accepted THEN session ELSE Ended]
    BY <1>2 DEF ReviewBrief
  <2>2. /\ \A o \in Requests \ {r} : req'[o] = req[o]
        /\ UNCHANGED assetLock
    BY <1>2, <2>1 DEF ReviewBrief
  <2>3. brief[b] # Absent => brief[b].asset # None
    BY DEF CommittedBriefsComplete
  <2>4. req'[r].op = "reject" => req'[r].pc = "load_asset"
    BY <2>1, <2>3, NoneAssumption DEF Ended, NewSession, Ops
  <2> QED
    BY <2>2, <2>4, NotesOfOne
<1>3. ASSUME NEW r \in Requests, LoadAsset(r) PROVE NotesInv'
  <2>1. /\ \A o \in Requests \ {r} : req'[o] = req[o]
        /\ req'[r].pc = "write_notes" /\ req'[r].brief = req[r].brief
        /\ req'[r].loaded = brief[req[r].brief].notes
        /\ UNCHANGED <<assetLock, committed>>
    BY <1>3 DEF LoadAsset, Sessions
  <2>2. req[r].brief \in Briefs
    BY <1>3 DEF LoadAsset, SessionShape, InTransaction, OpenPoints
  <2>3. brief[req[r].brief].notes # None =>
            RejectedWith(req[r].brief, brief[req[r].brief].notes) # {}
    BY <2>2 DEF NotesPresent, RejectedWith
  <2>4. req'[r].loaded # None => RejectedWith(req[r].brief, req[r].loaded)' # {}
    BY <1>0, <2>1, <2>3
  <2> QED
    BY <2>1, <2>4, NotesOfOne
<1>4. ASSUME NEW r \in Requests, WriteNotes(r) PROVE NotesInv'
  <2> DEFINE b == req[r].brief
  <2>1. /\ \A o \in Requests \ {r} : req'[o] = req[o]
        /\ req'[r].pc = "update" /\ req'[r].op = req[r].op
        /\ req'[r].brief = b /\ req'[r].notes = req[r].notes
    BY <1>4 DEF WriteNotes, Sessions
  <2>2. /\ req[r].pc = "write_notes" /\ InTransaction(r) /\ req[r].op = "reject"
        /\ b \in Briefs /\ req[r].notes # None
    BY <1>4, NoneAssumption DEF WriteNotes, SessionShape, InTransaction, OpenPoints, PointsOf, Ops
  <2>3. \A o \in Requests \ {r}, c \in Briefs : assetLock[c] = o => assetLock'[c] = o
    BY <1>4, <2>2, NoneAssumption DEF WriteNotes
  <2>4. assetLock'[b] = r \/ RejectedWith(b, req[r].notes) # {}
    BY <1>4, <2>2 DEF WriteNotes, NotesInv
  <2>5. assetLock'[req'[r].brief] = r \/ RejectedWith(req[r].brief, req[r].notes)' # {}
    BY <1>0, <2>1, <2>4
  <2> QED
    BY <2>1, <2>3, <2>5, NotesOfOne
<1>5. ASSUME NEW r \in Requests, UpdateState(r) PROVE NotesInv'
  <2>1. /\ \A o \in Requests \ {r} : req'[o] = req[o]
        /\ req'[r].pc = "commit" /\ req'[r].op = req[r].op
        /\ req'[r].brief = req[r].brief /\ req'[r].notes = req[r].notes
        /\ UNCHANGED assetLock
    BY <1>5 DEF UpdateState, Sessions
  <2>2. req[r].pc = "update" /\ InTransaction(r)
    BY <1>5 DEF UpdateState, InTransaction, OpenPoints
  <2>3. req[r].op = "reject" =>
            \/ assetLock[req[r].brief] = r
            \/ RejectedWith(req[r].brief, req[r].notes) # {}
    BY <2>2 DEF NotesInv
  <2>4. req[r].op = "reject" =>
            \/ assetLock'[req'[r].brief] = r
            \/ RejectedWith(req[r].brief, req[r].notes)' # {}
    BY <1>0, <2>1, <2>3
  <2> QED
    BY <2>1, <2>4, NotesOfOne
<1>6. ASSUME NEW r \in Requests,
             \/ CreateAssetRefused(r) \/ Commit(r) \/ FlushEvents(r) \/ Rollback(r)
             \/ LoseEvents(r)
      PROVE  NotesInv'
  <2>1. /\ \A o \in Requests \ {r} : req'[o] = req[o]
        /\ req'[r].pc \in {"flush", "done", "failed"}
    BY <1>6 DEF CreateAssetRefused, Commit, FlushEvents, Rollback, LoseEvents, Ended,
       NewSession, Sessions
  <2>2. \A o \in Requests \ {r}, b \in Briefs : assetLock[b] = o => assetLock'[b] = o
    BY <1>6 DEF CreateAssetRefused, Commit, FlushEvents, Rollback, LoseEvents, Release
  <2>3. ~InTransaction(r)'
    BY <2>1 DEF InTransaction, OpenPoints
  <2> QED
    BY <2>1, <2>2, <2>3, NotesOfOne
<1>7. CASE UNCHANGED vars
  BY <1>7 DEF vars, NotesInv, InTransaction, RejectedWith
<1> QED
  BY <1>1, <1>2, <1>3, <1>4, <1>5, <1>6, <1>7 DEF Next, Advance, AllAnswered

\* A brief that a step leaves alone stays explained.
LEMMA ExplainedStays ==
    ASSUME IInv, [Next]_vars, NEW b \in Briefs, brief'[b] = brief[b], Explained(b)
    PROVE  Explained(b)'
<1> DEFINE x == brief[b].reviewer
<1>1. brief[b].state = "rejected" => x \in committed
  BY DEF IInv, DecisionAttributed, Decided
<1>2. \A n : RejectedWith(b, n) \subseteq RejectedWith(b, n)'
  BY CommittedKept, RejectedGrows
<1>3. brief[b].state = "rejected" => req'[x].notes = req[x].notes
  BY <1>1, CommittedKept
<1> QED
  BY <1>2, <1>3 DEF Explained

\* A commit either writes its own notes or relies on those of two other rejections.
LEMMA ExplainedCommit ==
    ASSUME IInv, [Next]_vars, NotesInv, NEW r \in Requests, Commit(r),
           NEW b \in Briefs, b = req[r].brief
    PROVE  Explained(b)'
<1> USE DEF IInv, TypeOK
<1>1. /\ req[r].pc = "commit" /\ InTransaction(r) /\ r \notin committed
      /\ req[r].op \in Ops
  BY DEF Commit, CommittedShape, SessionShape, InTransaction, OpenPoints
<1>2. /\ req'[r].notes = req[r].notes /\ req'[r].brief = b
      /\ brief'[b] = RowAfter(r) /\ committed' = committed \union {r}
  BY <1>1 DEF Commit, Sessions
<1>3. CASE req[r].op # "reject"
  <2>1. brief'[b].state # "rejected"
    <3>1. CASE req[r].op = "generate"
      BY <1>1, <1>2, <3>1 DEF RowAfter, GenerationInv
    <3>2. CASE req[r].op = "approve"
      BY <1>1, <1>2, <3>2 DEF RowAfter, ReviewInv, Target, Rows
    <3> QED
      BY <1>1, <1>3, <3>1, <3>2 DEF Ops
  <2> QED
    BY <1>2, <2>1 DEF Explained
<1>4. CASE req[r].op = "reject"
  <2>1. /\ brief'[b].reviewer = r
        /\ assetLock[b] = r => brief'[b].notes = req[r].notes
        /\ assetLock[b] # r => brief'[b].notes = brief[b].notes
    BY <1>1, <1>2, <1>4 DEF RowAfter, ReviewInv, Rows
  <2>2. CASE assetLock[b] = r
    BY <1>2, <2>1, <2>2 DEF Explained
  <2>3. CASE assetLock[b] # r
    <3>1. RejectedWith(b, req[r].notes) # {} /\ brief[b].notes # None
      BY <1>1, <1>4, <2>3 DEF NotesInv, ReviewInv
    <3>2. RejectedWith(b, brief[b].notes) # {}
      BY <1>1, <3>1 DEF NotesPresent, RejectedWith
    <3>3. \A n : RejectedWith(b, n) \subseteq RejectedWith(b, n)' \ {r}
      <4>1. \A n : RejectedWith(b, n) \subseteq RejectedWith(b, n)'
        BY CommittedKept, RejectedGrows
      <4> QED
        BY <1>1, <4>1 DEF RejectedWith
    <3>4. /\ RejectedWith(b, req[r].notes)' \ {r} # {}
          /\ RejectedWith(b, brief[b].notes)' \ {r} # {}
      <4> DEFINE n == req[r].notes
                 m == brief[b].notes
      <4>1. RejectedWith(b, n) # {} /\ RejectedWith(b, m) # {}
        BY <3>1, <3>2
      <4> QED
        BY <1>2, <2>1, <2>3, <3>3, <4>1
    <3> QED
      BY <1>2, <2>1, <2>3, <3>4 DEF Explained
  <2> QED
    BY <2>2, <2>3
<1> QED
  BY <1>3, <1>4

LEMMA ExplainedStep ==
    ASSUME IInv, [Next]_vars, NotesInv, NEW b \in Briefs, Explained(b)
    PROVE  Explained(b)'
<1>1. ASSUME NEW r \in Requests, Commit(r) PROVE Explained(b)'
  <2>1. CASE b = req[r].brief
    BY <1>1, <2>1, ExplainedCommit
  <2>2. CASE b # req[r].brief
    BY <1>1, <2>2, ExplainedStays DEF Commit, IInv, TypeOK
  <2> QED
    BY <2>1, <2>2
<1>2. CASE UNCHANGED brief
  BY <1>2, ExplainedStays
<1> QED
  BY <1>1, <1>2 DEF Next, Advance, AllAnswered, vars, GenerateBrief, ReviewBrief, CreateAsset,
     CreateAssetRefused, SubmitForReview, LoadAsset, WriteNotes, UpdateState, FlushEvents,
     Rollback, LoseEvents

\* A rejected brief has its reviewer's notes unless three rejections overlapped, however
\* many requests there are, even when a flush finds the notes unchanged.
THEOREM RejectionsCarryNotes == Spec => []RejectionCarriesNotes
<1> DEFINE NInv == NotesInv /\ \A b \in Briefs : Explained(b)
<1>1. Init => NInv
  BY InvInit DEF Init, NotesInv, Explained, NewSession, InTransaction, OpenPoints, Absent,
     Delivered
<1>2. IInv /\ NInv /\ [Next]_vars => NInv'
  BY NotesStep, ExplainedStep
<1>3. IInv /\ NInv => RejectionCarriesNotes
  BY DEF IInv, NotesPresent, Explained, RejectionCarriesNotes, RejectedWith
<1> HIDE DEF NInv
<1> QED
  BY <1>1, <1>2, <1>3, Invariance, PTL DEF Spec

\* flush_events publishes the events of committed transactions only.
THEOREM EventsAreOfCommits == Spec => []EventsFollowCommit
<1>1. IInv => EventsFollowCommit
  BY DEF IInv
<1> QED
  BY <1>1, Invariance, PTL
-------------------------------------------------------------------------------
(* Decisions settle.                                                        *)

\* Only a commit changes a brief, and the committing request either inserts a brief that
\* was absent or reviews it.
LEMMA SettledRow ==
    ASSUME IInv, [Next]_vars, NEW b \in Briefs, Settled(b)
    PROVE  brief'[b] = brief[b]
<1>1. ASSUME NEW r \in Requests, Commit(r) PROVE brief'[b] = brief[b]
  <2>1. InTransaction(r) /\ req[r].brief \in Briefs
    BY <1>1 DEF Commit, InTransaction, OpenPoints, IInv, SessionShape
  <2>2. req[r].brief # b
    <3>1. CASE req[r].op = "generate"
      BY <2>1, <3>1 DEF IInv, GenerationInv, Settled, Decided, Absent
    <3>2. CASE req[r].op # "generate"
      BY <2>1, <3>2 DEF Settled, Reviewing
    <3> QED
      BY <3>1, <3>2
  <2> QED
    BY <1>1, <2>1, <2>2 DEF Commit, IInv, TypeOK
<1>2. CASE UNCHANGED brief
  BY <1>2
<1> QED
  BY <1>1, <1>2 DEF Next, Advance, AllAnswered, vars, GenerateBrief, ReviewBrief, CreateAsset,
     CreateAssetRefused, SubmitForReview, LoadAsset, WriteNotes, UpdateState, FlushEvents,
     Rollback, LoseEvents

\* A request that reviews b after a step reviewed it before, or was accepted by the step.
LEMMA SettledReviews ==
    ASSUME IInv, [Next]_vars, NEW b \in Briefs, Settled(b), NEW x \in Requests
    PROVE  ~Reviewing(x, b)'
<1> USE DEF IInv, TypeOK, InTransaction, OpenPoints
<1>0. ~Reviewing(x, b)
  BY DEF Settled
<1>1. ASSUME NEW r \in Requests, ReviewBrief(r) PROVE ~Reviewing(x, b)'
  <2>1. PICK op \in {"approve", "reject"}, c \in Briefs, t \in Tenants, n \in Notes :
          LET row == brief[c]
              notes == IF op = "reject" THEN n ELSE None
              accepted == /\ row # Absent
                          /\ row.tenant = t
                          /\ AssertTransition(row.state, Target(op))
              next == IF op = "reject" /\ row.asset # None THEN "load_asset" ELSE "update"
              session == [NewSession EXCEPT
                           !.pc = next, !.op = op, !.brief = c, !.row = row, !.notes = notes]
          IN req' = [req EXCEPT ![r] = IF accepted THEN session ELSE Ended]
    BY <1>1 DEF ReviewBrief
  <2>2. \A o \in Requests \ {r} : req'[o] = req[o]
    BY <2>1
  <2>3. \/ req'[r].pc = "failed"
        \/ req'[r].brief = c /\ AssertTransition(brief[c].state, Target(op))
    BY <2>1 DEF NewSession, Ended
  <2>4. ~AssertTransition(brief[b].state, Target(op))
    BY DEF Settled, Decided, AssertTransition, VALID_TRANSITIONS, Target
  <2> QED
    BY <1>0, <2>2, <2>3, <2>4 DEF Reviewing
<1>2. ASSUME NEW r \in Requests, GenerateBrief(r) PROVE ~Reviewing(x, b)'
  <2>1. req'[r].op = "generate" /\ \A o \in Requests \ {r} : req'[o] = req[o]
    BY <1>2 DEF GenerateBrief, NewSession
  <2> QED
    BY <1>0, <2>1 DEF Reviewing
<1>3. ASSUME NEW r \in Requests,
             \/ CreateAsset(r) \/ SubmitForReview(r) \/ LoadAsset(r)
             \/ WriteNotes(r) \/ UpdateState(r)
      PROVE  ~Reviewing(x, b)'
  <2>1. /\ \A o \in Requests \ {r} : req'[o] = req[o]
        /\ req'[r].op = req[r].op /\ req'[r].brief = req[r].brief /\ InTransaction(r)
    BY <1>3 DEF CreateAsset, SubmitForReview, LoadAsset, WriteNotes, UpdateState, Sessions
  <2> QED
    BY <1>0, <2>1 DEF Reviewing
<1>4. ASSUME NEW r \in Requests,
             \/ CreateAssetRefused(r) \/ Commit(r) \/ FlushEvents(r)
             \/ Rollback(r) \/ LoseEvents(r)
      PROVE  ~Reviewing(x, b)'
  <2>1. /\ \A o \in Requests \ {r} : req'[o] = req[o]
        /\ req'[r].pc \in {"flush", "done", "failed"}
    BY <1>4 DEF CreateAssetRefused, Commit, FlushEvents, Rollback, LoseEvents, Ended,
       NewSession, Sessions
  <2> QED
    BY <1>0, <2>1 DEF Reviewing
<1>5. CASE UNCHANGED vars
  BY <1>0, <1>5 DEF Reviewing, vars
<1> QED
  BY <1>1, <1>2, <1>3, <1>4, <1>5 DEF Next, Advance, AllAnswered

\* A decision is final once no overlapping review is open, for any number of requests.
THEOREM DecisionsAreFinal == Spec => DecisionsSettle
<1>1. IInv /\ [Next]_vars =>
        [\A b \in Briefs : Settled(b) => Settled(b)' /\ brief'[b] = brief[b]]_vars
  <2> SUFFICES ASSUME IInv, [Next]_vars, NEW b \in Briefs, Settled(b)
               PROVE  Settled(b)' /\ brief'[b] = brief[b]
    OBVIOUS
  <2>1. brief'[b] = brief[b]
    BY SettledRow
  <2>2. \A x \in Requests : ~Reviewing(x, b)'
    BY SettledReviews
  <2> QED
    BY <2>1, <2>2 DEF Settled, Decided
<1> QED
  BY <1>1, Invariance, PTL DEF Spec, DecisionsSettle

-------------------------------------------------------------------------------
(* The requests implement BriefLifecycle.                                   *)

\* The brief of a committed request never disappears again.
CommittedVisible == \A r \in committed : brief[req[r].brief] # Absent

\* The decision a row shows, and what it shows once the request r commits.
LEMMA CommitRow ==
    ASSUME IInv, IInv', NEW r \in Requests, Commit(r)
    PROVE  /\ req[r].brief \in Briefs /\ r \notin committed /\ req[r].op \in Ops
           /\ \A c \in Briefs \ {req[r].brief} : brief'[c] = brief[c]
           /\ brief'[req[r].brief] # Absent
           /\ req[r].op = "generate" => /\ brief[req[r].brief] = Absent
                                        /\ brief'[req[r].brief].state = "in_review"
           /\ req[r].op # "generate" => /\ brief[req[r].brief] # Absent
                                        /\ brief'[req[r].brief].state = Target(req[r].op)
<1> DEFINE b == req[r].brief
<1>1. /\ InTransaction(r) /\ b \in Briefs /\ r \notin committed
      /\ req[r].op \in Ops /\ req[r].pc = "commit"
  BY DEF Commit, InTransaction, OpenPoints, IInv, SessionShape, CommittedShape
<1>2. brief'[b] = RowAfter(r) /\ \A c \in Briefs \ {b} : brief'[c] = brief[c]
  BY <1>1 DEF Commit, IInv, TypeOK
<1>3. CASE req[r].op = "generate"
  BY <1>1, <1>2, <1>3 DEF IInv, GenerationInv, RowAfter, Absent
<1>4. CASE req[r].op # "generate"
  <2>1. brief[b].state # "absent" /\ req[r].row.state = Target(req[r].op) /\ brief[b] \in Rows
    BY <1>1, <1>4 DEF IInv, ReviewInv, TypeOK
  <2>2. brief'[b].state = Target(req[r].op)
    BY <1>2, <1>4, <2>1 DEF RowAfter, Rows
  <2> QED
    BY <1>1, <1>2, <1>4, <2>1, <2>2 DEF Absent, Target
<1> QED
  BY <1>1, <1>2, <1>3, <1>4

\* The steps that neither commit nor publish leave the abstract state as it is.
QuietStep(r) ==
    \/ GenerateBrief(r) \/ ReviewBrief(r) \/ CreateAsset(r) \/ CreateAssetRefused(r)
    \/ SubmitForReview(r) \/ LoadAsset(r) \/ WriteNotes(r) \/ UpdateState(r)
    \/ Rollback(r) \/ LoseEvents(r)

LEMMA QuietFrame ==
    ASSUME IInv, NEW r \in Requests, QuietStep(r)
    PROVE  /\ UNCHANGED <<brief, committed, published>>
           /\ \A x \in committed : req'[x].op = req[x].op /\ req'[x].brief = req[x].brief
<1> USE DEF IInv, TypeOK, CommittedShape
<1>1. UNCHANGED <<brief, committed, published>>
  BY DEF QuietStep, GenerateBrief, ReviewBrief, CreateAsset, CreateAssetRefused,
     SubmitForReview, LoadAsset, WriteNotes, UpdateState, Rollback, LoseEvents
<1>2. \A x \in Requests \ {r} : req'[x] = req[x]
  BY DEF QuietStep, GenerateBrief, ReviewBrief, CreateAsset, CreateAssetRefused,
     SubmitForReview, LoadAsset, WriteNotes, UpdateState, Rollback, LoseEvents
<1>3. CASE LoseEvents(r)
  BY <1>1, <1>2, <1>3 DEF LoseEvents, Sessions
<1>4. CASE ~LoseEvents(r)
  <2>1. r \notin committed
    BY <1>4 DEF QuietStep, GenerateBrief, ReviewBrief, CreateAsset, CreateAssetRefused,
       SubmitForReview, LoadAsset, WriteNotes, UpdateState, Rollback, InTransaction, OpenPoints
  <2> QED
    BY <1>1, <1>2, <2>1
<1> QED
  BY <1>3, <1>4

LEMMA FlushFrame ==
    ASSUME IInv, NEW r \in Requests, FlushEvents(r)
    PROVE  /\ UNCHANGED <<brief, committed>>
           /\ \A x \in committed : req'[x].op = req[x].op /\ req'[x].brief = req[x].brief
           /\ r \in committed /\ req[r].brief \in Briefs /\ req[r].op \in {"generate", "approve"}
BY DEF IInv, TypeOK, Sessions, FlushEvents, CommittedShape, SessionShape, Ops

LEMMA VisibleStep ==
    ASSUME IInv, IInv', CommittedVisible, [Next]_vars
    PROVE  CommittedVisible'
<1>1. ASSUME NEW r \in Requests, Commit(r) PROVE CommittedVisible'
  <2>1. /\ committed' = committed \union {r} /\ req'[r].brief = req[r].brief
        /\ \A x \in committed : req'[x] = req[x]
    BY <1>1, CommitRow DEF Commit, IInv, TypeOK, Sessions
  <2>2. \A x \in committed : req[x].brief \in Briefs
    BY DEF IInv, SessionShape, TypeOK
  <2> QED
    BY <1>1, <2>1, <2>2, CommitRow DEF CommittedVisible
<1>2. ASSUME NEW r \in Requests, QuietStep(r) PROVE CommittedVisible'
  BY <1>2, QuietFrame DEF CommittedVisible
<1>3. ASSUME NEW r \in Requests, FlushEvents(r) PROVE CommittedVisible'
  BY <1>3, FlushFrame DEF CommittedVisible
<1>4. CASE UNCHANGED vars
  BY <1>4 DEF vars, CommittedVisible
<1> QED
  BY <1>1, <1>2, <1>3, <1>4 DEF Next, Advance, AllAnswered, QuietStep

\* Every step of the requests is a step of the lifecycle, or none at all.
LEMMA RefinementStep ==
    ASSUME IInv, IInv', CommittedVisible, [Next]_vars
    PROVE  [Lifecycle!Next]_(Lifecycle!vars)
<1>1. ASSUME NEW r \in Requests, Commit(r) PROVE Lifecycle!Next
  <2> DEFINE b == req[r].brief
  <2>1. /\ committed' = committed \union {r} /\ published' = published
        /\ req'[r].brief = b /\ req'[r].op = req[r].op
        /\ \A x \in committed : req'[x] = req[x]
    BY <1>1, CommitRow DEF Commit, IInv, TypeOK, Sessions
  <2>2. announcedBar' = announcedBar
    BY <2>1 DEF announcedBar
  <2>3. CASE req[r].op = "generate"
    <3>1. decisionBar[b] = "none"
      BY <1>1, <2>3, CommitRow DEF decisionBar
    <3>2. decisionBar' = [decisionBar EXCEPT ![b] = "pending"]
      BY <1>1, <2>3, CommitRow DEF decisionBar, Decided
    <3>3. approvedOnceBar' = approvedOnceBar
      BY <1>1, <2>1, <2>3, CommitRow DEF approvedOnceBar
    <3> QED
      BY <1>1, <2>2, <3>1, <3>2, <3>3, CommitRow DEF Lifecycle!Next, Lifecycle!Deliver
  <2>4. CASE req[r].op # "generate"
    <3> DEFINE d == Target(req[r].op)
    <3>0. d \in {"approved", "rejected"} /\ (d = "approved" <=> req[r].op = "approve")
      BY DEF Target
    <3>1. decisionBar[b] # "none"
      BY <1>1, <2>4, CommitRow DEF decisionBar, Decided
    <3>2. decisionBar' = [decisionBar EXCEPT ![b] = d]
      BY <1>1, <2>4, <3>0, CommitRow DEF decisionBar, Decided
    <3>3. approvedOnceBar' = IF d = "approved" THEN approvedOnceBar \union {b}
                             ELSE approvedOnceBar
      BY <1>1, <2>1, <2>4, <3>0, CommitRow DEF approvedOnceBar
    <3>4. Lifecycle!Decide(b, d)
      BY <2>2, <3>1, <3>2, <3>3 DEF Lifecycle!Decide
    <3> QED
      BY <1>1, <3>0, <3>4, CommitRow DEF Lifecycle!Next, Lifecycle!Decisions
  <2> QED
    BY <2>3, <2>4
<1>2. ASSUME NEW r \in Requests, FlushEvents(r) PROVE Lifecycle!Next
  <2> DEFINE b == req[r].brief
             kind == IF req[r].op = "generate" THEN "ready" ELSE "approved"
  <2>1. decisionBar' = decisionBar /\ approvedOnceBar' = approvedOnceBar
    BY <1>2, FlushFrame DEF decisionBar, Decided, approvedOnceBar
  <2>2. announcedBar' = announcedBar \union {<<kind, b>>}
    <3> DEFINE event == [kind |-> kind, brief |-> b, by |-> r]
    <3>1. published' = published \union {event} /\ event.kind = kind /\ event.brief = b
      BY <1>2 DEF FlushEvents, PublishPending
    <3> HIDE DEF event
    <3> QED
      BY <3>1 DEF announcedBar
  <2>3. decisionBar[b] # "none"
    BY <1>2, FlushFrame DEF decisionBar, Decided, CommittedVisible
  <2>4. kind = "approved" => b \in approvedOnceBar
    BY <1>2, FlushFrame DEF approvedOnceBar
  <2>5. Lifecycle!Announce(kind, b)
    BY <2>1, <2>2, <2>3, <2>4 DEF Lifecycle!Announce
  <2> QED
    BY <1>2, <2>5, FlushFrame DEF Lifecycle!Next
<1>3. ASSUME NEW r \in Requests, QuietStep(r) PROVE UNCHANGED Lifecycle!vars
  BY <1>3, QuietFrame DEF Lifecycle!vars, decisionBar, Decided, approvedOnceBar, announcedBar
<1>4. CASE UNCHANGED vars
  BY <1>4 DEF vars, Lifecycle!vars, decisionBar, Decided, approvedOnceBar, announcedBar
<1> QED
  BY <1>1, <1>2, <1>3, <1>4 DEF Next, Advance, AllAnswered, QuietStep

LEMMA RefinementInit == Init => Lifecycle!Init
<1> SUFFICES ASSUME Init PROVE Lifecycle!Init
  OBVIOUS
<1>1. \A b \in Briefs : brief[b] = Absent \/ brief[b].state = "in_review"
  BY DEF Init, Delivered
<1>2. decisionBar \in [Briefs -> {"none", "pending"}]
  BY <1>1 DEF decisionBar, Decided
<1> QED
  BY <1>2 DEF Init, Lifecycle!Init, approvedOnceBar, announcedBar

\* The requests keep the promise of BriefLifecycle: what subscribers are told has
\* happened, and no brief is ever undelivered or undecided again.
THEOREM Refinement == Spec => LifecycleKept
<1>1. Init => CommittedVisible
  BY DEF Init, CommittedVisible
<1>2. IInv /\ CommittedVisible /\ [Next]_vars => CommittedVisible'
  BY Inductive, VisibleStep
<1>3. IInv /\ CommittedVisible /\ [Next]_vars => [Lifecycle!Next]_(Lifecycle!vars)
  BY Inductive, RefinementStep
<1> QED
  BY <1>1, <1>2, <1>3, RefinementInit, Invariance, PTL DEF Spec, LifecycleKept, Lifecycle!Spec

-------------------------------------------------------------------------------
(* LLMGateway: how far briefs can overspend a month's budget.  BudgetBound  *)
(* says nothing of the calls under way; the strengthening counts, for every *)
(* month, the calls that may still be charged to it, each at the highest    *)
(* price.                                                                   *)


Spent(p) == counter[p].cost - exempt[p]

\* The points at which a call knows the month it is charged to.
Billed == {"increment", "commit"}

\* The calls for briefs that may still add to p: those past their check and not answered
\* while p has not ended, those waiting to insert the row of an earlier month, whose check
\* will not look at p, and those answered in p, whichever month it is now.
MayCharge(c, p) ==
    /\ call[c].kind = "brief"
    /\ \/ /\ month <= p
          /\ \/ call[c].pc \in PastCheck \ Billed
             \/ call[c].pc = "insert" /\ call[c].inserted # p
       \/ call[c].pc \in Billed /\ call[c].charged = p

Pending(p) == {c \in Callers : MayCharge(c, p)}

Limit == (Budget - Estimate) + Cardinality(Callers) * MaxCost

Within(p) == Spent(p) + Cardinality(Pending(p)) * MaxCost <= Limit

\* A month that has not begun, and a month without a row, has cost nothing.
Untouched ==
    \A p \in Periods : p > month \/ ~counter[p].exists => counter[p].cost = 0

\* Months a call knows of are not in the future; a call waiting to insert was checked.
CallShape ==
    \A c \in Callers :
        /\ call[c].inserted <= month
        /\ call[c].charged <= month
        /\ call[c].pc \in {"check", "insert"} => call[c].kind = "brief"
        /\ call[c].pc = "insert" => call[c].inserted # 0
        /\ call[c].pc \notin Billed => call[c].charged = 0

GInv ==
    /\ GatewayTypeOK
    /\ Untouched
    /\ CallShape
    /\ \A p \in Periods : Within(p)

-------------------------------------------------------------------------------
(* Type correctness.                                                        *)

LEMMA CallParts ==
    /\ Points = {"idle", "check", "insert", "refused", "cache", "primary", "secondary",
                 "static", "increment", "commit"}
    /\ 0 \in Attempts /\ 0 \in NoneOrPeriods /\ 0 \in Costs
    /\ \A a \in Attempts : a < MaxRetries - 1 => a + 1 \in Attempts
    /\ Costs \subseteq Nat
BY GatewayAssumption
   DEF Points, GatewayOpenPoints, PastCheck, Attempts, MaxRetries, NoneOrPeriods, Costs

LEMMA IdleType == Idle \in Calls
BY CallParts DEF Idle, Calls, Kinds, Sources

LEMMA AnsweredType ==
    ASSUME GatewayTypeOK, NEW s \in Calls, NEW source \in Sources, NEW cost \in Costs
    PROVE  Answered(s, source, cost) \in Calls
<1>1. (IF s.kind = "no_business" THEN 0 ELSE month) \in NoneOrPeriods
  BY DEF GatewayTypeOK, NoneOrPeriods
<1> QED
  BY <1>1, CallParts DEF Answered, Calls

LEMMA AnsweredFields ==
    ASSUME NEW s \in Calls, NEW source, NEW cost
    PROVE  /\ Answered(s, source, cost).pc = "increment"
           /\ Answered(s, source, cost).kind = s.kind
           /\ Answered(s, source, cost).inserted = s.inserted
           /\ s.kind = "no_business" => Answered(s, source, cost).charged = 0
           /\ s.kind # "no_business" => Answered(s, source, cost).charged = month
BY DEF Answered, Calls

LEMMA AnsweredProvider ==
    ASSUME NEW s \in Calls, NEW cost
    PROVE  /\ Answered(s, "provider", cost).provider = "provider"
           /\ Answered(s, "static", cost).provider = "static"
BY DEF Answered, Calls

\* The other ways in which a step changes a call.
LEMMA PointUpdate ==
    ASSUME NEW s \in Calls, NEW pc \in Points
    PROVE  [s EXCEPT !.pc = pc] \in Calls
BY DEF Calls

LEMMA AttemptUpdate ==
    ASSUME NEW s \in Calls, NEW pc \in Points, NEW a \in Attempts
    PROVE  [s EXCEPT !.pc = pc, !.attempt = a] \in Calls
BY DEF Calls

LEMMA InsertedUpdate ==
    ASSUME NEW s \in Calls, NEW pc \in Points, NEW p \in NoneOrPeriods
    PROVE  [s EXCEPT !.pc = pc, !.inserted = p] \in Calls
BY DEF Calls

LEMMA CachedUpdate ==
    ASSUME NEW s \in Calls, NEW pc \in Points, NEW source \in Sources
    PROVE  [s EXCEPT !.pc = pc, !.provider = "cache", !.source = source] \in Calls
BY DEF Calls

\* One call changes and stays a call.
LEMMA OneCall ==
    ASSUME NEW f \in [Callers -> Calls], NEW c \in Callers, NEW s \in Calls
    PROVE  [f EXCEPT ![c] = s] \in [Callers -> Calls]
OBVIOUS

LEMMA AddToRowType ==
    ASSUME GatewayTypeOK, NEW c \in Callers, NEW p \in Periods
    PROVE  AddToRow(c, p) \in [exists : BOOLEAN, calls : Nat, cost : Nat]
<1>1. call[c].cost \in Nat
  BY CallParts DEF GatewayTypeOK, Calls
<1>2. counter[p].calls \in Nat /\ counter[p].cost \in Nat
  BY DEF GatewayTypeOK
<1>3. counter[p].calls + 1 \in Nat /\ counter[p].cost + call[c].cost \in Nat
  BY <1>1, <1>2
<1> QED
  BY <1>3 DEF AddToRow

LEMMA GatewayReleaseType ==
    ASSUME GatewayTypeOK, NEW c \in Callers, GatewayRelease(c)
    PROVE  rowLock' \in [Periods -> Callers \union {Nothing}]
BY DEF GatewayTypeOK, GatewayRelease

LEMMA GatewayTypeInit == GatewayInit => GatewayTypeOK
BY GatewayAssumption, IdleType DEF GatewayInit, GatewayTypeOK, NoRow, Periods

LEMMA GatewayTypeStep == GatewayTypeOK /\ [GatewayNext]_gatewayVars => GatewayTypeOK'
<1> SUFFICES ASSUME GatewayTypeOK, [GatewayNext]_gatewayVars PROVE GatewayTypeOK'
  OBVIOUS
<1> USE DEF GatewayTypeOK, database, clock
<1>1. ASSUME NEW c \in Callers, Start(c) PROVE GatewayTypeOK'
  <2>1. PICK kind \in Kinds, key \in Keys, pc \in Points :
            call' = [call EXCEPT ![c] = [Idle EXCEPT !.pc = pc, !.kind = kind, !.key = key]]
    BY <1>1, CallParts DEF Start
  <2>2. [Idle EXCEPT !.pc = pc, !.kind = kind, !.key = key] \in Calls
    BY IdleType DEF Calls
  <2>3. started' \in 0..MaxCalls
    BY <1>1, GatewayAssumption DEF Start
  <2> QED
    BY <1>1, <2>1, <2>2, <2>3 DEF Start
<1>2. ASSUME NEW c \in Callers, CheckBudget(c) PROVE GatewayTypeOK'
  <2>1. \E next \in Points, p \in NoneOrPeriods :
            call' = [call EXCEPT ![c].pc = next, ![c].inserted = p]
    <3>1. \E next \in Points :
            call' = [call EXCEPT ![c].pc = next,
                                 ![c].inserted = IF counter[month].exists THEN 0 ELSE month]
      BY <1>2, CallParts DEF CheckBudget
    <3>2. (IF counter[month].exists THEN 0 ELSE month) \in NoneOrPeriods
      BY DEF NoneOrPeriods
    <3> QED
      BY <3>1, <3>2
  <2>2. PICK next \in Points, p \in NoneOrPeriods :
            call' = [call EXCEPT ![c] = [call[c] EXCEPT !.pc = next, !.inserted = p]]
    BY <2>1
  <2>3. [call[c] EXCEPT !.pc = next, !.inserted = p] \in Calls
    BY InsertedUpdate
  <2>4. call' \in [Callers -> Calls]
    BY <2>2, <2>3
  <2> QED
    BY <1>2, <2>4 DEF CheckBudget
<1>3. ASSUME NEW c \in Callers, InsertCounter(c) PROVE GatewayTypeOK'
  <2>1. \/ call' = [call EXCEPT ![c] = Idle]
        \/ \E next \in Points : call' = [call EXCEPT ![c] = [call[c] EXCEPT !.pc = next]]
    BY <1>3, CallParts DEF InsertCounter
  <2>2. \A next \in Points : [call[c] EXCEPT !.pc = next] \in Calls
    BY PointUpdate
  <2>3. call' \in [Callers -> Calls]
    BY <2>1, <2>2, IdleType, OneCall
  <2>4. rowLock' \in [Periods -> Callers \union {Nothing}]
    BY <1>3 DEF InsertCounter
  <2> QED
    BY <1>3, <2>3, <2>4 DEF InsertCounter
<1>4. ASSUME NEW c \in Callers, LookUpCache(c) PROVE GatewayTypeOK'
  <2>1. \/ call' = [call EXCEPT ![c] = [call[c] EXCEPT !.pc = "primary"]]
        \/ \E source \in Sources :
            call' = [call EXCEPT ![c] =
                        [call[c] EXCEPT !.pc = "commit", !.provider = "cache", !.source = source]]
    BY <1>4, GatewayAssumption DEF LookUpCache
  <2>2. [call[c] EXCEPT !.pc = "primary"] \in Calls
    BY PointUpdate, CallParts
  <2>3. \A source \in Sources :
            [call[c] EXCEPT !.pc = "commit", !.provider = "cache", !.source = source] \in Calls
    BY CachedUpdate, CallParts
  <2>4. \E s \in Calls : call' = [call EXCEPT ![c] = s]
    BY <2>1, <2>2, <2>3
  <2> QED
    BY <1>4, <2>4 DEF LookUpCache
<1>5. ASSUME NEW c \in Callers, TryPrimary(c) \/ TrySecondary(c) \/ AnswerFromTemplate(c)
      PROVE  GatewayTypeOK'
  <2>1. call[c] \in Calls /\ call[c].pc \in Points /\ call[c].attempt \in Attempts
    BY DEF Calls
  <2>2. \/ \E source \in Sources, cost \in Costs :
            call' = [call EXCEPT ![c] = Answered(call[c], source, cost)]
        \/ \E next \in Points, a \in Attempts :
            call' = [call EXCEPT ![c] = [call[c] EXCEPT !.pc = next, !.attempt = a]]
        \/ \E next \in Points : call' = [call EXCEPT ![c] = [call[c] EXCEPT !.pc = next]]
    <3>1. CASE TryPrimary(c)
      <4>1. CASE call' = [call EXCEPT ![c].attempt = @ + 1] /\ call[c].attempt < MaxRetries - 1
        <5>1. [call[c] EXCEPT !.attempt = @ + 1]
                = [call[c] EXCEPT !.pc = call[c].pc, !.attempt = call[c].attempt + 1]
          BY <2>1 DEF Calls
        <5>2. call[c].attempt + 1 \in Attempts
          BY <2>1, <4>1, CallParts
        <5> QED
          BY <2>1, <4>1, <5>1, <5>2
      <4>2. CASE call' = [call EXCEPT ![c].pc = "secondary", ![c].attempt = 0]
        BY <4>2, CallParts
      <4>3. CASE \E cost \in ProviderCosts :
                    call' = [call EXCEPT ![c] = Answered(call[c], "provider", cost)]
        BY <4>3, GatewayAssumption DEF Sources
      <4> QED
        BY <3>1, <4>1, <4>2, <4>3 DEF TryPrimary
    <3>2. CASE TrySecondary(c)
      BY <3>2, GatewayAssumption, CallParts DEF TrySecondary, Sources
    <3>3. CASE AnswerFromTemplate(c)
      BY <3>3, CallParts DEF AnswerFromTemplate, Sources
    <3> QED
      BY <1>5, <3>1, <3>2, <3>3
  <2>3. \A source \in Sources, cost \in Costs : Answered(call[c], source, cost) \in Calls
    BY <2>1, AnsweredType
  <2>4. \A next \in Points, a \in Attempts : [call[c] EXCEPT !.pc = next, !.attempt = a] \in Calls
    BY <2>1, AttemptUpdate
  <2>5. \A next \in Points : [call[c] EXCEPT !.pc = next] \in Calls
    BY <2>1, PointUpdate
  <2>6. \E s \in Calls : call' = [call EXCEPT ![c] = s]
    <3> HIDE DEF GatewayTypeOK
    <3> QED
      BY <2>2, <2>3, <2>4, <2>5, Zenon
  <2> QED
    BY <1>5, <2>6 DEF TryPrimary, TrySecondary, AnswerFromTemplate
<1>6. ASSUME NEW c \in Callers, Increment(c) PROVE GatewayTypeOK'
  <2>1. call' = [call EXCEPT ![c] = [call[c] EXCEPT !.pc = "commit"]]
    BY <1>6 DEF Increment
  <2>2. [call[c] EXCEPT !.pc = "commit"] \in Calls
    BY PointUpdate, CallParts
  <2>4. call' \in [Callers -> Calls]
    BY <2>1, <2>2, OneCall
  <2>5. rowLock' \in [Periods -> Callers \union {Nothing}]
    BY <1>6 DEF Increment
  <2>6. cache' \in [Keys -> Sources \union {"none"}]
    BY <1>6 DEF Increment, Store, Calls
  <2> QED
    BY <1>6, <2>4, <2>5, <2>6 DEF Increment
<1>7. ASSUME NEW c \in Callers, GatewayCommit(c) PROVE GatewayTypeOK'
  <2>1. counter' \in [Periods -> [exists : BOOLEAN, calls : Nat, cost : Nat]]
    <3>1. [NoRow EXCEPT !.exists = TRUE] \in [exists : BOOLEAN, calls : Nat, cost : Nat]
      BY DEF NoRow
    <3> QED
      BY <1>7, <3>1, AddToRowType DEF GatewayCommit
  <2>2. call[c].cost \in Nat
    BY CallParts DEF Calls
  <2>3. ledger' \in [calls : Nat, hits : Nat, cost : Nat]
    <3>1. /\ [ledger EXCEPT !.hits = @ + 1] \in [calls : Nat, hits : Nat, cost : Nat]
          /\ [ledger EXCEPT !.calls = @ + 1, !.cost = @ + call[c].cost]
                \in [calls : Nat, hits : Nat, cost : Nat]
      <4>1. /\ ledger \in [calls : Nat, hits : Nat, cost : Nat]
            /\ ledger.calls + 1 \in Nat /\ ledger.hits + 1 \in Nat
            /\ ledger.cost + call[c].cost \in Nat
        BY <2>2
      <4> HIDE DEF GatewayTypeOK
      <4> QED
        BY <4>1
    <3> QED
      BY <1>7, <3>1 DEF GatewayCommit
  <2>4. exempt' \in [Periods -> Nat]
    BY <1>7, <2>2 DEF GatewayCommit
  <2> QED
    BY <1>7, <2>1, <2>3, <2>4, IdleType, GatewayReleaseType DEF GatewayCommit
<1>8. ASSUME NEW c \in Callers, Refuse(c) \/ GatewayRollback(c) PROVE GatewayTypeOK'
  BY <1>8, IdleType, GatewayReleaseType DEF Refuse, GatewayRollback
<1>9. ASSUME NextMonth PROVE GatewayTypeOK'
  BY <1>9, GatewayAssumption DEF NextMonth, Periods
<1>10. ASSUME NEW k \in Keys, Expire(k) PROVE GatewayTypeOK'
  BY <1>10 DEF Expire
<1>11. CASE UNCHANGED gatewayVars
  BY <1>11 DEF gatewayVars
<1> QED
  BY <1>1, <1>2, <1>3, <1>4, <1>5, <1>6, <1>7, <1>8, <1>9, <1>10, <1>11
     DEF GatewayNext, GatewayAdvance, GatewayFinished
-------------------------------------------------------------------------------
(* Arithmetic, and how a step may change what is pending for a month.       *)

LEMMA TimesMonotone ==
    ASSUME NEW a \in Nat, NEW b \in Nat, NEW m \in Nat, a <= b
    PROVE  a * m <= b * m /\ a * m \in Nat /\ b * m \in Nat
OBVIOUS

LEMMA TimesLess ==
    ASSUME NEW a \in Nat, NEW b \in Nat, NEW m \in Nat, a + 1 <= b
    PROVE  a * m + m <= b * m /\ a * m \in Nat /\ b * m \in Nat
OBVIOUS

LEMMA PendingSize ==
    ASSUME NEW p
    PROVE  /\ IsFiniteSet(Pending(p))
           /\ Cardinality(Pending(p)) \in Nat
           /\ Cardinality(Callers) \in Nat
           /\ Cardinality(Pending(p)) <= Cardinality(Callers)
BY GatewayAssumption, FS_Subset, FS_CardinalityType DEF Pending

LEMMA PendingSizeNext ==
    ASSUME NEW p
    PROVE  /\ IsFiniteSet(Pending(p)')
           /\ Cardinality(Pending(p)') \in Nat
           /\ Cardinality(Pending(p)') <= Cardinality(Callers)
BY GatewayAssumption, FS_Subset, FS_CardinalityType DEF Pending

LEMMA SpentType ==
    ASSUME GatewayTypeOK, NEW p \in Periods
    PROVE  Spent(p) \in Int
<1>1. counter[p].cost \in Nat /\ exempt[p] \in Nat
  BY DEF GatewayTypeOK
<1> QED
  BY <1>1 DEF Spent

LEMMA SpentTypeNext ==
    ASSUME GatewayTypeOK', NEW p \in Periods
    PROVE  Spent(p)' \in Int
<1>1. counter'[p].cost \in Nat /\ exempt'[p] \in Nat
  BY DEF GatewayTypeOK
<1> QED
  BY <1>1 DEF Spent

\* A month stays within the limit when nothing is added to it; when what it has spent so
\* far leaves room for one call, whoever joins; and when a pending call is paid for.
LEMMA WithinStep ==
    ASSUME GatewayTypeOK, GatewayTypeOK', NEW p \in Periods, Within(p),
           \/ Spent(p)' <= Spent(p) /\ Pending(p)' \subseteq Pending(p)
           \/ Spent(p)' <= Budget - Estimate
           \/ \E c \in Pending(p) : /\ Spent(p)' <= Spent(p) + MaxCost
                                    /\ Pending(p)' \subseteq Pending(p) \ {c}
    PROVE  Within(p)'
<1> DEFINE S == Spent(p)
           T == Spent(p)'
           k == Cardinality(Pending(p))
           l == Cardinality(Pending(p)')
           N == Cardinality(Callers)
           M == MaxCost
<1>1. /\ S \in Int /\ T \in Int /\ M \in Nat /\ Budget \in Nat /\ Estimate \in Nat
      /\ k \in Nat /\ l \in Nat /\ N \in Nat /\ l <= N
  BY SpentType, SpentTypeNext, PendingSize, PendingSizeNext, GatewayAssumption
<1>2. S + k * M <= (Budget - Estimate) + N * M
  BY DEF Within, Limit
<1>3. SUFFICES T + l * M <= (Budget - Estimate) + N * M
  BY DEF Within, Limit
<1>4. CASE T <= S /\ Pending(p)' \subseteq Pending(p)
  <2>1. l <= k
    BY <1>4, PendingSize, FS_Subset
  <2> HIDE DEF S, T, k, l, N, M
  <2>2. l * M <= k * M /\ l * M \in Nat /\ k * M \in Nat /\ N * M \in Nat
    BY <1>1, <2>1, TimesMonotone
  <2> QED
    BY <1>1, <1>2, <1>4, <2>2
<1>5. CASE T <= Budget - Estimate
  <2> HIDE DEF S, T, k, l, N, M
  <2>1. l * M <= N * M /\ l * M \in Nat /\ N * M \in Nat
    BY <1>1, TimesMonotone
  <2> QED
    BY <1>1, <1>5, <2>1
<1>6. ASSUME NEW c \in Pending(p), T <= S + M, Pending(p)' \subseteq Pending(p) \ {c}
      PROVE  T + l * M <= (Budget - Estimate) + N * M
  <2>1. IsFiniteSet(Pending(p) \ {c}) /\ Cardinality(Pending(p) \ {c}) = k - 1
    BY PendingSize, FS_RemoveElement
  <2>2. l <= k - 1
    BY <1>6, <2>1, FS_Subset
  <2> HIDE DEF S, T, k, l, N, M
  <2>3. l + 1 <= k
    BY <1>1, <2>2
  <2>4. l * M + M <= k * M /\ l * M \in Nat /\ k * M \in Nat
    BY <1>1, <2>3, TimesLess
  <2>5. N * M \in Nat
    BY <1>1, TimesMonotone
  <2> QED
    BY <1>1, <1>2, <1>6, <2>4, <2>5
<1> QED
  BY <1>4, <1>5, <1>6
-------------------------------------------------------------------------------
(* The strengthened invariant.                                              *)

LEMMA GatewayInvInit == GatewayInit => GInv
<1> SUFFICES ASSUME GatewayInit PROVE GInv
  OBVIOUS
<1>1. GatewayTypeOK
  BY GatewayTypeInit
<1>2. Untouched
  BY DEF GatewayInit, Untouched, NoRow
<1>3. CallShape
  BY DEF GatewayInit, CallShape, Idle
<1>4. ASSUME NEW p \in Periods PROVE Within(p)
  <2>1. Pending(p) = {}
    BY DEF GatewayInit, Pending, MayCharge, Idle, PastCheck, Billed
  <2>2. Cardinality(Pending(p)) = 0
    BY <2>1, FS_EmptySet
  <2>3. Spent(p) = 0
    BY DEF GatewayInit, Spent, NoRow
  <2> DEFINE N == Cardinality(Callers)
  <2>4. N \in Nat /\ MaxCost \in Nat /\ Budget \in Nat /\ Estimate \in Nat /\ Estimate <= Budget
    BY PendingSize, GatewayAssumption
  <2> HIDE DEF N
  <2>5. N * MaxCost \in Nat
    BY <2>4, TimesMonotone
  <2>6. 0 + 0 * MaxCost <= (Budget - Estimate) + N * MaxCost
    BY <2>4, <2>5
  <2> QED
    BY <2>2, <2>3, <2>6 DEF Within, Limit, N
<1> QED
  BY <1>1, <1>2, <1>3, <1>4 DEF GInv

\* A step that changes one call and neither the month nor what is committed.
LEMMA CallStep ==
    ASSUME GInv, GatewayTypeOK', NEW c \in Callers,
           UNCHANGED <<counter, exempt, month>>,
           \A o \in Callers \ {c} : call'[o] = call[o],
           call'[c].inserted <= month, call'[c].charged <= month,
           call'[c].pc \in {"check", "insert"} => call'[c].kind = "brief",
           call'[c].pc = "insert" => call'[c].inserted # 0,
           call'[c].pc \notin Billed => call'[c].charged = 0,
           \A p \in Periods : MayCharge(c, p)' => MayCharge(c, p) \/ Spent(p) <= Budget - Estimate
    PROVE  GInv'
<1>1. Untouched' /\ CallShape'
  BY DEF GInv, Untouched, CallShape
<1>2. ASSUME NEW p \in Periods PROVE Within(p)'
  <2>1. Spent(p)' = Spent(p) /\ Spent(p) \in Int
    BY SpentType DEF Spent, GInv
  <2>2. \A o \in Callers \ {c} : MayCharge(o, p)' = MayCharge(o, p)
    BY DEF MayCharge
  <2>3. CASE Spent(p) <= Budget - Estimate
    BY <2>1, <2>3, WithinStep DEF GInv
  <2>4. CASE ~(Spent(p) <= Budget - Estimate)
    <3>1. MayCharge(c, p)' => MayCharge(c, p)
      BY <2>4
    <3>2. Pending(p)' \subseteq Pending(p)
      BY <2>2, <3>1 DEF Pending
    <3> QED
      BY <2>1, <3>2, WithinStep DEF GInv
  <2> QED
    BY <2>3, <2>4
<1> QED
  BY <1>1, <1>2 DEF GInv

\* What a month that has room, or that has not begun, has spent.
LEMMA RoomLeft ==
    ASSUME GInv, NEW p \in Periods
    PROVE  /\ WithinBudget(counter[p].cost) => Spent(p) <= Budget - Estimate
           /\ p > month \/ ~counter[p].exists => Spent(p) <= Budget - Estimate
<1>1. /\ counter[p].cost \in Nat /\ exempt[p] \in Nat
      /\ Budget \in Nat /\ Estimate \in Nat /\ Estimate <= Budget
  BY GatewayAssumption DEF GInv, GatewayTypeOK
<1>2. p > month \/ ~counter[p].exists => counter[p].cost = 0
  BY DEF GInv, Untouched
<1> QED
  BY <1>1, <1>2 DEF WithinBudget, Spent

LEMMA GatewayInvStep ==
    ASSUME GInv, GatewayTypeOK', [GatewayNext]_gatewayVars
    PROVE  GInv'
<1> USE DEF database, clock
<1>0. /\ month \in Nat /\ month >= 1 /\ month \in Periods /\ call \in [Callers -> Calls]
      /\ \A p \in Periods : p \in Nat /\ p >= 1
      /\ \A p \in NoneOrPeriods : p \in Nat
  <2>1. \A p \in Periods : p \in Nat /\ p >= 1
    BY GatewayAssumption DEF Periods
  <2> QED
    BY <2>1 DEF GInv, GatewayTypeOK, NoneOrPeriods
<1>1. ASSUME NEW c \in Callers, Start(c) PROVE GInv'
  <2>1. /\ \A o \in Callers \ {c} : call'[o] = call[o]
        /\ call'[c].inserted = 0 /\ call'[c].charged = 0
        /\ \/ call'[c].kind = "brief" /\ call'[c].pc = "check"
           \/ call'[c].kind # "brief" /\ call'[c].pc = "cache"
    BY <1>0, <1>1 DEF Start, Idle
  <2>2. \A p : ~MayCharge(c, p)'
    BY <2>1 DEF MayCharge, PastCheck, Billed
  <2> QED
    BY <1>0, <1>1, <2>1, <2>2, CallStep DEF Start
<1>2. ASSUME NEW c \in Callers, CheckBudget(c) PROVE GInv'
  <2>1. /\ \A o \in Callers \ {c} : call'[o] = call[o]
        /\ call'[c].charged = call[c].charged /\ call'[c].kind = call[c].kind
        /\ call'[c].inserted = (IF counter[month].exists THEN 0 ELSE month)
        /\ call'[c].pc = IF ~counter[month].exists THEN "insert"
                         ELSE IF WithinBudget(counter[month].cost) THEN "cache" ELSE "refused"
    BY <1>0, <1>2 DEF CheckBudget, Calls
  <2>2. ASSUME NEW p \in Periods, MayCharge(c, p)' PROVE Spent(p) <= Budget - Estimate
    <3>1. month <= p /\ UNCHANGED month
      BY <1>2, <2>1, <2>2 DEF MayCharge, CheckBudget, Billed
    <3>2. CASE p > month
      BY <3>2, RoomLeft
    <3>3. CASE p = month
      <4>1. WithinBudget(counter[month].cost)
        BY <2>1, <2>2, <3>3 DEF MayCharge, PastCheck, Billed
      <4> QED
        BY <3>3, <4>1, RoomLeft
    <3> QED
      BY <1>0, <3>1, <3>2, <3>3
  <2>3. call[c].charged = 0 /\ call[c].kind = "brief"
    BY <1>2 DEF GInv, CallShape, CheckBudget, Billed
  <2>4. call'[c].inserted <= month /\ (call'[c].pc = "insert" => call'[c].inserted # 0)
    BY <1>0, <2>1
  <2> QED
    BY <1>0, <1>2, <2>1, <2>2, <2>3, <2>4, CallStep DEF CheckBudget
<1>3. ASSUME NEW c \in Callers, InsertCounter(c) PROVE GInv'
  <2> DEFINE q == call[c].inserted
  <2>1. q \in Periods /\ q <= month /\ call[c].charged = 0 /\ call[c].pc = "insert"
    BY <1>0, <1>3 DEF InsertCounter, GInv, CallShape, Calls, NoneOrPeriods, Billed
  <2>2. CASE counter[q].exists
    <3>1. /\ \A o \in Callers \ {c} : call'[o] = call[o]
          /\ call'[c].pc = "idle" /\ call'[c].inserted = 0 /\ call'[c].charged = 0
      BY <1>0, <1>3, <2>2 DEF InsertCounter, Idle
    <3>2. \A p : ~MayCharge(c, p)'
      BY <3>1 DEF MayCharge, PastCheck, Billed
    <3> QED
      BY <1>0, <1>3, <3>1, <3>2, CallStep DEF InsertCounter
  <2>3. CASE ~counter[q].exists
    <3>1. /\ \A o \in Callers \ {c} : call'[o] = call[o]
          /\ call'[c].pc \in {"cache", "refused"} /\ call'[c].kind = call[c].kind
          /\ call'[c].inserted = q /\ call'[c].charged = call[c].charged
      BY <1>0, <1>3, <2>3 DEF InsertCounter, Calls
    <3>2. ASSUME NEW p \in Periods, MayCharge(c, p)', ~MayCharge(c, p)
          PROVE  Spent(p) <= Budget - Estimate
      <4>1. p = q
        BY <1>3, <2>1, <3>1, <3>2 DEF MayCharge, InsertCounter, PastCheck, Billed
      <4> QED
        BY <2>3, <4>1, RoomLeft
    <3> QED
      BY <1>0, <1>3, <2>1, <3>1, <3>2, CallStep DEF InsertCounter
  <2> QED
    BY <2>2, <2>3
<1>4. ASSUME NEW c \in Callers,
             \/ LookUpCache(c) \/ TryPrimary(c) \/ TrySecondary(c) \/ AnswerFromTemplate(c)
      PROVE  GInv'
  <2>0. call[c] \in Calls
    BY <1>0
  <2>1. UNCHANGED <<counter, exempt, month>>
    BY <1>4 DEF LookUpCache, TryPrimary, TrySecondary, AnswerFromTemplate
  <2>2. /\ \A o \in Callers \ {c} : call'[o] = call[o]
        /\ call'[c].kind = call[c].kind /\ call'[c].inserted = call[c].inserted
        /\ call[c].pc \in {"cache", "primary", "secondary", "static"}
        /\ \/ /\ call'[c].pc \in {"primary", "secondary", "static", "commit"}
              /\ call'[c].charged = call[c].charged
           \/ /\ call'[c].pc = "increment"
              /\ call'[c].charged \in {0, month}
    <3>1. CASE LookUpCache(c)
      BY <1>0, <2>0, <3>1 DEF LookUpCache, Calls
    <3>2. CASE TryPrimary(c)
      <4>1. CASE \E cost \in ProviderCosts :
                    call' = [call EXCEPT ![c] = Answered(call[c], "provider", cost)]
        BY <1>0, <2>0, <3>2, <4>1, AnsweredFields DEF TryPrimary
      <4>2. CASE call' = [call EXCEPT ![c].attempt = @ + 1]
        BY <1>0, <2>0, <3>2, <4>2 DEF TryPrimary, Calls
      <4>3. CASE call' = [call EXCEPT ![c].pc = "secondary", ![c].attempt = 0]
        BY <1>0, <2>0, <3>2, <4>3 DEF TryPrimary, Calls
      <4> QED
        BY <3>2, <4>1, <4>2, <4>3 DEF TryPrimary
    <3>3. CASE TrySecondary(c)
      <4>1. CASE \E cost \in ProviderCosts :
                    call' = [call EXCEPT ![c] = Answered(call[c], "provider", cost)]
        BY <1>0, <2>0, <3>3, <4>1, AnsweredFields DEF TrySecondary
      <4>2. CASE call' = [call EXCEPT ![c].pc = "static"]
        BY <1>0, <2>0, <3>3, <4>2 DEF TrySecondary, Calls
      <4> QED
        BY <3>3, <4>1, <4>2 DEF TrySecondary
    <3>4. CASE AnswerFromTemplate(c)
      BY <1>0, <2>0, <3>4, AnsweredFields DEF AnswerFromTemplate
    <3> QED
      BY <1>4, <3>1, <3>2, <3>3, <3>4
  <2>3. call[c].charged = 0 /\ call[c].inserted <= month
    BY <2>2 DEF GInv, CallShape, Billed
  <2>4. \A p \in Periods : MayCharge(c, p)' => MayCharge(c, p)
    BY <1>0, <2>1, <2>2, <2>3 DEF MayCharge, PastCheck, Billed
  <2> QED
    BY <1>0, <2>1, <2>2, <2>3, <2>4, CallStep DEF Billed
<1>5. ASSUME NEW c \in Callers, Increment(c) PROVE GInv'
  <2>1. /\ \A o \in Callers \ {c} : call'[o] = call[o]
        /\ call[c].pc = "increment" /\ call'[c].pc = "commit"
        /\ call'[c].kind = call[c].kind /\ call'[c].inserted = call[c].inserted
        /\ call'[c].charged = call[c].charged
    BY <1>0, <1>5 DEF Increment, Calls
  <2>2. \A p \in Periods : MayCharge(c, p)' => MayCharge(c, p)
    BY <2>1 DEF MayCharge, PastCheck, Billed
  <2>3. call[c].inserted <= month /\ call[c].charged <= month
    BY DEF GInv, CallShape
  <2> QED
    BY <1>0, <1>5, <2>1, <2>2, <2>3, CallStep DEF Increment, Billed
<1>6. ASSUME NEW c \in Callers, GatewayCommit(c) PROVE GInv'
  <2> DEFINE q == call[c].charged
             x == call[c].cost
  <2>1. /\ \A o \in Callers \ {c} : call'[o] = call[o]
        /\ call[c].pc = "commit" /\ call'[c].pc = "idle"
        /\ call'[c].inserted = 0 /\ call'[c].charged = 0
        /\ UNCHANGED month
    BY <1>0, <1>6 DEF GatewayCommit, Idle
  <2>2. /\ x \in Nat /\ x <= MaxCost /\ MaxCost \in Nat
        /\ q <= month /\ call[c].inserted <= month
    <3>1. x \in Costs
      BY <1>0 DEF Calls
    <3> QED
      BY <3>1, GatewayAssumption DEF Costs, GInv, CallShape
  <2>3. \A p \in Periods :
            /\ counter[p].cost \in Nat /\ exempt[p] \in Nat
            /\ p # q /\ p # call[c].inserted => counter'[p] = counter[p]
            /\ p = q \/ p = call[c].inserted => counter'[p].exists
            /\ counter'[p].cost = IF p = q THEN counter[p].cost + x
                                  ELSE IF p = call[c].inserted THEN 0 ELSE counter[p].cost
            /\ p > month => counter'[p] = counter[p]
            /\ exempt'[p] = IF p = q /\ call[c].kind # "brief" THEN exempt[p] + x ELSE exempt[p]
    <3>1. \A p \in Periods : counter[p].cost \in Nat /\ exempt[p] \in Nat
      BY DEF GInv, GatewayTypeOK
    <3>2. \A p \in Periods :
            counter'[p] = IF p = q THEN AddToRow(c, p)
                          ELSE IF p = call[c].inserted THEN [NoRow EXCEPT !.exists = TRUE]
                          ELSE counter[p]
      BY <1>6 DEF GatewayCommit
    <3>3. \A p \in Periods :
            exempt'[p] = IF p = q /\ call[c].kind # "brief" THEN exempt[p] + x ELSE exempt[p]
      BY <1>6 DEF GatewayCommit
    <3> HIDE DEF q, x
    <3>4. \A p \in Periods : p > month => p # q /\ p # call[c].inserted
      BY <1>0, <2>2 DEF GInv, GatewayTypeOK, Calls, NoneOrPeriods
    <3> QED
      <4>1. ASSUME NEW p \in Periods
            PROVE  /\ AddToRow(c, p).exists
                   /\ AddToRow(c, p).cost = counter[p].cost + x
                   /\ [NoRow EXCEPT !.exists = TRUE].exists
                   /\ [NoRow EXCEPT !.exists = TRUE].cost = 0
        BY DEF AddToRow, NoRow, x
      <4> QED
        BY <3>1, <3>2, <3>3, <3>4, <4>1
  <2>4. Untouched'
    BY <2>1, <2>3 DEF Untouched, GInv
  <2>5. CallShape'
    BY <1>0, <2>1 DEF CallShape, GInv
  <2>6. ASSUME NEW p \in Periods PROVE Within(p)'
    <3>1. \A o \in Callers \ {c} : MayCharge(o, p)' = MayCharge(o, p)
      BY <2>1 DEF MayCharge
    <3>2. ~MayCharge(c, p)'
      BY <2>1 DEF MayCharge, PastCheck, Billed
    <3>3. Pending(p)' \subseteq Pending(p) \ {c}
      BY <3>1, <3>2 DEF Pending
    <3>4. Within(p)
      BY DEF GInv
    <3>5. CASE p = q /\ call[c].kind = "brief"
      <4>1. c \in Pending(p)
        BY <2>1, <3>5 DEF Pending, MayCharge, Billed
      <4>2. Spent(p)' <= Spent(p) + MaxCost
        BY <2>2, <2>3, <3>5 DEF Spent
      <4> QED
        BY <3>3, <3>4, <4>1, <4>2, WithinStep DEF GInv
    <3>6. CASE ~(p = q /\ call[c].kind = "brief")
      <4>1. Spent(p)' <= Spent(p)
        BY <2>2, <2>3, <3>6 DEF Spent
      <4>2. Pending(p)' \subseteq Pending(p)
        BY <3>3
      <4> QED
        BY <3>4, <4>1, <4>2, WithinStep DEF GInv
    <3> QED
      BY <3>5, <3>6
  <2> QED
    BY <2>4, <2>5, <2>6 DEF GInv
<1>7. ASSUME NEW c \in Callers, Refuse(c) \/ GatewayRollback(c) PROVE GInv'
  <2>1. /\ \A o \in Callers \ {c} : call'[o] = call[o]
        /\ UNCHANGED <<counter, exempt, month>>
        /\ call'[c].pc = "idle" /\ call'[c].inserted = 0 /\ call'[c].charged = 0
    BY <1>0, <1>7 DEF Refuse, GatewayRollback, Idle
  <2>2. \A p : ~MayCharge(c, p)'
    BY <2>1 DEF MayCharge, PastCheck, Billed
  <2> QED
    BY <1>0, <2>1, <2>2, CallStep
<1>8. ASSUME NextMonth PROVE GInv'
  <2>1. UNCHANGED <<counter, exempt, call>> /\ month' = month + 1
    BY <1>8 DEF NextMonth
  <2>2. Untouched' /\ CallShape'
    <3>1. \A p \in Periods : p > month + 1 => p > month
      BY <1>0
    <3>2. \A c \in Callers : call[c].inserted \in Nat /\ call[c].charged \in Nat
      BY <1>0 DEF Calls
    <3>3. \A c \in Callers : call[c].inserted <= month + 1 /\ call[c].charged <= month + 1
      BY <1>0, <3>2 DEF GInv, CallShape
    <3> QED
      BY <2>1, <3>1, <3>3 DEF GInv, Untouched, CallShape
  <2>3. ASSUME NEW p \in Periods PROVE Within(p)'
    <3>1. Spent(p)' = Spent(p) /\ Spent(p) \in Int
      BY <2>1, SpentType DEF Spent, GInv
    <3>2. Pending(p)' \subseteq Pending(p)
      BY <1>0, <2>1 DEF Pending, MayCharge
    <3> QED
      BY <3>1, <3>2, WithinStep DEF GInv
  <2> QED
    BY <2>2, <2>3 DEF GInv
<1>9. CASE UNCHANGED <<counter, exempt, call, month>>
  <2>1. Untouched' /\ CallShape'
    BY <1>9 DEF GInv, Untouched, CallShape
  <2>2. ASSUME NEW p \in Periods PROVE Within(p)'
    BY <1>9 DEF GInv, Within, Spent, Pending, MayCharge
  <2> QED
    BY <2>1, <2>2 DEF GInv
<1> QED
  BY <1>1, <1>2, <1>3, <1>4, <1>5, <1>6, <1>7, <1>8, <1>9
     DEF GatewayNext, GatewayAdvance, GatewayFinished, Expire, gatewayVars

-------------------------------------------------------------------------------
(* The counters add up to what the llm_calls rows say.  No commit undoes    *)
(* another one: a call that is to insert or to increment a counter row      *)
(* holds its lock, and the row it inserts is not there yet.                 *)

\* What the call c relies on until it commits: what it has charged is what its llm_calls
\* row will say.
LedgerFit(c) ==
    LET s == call[c] IN
    /\ s.pc \in {"idle", "check"} => s.inserted = 0
    /\ s.pc \notin Billed => s.charged = 0
    /\ s.pc # "commit" => s.provider # "cache"
    /\ s.pc \in Billed => (s.charged = 0 <=> s.kind = "no_business" \/ s.provider = "cache")
    /\ s.pc = "commit" /\ s.charged # 0 => rowLock[s.charged] = c
    /\ s.inserted # 0 /\ s.pc # "insert" =>
        rowLock[s.inserted] = c /\ ~counter[s.inserted].exists

NoRowNoCalls == \A p \in Periods : ~counter[p].exists => counter[p].calls = 0

LedgerInv ==
    /\ NoRowNoCalls
    /\ \A c \in Callers : LedgerFit(c)
    /\ CounterMatchesLedger

LEMMA PeriodsFinite == IsFiniteSet(Periods) /\ \A p \in Periods : p # 0
BY GatewayAssumption, FS_Interval DEF Periods

LEMMA SumOverChange ==
    ASSUME NEW f \in [Periods -> Int], NEW q \in Periods, NEW d \in Int,
           NEW h \in [Periods -> Int], h[q] = f[q] + d, \A p \in Periods \ {q} : h[p] = f[p]
    PROVE  SumOver(h) = SumOver(f) + d
<1>1. Sums(h, Periods)[Periods] = Sums(f, Periods)[Periods] + (IF q \in Periods THEN d ELSE 0)
  BY PeriodsFinite, SumsChange
<1> QED
  BY <1>1, SumsAre DEF SumOver

LEMMA SumOverZero == SumOver([p \in Periods |-> 0]) = 0
<1> DEFINE f == [p \in Periods |-> 0]
<1>1. \A p \in Periods : f[p] \in 0..0
  OBVIOUS
<1>2. Sums(f, Periods)[Periods] \in 0..(Cardinality(Periods) * 0)
  <2> HIDE DEF f
  <2> QED
    BY <1>1, PeriodsFinite, SumsBound
<1>3. Cardinality(Periods) \in Nat
  BY PeriodsFinite, FS_CardinalityType
<1>4. Sums(f, Periods)[Periods] = 0
  <2> HIDE DEF f
  <2> QED
    BY <1>2, <1>3
<1> QED
  BY <1>4, SumsAre DEF SumOver

\* A call is not disturbed while the rows it has locked are left alone.
LEMMA OtherFits ==
    ASSUME GatewayTypeOK, NEW o \in Callers, LedgerFit(o), call'[o] = call[o],
           \A p \in Periods : rowLock[p] = o => rowLock'[p] = o /\ counter'[p] = counter[p]
    PROVE  LedgerFit(o)'
<1>1. call[o].charged \in NoneOrPeriods /\ call[o].inserted \in NoneOrPeriods
  BY DEF GatewayTypeOK, Calls
<1> QED
  BY <1>1 DEF LedgerFit, NoneOrPeriods

\* A call goes on, and no row changes.
LEMMA LedgerCallStep ==
    ASSUME GatewayTypeOK, LedgerInv, NEW c \in Callers, UNCHANGED <<counter, ledger>>,
           \A o \in Callers \ {c} : call'[o] = call[o],
           \A p \in Periods : rowLock[p] # Nothing /\ rowLock[p] # c => rowLock'[p] = rowLock[p],
           LedgerFit(c)'
    PROVE  LedgerInv'
<1>1. \A o \in Callers \ {c} : LedgerFit(o)'
  BY GatewayAssumption, OtherFits DEF LedgerInv
<1> QED
  BY <1>1 DEF LedgerInv, NoRowNoCalls, CounterMatchesLedger

LEMMA LedgerInvInit == GatewayInit => LedgerInv
<1> SUFFICES ASSUME GatewayInit PROVE LedgerInv
  OBVIOUS
<1>1. NoRowNoCalls
  BY DEF GatewayInit, NoRowNoCalls, NoRow
<1>2. \A c \in Callers : LedgerFit(c)
  BY DEF GatewayInit, LedgerFit, Idle, Billed
<1>3. CounterMatchesLedger
  <2>1. /\ [p \in Periods |-> counter[p].calls] = [p \in Periods |-> 0]
        /\ [p \in Periods |-> counter[p].cost] = [p \in Periods |-> 0]
    BY DEF GatewayInit, NoRow
  <2> QED
    BY <2>1, SumOverZero DEF GatewayInit, CounterMatchesLedger
<1> QED
  BY <1>1, <1>2, <1>3 DEF LedgerInv

\* What a commit does to the counters and to the ledger.
LEMMA LedgerCommitStep ==
    ASSUME GatewayTypeOK, GatewayTypeOK', GInv, LedgerInv, NEW c \in Callers, GatewayCommit(c)
    PROVE  LedgerInv'
<1> DEFINE q == call[c].charged
           i == call[c].inserted
           x == call[c].cost
<1>1. /\ call \in [Callers -> Calls] /\ call[c].pc = "commit" /\ LedgerFit(c)
      /\ q \in NoneOrPeriods /\ i \in NoneOrPeriods /\ x \in Nat
      /\ \A p \in Periods : counter[p].calls \in Nat /\ counter[p].cost \in Nat
  <2>1. call[c] \in Calls
    BY DEF GatewayTypeOK
  <2> QED
    BY <2>1, CallParts DEF GatewayTypeOK, GatewayCommit, LedgerInv, Calls
<1>2. ASSUME NEW p \in Periods
      PROVE  /\ p # q /\ p # i => counter'[p] = counter[p]
             /\ p = q \/ p = i => counter'[p].exists
             /\ counter'[p].calls = IF p = q THEN counter[p].calls + 1 ELSE counter[p].calls
             /\ counter'[p].cost = IF p = q THEN counter[p].cost + x ELSE counter[p].cost
  <2>1. counter'[p] = IF p = q THEN AddToRow(c, p)
                      ELSE IF p = i THEN [NoRow EXCEPT !.exists = TRUE] ELSE counter[p]
    BY DEF GatewayCommit
  <2>2. CASE p = q
    BY <2>1, <2>2 DEF AddToRow
  <2>3. CASE p # q /\ p = i
    <3>1. ~counter[p].exists
      BY <1>1, <2>3, PeriodsFinite DEF LedgerFit
    <3>2. counter[p].calls = 0 /\ counter[p].cost = 0
      BY <3>1 DEF LedgerInv, NoRowNoCalls, GInv, Untouched
    <3> QED
      BY <2>1, <2>3, <3>2 DEF NoRow
  <2>4. CASE p # q /\ p # i
    BY <2>1, <2>4
  <2> QED
    BY <2>2, <2>3, <2>4
<1>3. NoRowNoCalls'
  <2> SUFFICES ASSUME NEW p \in Periods, ~counter'[p].exists PROVE counter'[p].calls = 0
    BY DEF NoRowNoCalls
  <2>1. counter'[p] = counter[p]
    BY <1>2
  <2> QED
    BY <2>1 DEF LedgerInv, NoRowNoCalls
<1>4. \A o \in Callers : LedgerFit(o)'
  <2>1. /\ \A o \in Callers \ {c} : call'[o] = call[o]
        /\ call'[c] = Idle
    BY <1>1 DEF GatewayCommit
  <2>2. ASSUME NEW o \in Callers, o # c PROVE LedgerFit(o)'
    <3>1. ASSUME NEW p \in Periods, rowLock[p] = o
          PROVE  rowLock'[p] = o /\ counter'[p] = counter[p]
      <4>1. p # q /\ p # i
        BY <1>1, <2>2, <3>1, PeriodsFinite DEF LedgerFit
      <4> QED
        BY <1>2, <2>2, <3>1, <4>1 DEF GatewayCommit, GatewayRelease
    <3> QED
      BY <2>1, <2>2, <3>1, OtherFits DEF LedgerInv
  <2>3. LedgerFit(c)'
    BY <2>1 DEF LedgerFit, Idle, Billed
  <2> QED
    BY <2>2, <2>3
<1>5. CounterMatchesLedger'
  <2> DEFINE f == [p \in Periods |-> counter[p].calls]
             g == [p \in Periods |-> counter[p].cost]
  <2>1. /\ f \in [Periods -> Int] /\ g \in [Periods -> Int]
        /\ f' \in [Periods -> Int] /\ g' \in [Periods -> Int]
    BY <1>1, <1>2
  <2>2. SumOver(f) = ledger.calls /\ SumOver(g) = ledger.cost
    BY DEF LedgerInv, CounterMatchesLedger
  <2>3. CASE q = 0
    <3>1. f' = f /\ g' = g
      BY <1>2, <2>3, PeriodsFinite
    <3>2. ledger'.calls = ledger.calls /\ ledger'.cost = ledger.cost
      BY <1>1, <2>3 DEF GatewayCommit, LedgerFit, GatewayTypeOK, Billed
    <3> QED
      BY <2>2, <3>1, <3>2 DEF CounterMatchesLedger
  <2>4. CASE q # 0
    <3>1. q \in Periods
      BY <1>1, <2>4 DEF NoneOrPeriods
    <3>2. ledger' = [ledger EXCEPT !.calls = @ + 1, !.cost = @ + x]
      BY <1>1, <2>4 DEF GatewayCommit, LedgerFit
    <3>3. ledger'.calls = ledger.calls + 1 /\ ledger'.cost = ledger.cost + x
      BY <3>2 DEF GatewayTypeOK
    <3>4. /\ f'[q] = f[q] + 1 /\ \A p \in Periods \ {q} : f'[p] = f[p]
          /\ g'[q] = g[q] + x /\ \A p \in Periods \ {q} : g'[p] = g[p]
      BY <1>2, <3>1
    <3> HIDE DEF f, g, q, x
    <3>5. SumOver(f') = SumOver(f) + 1
      BY <2>1, <3>1, <3>4, SumOverChange
    <3>6. SumOver(g') = SumOver(g) + x
      BY <1>1, <2>1, <3>1, <3>4, SumOverChange
    <3> QED
      BY <2>2, <3>3, <3>5, <3>6 DEF CounterMatchesLedger, f, g
  <2> QED
    BY <2>3, <2>4
<1> QED
  BY <1>3, <1>4, <1>5 DEF LedgerInv

LEMMA LedgerInvStep ==
    ASSUME GatewayTypeOK, GatewayTypeOK', GInv, LedgerInv, [GatewayNext]_gatewayVars
    PROVE  LedgerInv'
<1> USE DEF database, clock
<1>0. /\ call \in [Callers -> Calls] /\ month \in Periods /\ month # 0
      /\ \A c \in Callers : LedgerFit(c)
      /\ rowLock \in [Periods -> Callers \union {Nothing}]
  BY PeriodsFinite DEF GatewayTypeOK, LedgerInv
<1>1. ASSUME NEW c \in Callers, Start(c) PROVE LedgerInv'
  <2>1. /\ call'[c].pc \in {"check", "cache"} /\ call'[c].inserted = 0
        /\ call'[c].charged = 0 /\ call'[c].provider = "provider"
    BY <1>0, <1>1 DEF Start, Idle
  <2>2. LedgerFit(c)'
    BY <2>1 DEF LedgerFit, Billed
  <2>3. \A o \in Callers \ {c} : call'[o] = call[o]
    BY <1>0, <1>1 DEF Start
  <2> QED
    BY <1>1, <2>2, <2>3, LedgerCallStep DEF Start
<1>2. ASSUME NEW c \in Callers, CheckBudget(c) PROVE LedgerInv'
  <2>1. /\ call[c].pc = "check" /\ call'[c].pc \in {"insert", "cache", "refused"}
        /\ call'[c].charged = call[c].charged /\ call'[c].provider = call[c].provider
        /\ call'[c].inserted = IF counter[month].exists THEN 0 ELSE month
        /\ ~counter[month].exists => call'[c].pc = "insert"
    BY <1>0, <1>2 DEF CheckBudget, Calls
  <2>2. LedgerFit(c)'
    BY <1>0, <2>1 DEF LedgerFit, Billed
  <2>3. \A o \in Callers \ {c} : call'[o] = call[o]
    BY <1>0, <1>2 DEF CheckBudget
  <2> QED
    BY <1>2, <2>2, <2>3, LedgerCallStep DEF CheckBudget
<1>3. ASSUME NEW c \in Callers, InsertCounter(c) PROVE LedgerInv'
  <2> DEFINE q == call[c].inserted
  <2>1. call[c].pc = "insert" /\ q \in Periods /\ rowLock[q] = Nothing
    <3>1. q \in NoneOrPeriods /\ q # 0
      BY <1>0, <1>3 DEF InsertCounter, GInv, CallShape, Calls
    <3> QED
      BY <1>3, <3>1 DEF InsertCounter, NoneOrPeriods
  <2>2. /\ \A o \in Callers \ {c} : call'[o] = call[o]
        /\ UNCHANGED <<counter, ledger>>
        /\ \A p \in Periods : rowLock[p] # Nothing => rowLock'[p] = rowLock[p]
    BY <1>0, <1>3, <2>1 DEF InsertCounter
  <2>3. LedgerFit(c)'
    <3>1. CASE counter[q].exists
      <4>1. call'[c] = Idle
        BY <1>0, <1>3, <3>1 DEF InsertCounter
      <4> QED
        BY <4>1 DEF LedgerFit, Idle, Billed
    <3>2. CASE ~counter[q].exists
      <4>1. /\ call'[c].pc \in {"cache", "refused"} /\ call'[c].inserted = q
            /\ call'[c].charged = call[c].charged /\ call'[c].provider = call[c].provider
            /\ rowLock'[q] = c /\ counter' = counter
        BY <1>0, <1>3, <2>1, <3>2 DEF InsertCounter, Calls
      <4> HIDE DEF q
      <4> QED
        BY <1>0, <2>1, <3>2, <4>1 DEF LedgerFit, Billed
    <3> QED
      BY <3>1, <3>2
  <2> QED
    BY <2>2, <2>3, LedgerCallStep
<1>4. ASSUME NEW c \in Callers,
             \/ LookUpCache(c) \/ TryPrimary(c) \/ TrySecondary(c) \/ AnswerFromTemplate(c)
      PROVE  LedgerInv'
  <2>0. call[c] \in Calls
    BY <1>0
  <2>1. UNCHANGED <<counter, ledger, rowLock>> /\ \A o \in Callers \ {c} : call'[o] = call[o]
    BY <1>0, <1>4 DEF LookUpCache, TryPrimary, TrySecondary, AnswerFromTemplate
  <2>2. /\ call'[c].inserted = call[c].inserted /\ call'[c].kind = call[c].kind
        /\ call[c].pc \in {"cache", "primary", "secondary", "static"}
        /\ \/ /\ call'[c].pc \in {"primary", "secondary", "static"}
              /\ call'[c].provider # "cache" /\ call'[c].charged = call[c].charged
           \/ /\ call'[c].pc = "increment" /\ call'[c].provider # "cache"
              /\ call'[c].charged = 0 <=> call[c].kind = "no_business"
           \/ /\ call'[c].pc = "commit" /\ call'[c].provider = "cache"
              /\ call'[c].charged = call[c].charged
    <3>0. call[c].pc # "commit" => call[c].provider # "cache"
      BY <1>0 DEF LedgerFit
    <3>1. CASE LookUpCache(c)
      BY <1>0, <2>0, <3>0, <3>1 DEF LookUpCache, Calls
    <3>2. CASE TryPrimary(c)
      <4>1. CASE \E cost \in ProviderCosts :
                    call' = [call EXCEPT ![c] = Answered(call[c], "provider", cost)]
        BY <1>0, <2>0, <3>2, <4>1, AnsweredProvider, AnsweredFields DEF TryPrimary
      <4>2. CASE call' = [call EXCEPT ![c].attempt = @ + 1]
        BY <1>0, <2>0, <3>0, <3>2, <4>2 DEF TryPrimary, Calls
      <4>3. CASE call' = [call EXCEPT ![c].pc = "secondary", ![c].attempt = 0]
        BY <1>0, <2>0, <3>0, <3>2, <4>3 DEF TryPrimary, Calls
      <4> QED
        BY <3>2, <4>1, <4>2, <4>3 DEF TryPrimary
    <3>3. CASE TrySecondary(c)
      <4>1. CASE \E cost \in ProviderCosts :
                    call' = [call EXCEPT ![c] = Answered(call[c], "provider", cost)]
        BY <1>0, <2>0, <3>3, <4>1, AnsweredProvider, AnsweredFields DEF TrySecondary
      <4>2. CASE call' = [call EXCEPT ![c].pc = "static"]
        BY <1>0, <2>0, <3>0, <3>3, <4>2 DEF TrySecondary, Calls
      <4> QED
        BY <3>3, <4>1, <4>2 DEF TrySecondary
    <3>4. CASE AnswerFromTemplate(c)
      BY <1>0, <2>0, <3>4, AnsweredProvider, AnsweredFields DEF AnswerFromTemplate
    <3> QED
      BY <1>4, <3>1, <3>2, <3>3, <3>4
  <2>3. LedgerFit(c)'
    BY <1>0, <2>1, <2>2 DEF LedgerFit, Billed
  <2> QED
    BY <2>1, <2>3, LedgerCallStep
<1>5. ASSUME NEW c \in Callers, Increment(c) PROVE LedgerInv'
  <2>1. /\ \A o \in Callers \ {c} : call'[o] = call[o]
        /\ UNCHANGED <<counter, ledger>>
        /\ call[c].pc = "increment" /\ call'[c].pc = "commit"
        /\ call'[c].kind = call[c].kind /\ call'[c].inserted = call[c].inserted
        /\ call'[c].provider = call[c].provider
    BY <1>0, <1>5 DEF Increment, Calls
  <2>2. CASE call[c].charged = 0
    <3>1. call'[c].charged = call[c].charged /\ UNCHANGED rowLock
      BY <1>0, <1>5, <2>2 DEF Increment, Calls
    <3>2. LedgerFit(c)'
      BY <1>0, <2>1, <2>2, <3>1 DEF LedgerFit, Billed
    <3> QED
      BY <2>1, <3>1, <3>2, LedgerCallStep
  <2>3. CASE call[c].charged # 0
    <3> DEFINE q == call[c].charged
    <3>0. q \in Periods
      BY <1>0, <2>3 DEF Calls, NoneOrPeriods
    <3>1. /\ call'[c].charged = q
          /\ rowLock[q] \in {Nothing, c}
          /\ rowLock' = [rowLock EXCEPT ![q] = c]
      BY <1>0, <1>5, <2>3 DEF Increment, Calls
    <3>2. call[c].inserted # 0 => call[c].inserted \in Periods
      BY <1>0 DEF Calls, NoneOrPeriods
    <3>3. LedgerFit(c)'
      BY <1>0, <2>1, <2>3, <3>0, <3>1, <3>2 DEF LedgerFit, Billed
    <3> QED
      BY <1>0, <2>1, <3>0, <3>1, <3>3, LedgerCallStep
  <2> QED
    BY <2>2, <2>3
<1>6. ASSUME NEW c \in Callers, GatewayCommit(c) PROVE LedgerInv'
  BY <1>6, LedgerCommitStep
<1>7. ASSUME NEW c \in Callers, Refuse(c) \/ GatewayRollback(c) PROVE LedgerInv'
  <2>1. /\ call'[c] = Idle /\ \A o \in Callers \ {c} : call'[o] = call[o]
        /\ UNCHANGED <<counter, ledger>>
        /\ \A p \in Periods : rowLock[p] # c => rowLock'[p] = rowLock[p]
    BY <1>0, <1>7 DEF Refuse, GatewayRollback, GatewayRelease
  <2>2. LedgerFit(c)'
    BY <2>1 DEF LedgerFit, Idle, Billed
  <2> QED
    BY <2>1, <2>2, LedgerCallStep
<1>8. CASE UNCHANGED <<counter, ledger, call, rowLock>>
  BY <1>8 DEF LedgerInv, NoRowNoCalls, LedgerFit, CounterMatchesLedger
<1> QED
  BY <1>1, <1>2, <1>3, <1>4, <1>5, <1>6, <1>7, <1>8
     DEF GatewayNext, GatewayAdvance, GatewayFinished, NextMonth, Expire, gatewayVars

-------------------------------------------------------------------------------
(* The theorems.                                                            *)

LEMMA GatewayInvariance == GatewaySpec => []GInv
<1>1. GInv /\ [GatewayNext]_gatewayVars => GInv'
  <2>1. GInv => GatewayTypeOK
    BY DEF GInv
  <2> QED
    BY <2>1, GatewayTypeStep, GatewayInvStep
<1> QED
  BY <1>1, GatewayInvInit, PTL DEF GatewaySpec

\* Counter rows, locks, cache and calls keep their types.
THEOREM GatewayTypeCorrect == GatewaySpec => []GatewayTypeOK
<1>1. GInv => GatewayTypeOK
  BY DEF GInv
<1> QED
  BY <1>1, GatewayInvariance, PTL

\* However many callers share a business's budget, and however calls straddle two months,
\* briefs overspend a month by at most one call per caller.
THEOREM BudgetIsBounded == GatewaySpec => []BudgetBound
<1>1. GInv => BudgetBound
  <2> SUFFICES ASSUME GInv, NEW p \in Periods PROVE Spent(p) <= Limit
    BY DEF BudgetBound, Spent, Limit
  <2> DEFINE k == Cardinality(Pending(p))
             N == Cardinality(Callers)
  <2>1. /\ Spent(p) \in Int /\ k \in Nat /\ N \in Nat /\ MaxCost \in Nat
        /\ Budget \in Nat /\ Estimate \in Nat
    BY SpentType, PendingSize, GatewayAssumption DEF GInv
  <2>2. Spent(p) + k * MaxCost <= (Budget - Estimate) + N * MaxCost
    BY DEF GInv, Within, Limit
  <2> HIDE DEF k, N
  <2>3. k * MaxCost \in Nat /\ N * MaxCost \in Nat
    BY <2>1, TimesMonotone
  <2> QED
    BY <2>1, <2>2, <2>3 DEF Limit, N
<1> QED
  BY <1>1, GatewayInvariance, PTL

\* No increment of a counter is lost and none is made twice, however many callers commit,
\* roll back or insert the month's row at the same time.
THEOREM CounterMatchesLedgerHolds == GatewaySpec => []CounterMatchesLedger
<1>1. GInv /\ LedgerInv /\ [GatewayNext]_gatewayVars => LedgerInv'
  <2>1. GInv => GatewayTypeOK
    BY DEF GInv
  <2> QED
    BY <2>1, GatewayTypeStep, LedgerInvStep
<1>2. GatewaySpec => []LedgerInv
  BY <1>1, GatewayInvariance, LedgerInvInit, PTL DEF GatewaySpec
<1>3. LedgerInv => CounterMatchesLedger
  BY DEF LedgerInv
<1> QED
  BY <1>2, <1>3, PTL
===============================================================================
