----------------------------- MODULE ContentBriefs -----------------------------
(***************************************************************************)
(* The content brief lifecycle of app/modules/content/service.py, run by   *)
(* concurrent requests.  Each request is one database transaction          *)
(* (core/database.py, get_db_session) over PostgreSQL's READ COMMITTED     *)
(* isolation: a SELECT sees the last committed row and takes no lock, an   *)
(* UPDATE takes the row's lock and keeps it until the transaction ends.    *)
(* The session keeps the first copy it loaded of a row (its identity map), *)
(* so the transition is checked on a copy that may be stale when the row   *)
(* is written.  Events are buffered and published after the commit.        *)
(***************************************************************************)
EXTENDS FiniteSets

CONSTANTS
    Requests,   \* the requests that may arrive; each is made once, by its own user
    Briefs,     \* the brief identifiers
    Tenants,
    Notes,      \* the reviewer_notes a rejection may carry
    None        \* SQL NULL, and "nobody"

\* Where the text of an asset came from: a provider's answer (possibly cached) or
\* the gateway's static template.
AssetSources == {"llm", "static"}

\* What a request may be for: generate_brief, approve_brief or reject_brief.
Ops == {"generate", "approve", "reject"}

ASSUME NoneAssumption ==
    /\ None \notin Requests \union Briefs \union Tenants \union Notes
    /\ None \notin Ops \union AssetSources

VARIABLES
    brief,      \* brief[b]: the committed content_briefs row and its version-1 asset
    briefLock,  \* briefLock[b]: the transaction that has written the brief row
    assetLock,  \* assetLock[b]: the transaction that has written the asset row
    req,        \* req[r]: the request's program counter, arguments and session state
    committed,  \* history: the requests whose transaction has committed
    published   \* history: the events handed to the event bus

vars == <<brief, briefLock, assetLock, req, committed, published>>

-------------------------------------------------------------------------------
(* The state machine table of the service.                                 *)

VALID_TRANSITIONS == [
    draft      |-> {"in_review", "superseded"},
    in_review  |-> {"approved", "rejected", "superseded"},
    approved   |-> {"published", "superseded"},
    rejected   |-> {"in_review", "superseded"},
    superseded |-> {},
    published  |-> {"superseded"}]

BriefStates == DOMAIN VALID_TRANSITIONS

Target(op) == IF op = "approve" THEN "approved" ELSE "rejected"

\* Faulty variant: the check forgotten.
AnyTransition(current, target) == TRUE
AssertTransition(current, target) == target \in VALID_TRANSITIONS[current]

-------------------------------------------------------------------------------
(* Rows, sessions and events.                                               *)

Absent == [state |-> "absent", tenant |-> None, asset |-> None,
           notes |-> None, reviewer |-> None]

Rows == [state : BriefStates \union {"absent"}, tenant : Tenants \union {None},
         asset : AssetSources \union {None}, notes : Notes \union {None},
         reviewer : Requests \union {None}]

Delivered(t, source) == [state |-> "in_review", tenant |-> t, asset |-> source,
                         notes |-> None, reviewer |-> None]

\* load_asset .. commit are the points inside an open transaction.
OpenPoints == {"gateway", "review", "load_asset", "write_notes", "update", "commit"}
ProgramCounters == {"new", "flush", "done", "failed"} \union OpenPoints

\* row is the session's copy of the brief; notes the notes a rejection brings;
\* loaded the notes the session found in the asset.
Sessions == [pc : ProgramCounters, op : Ops \union {None}, brief : Briefs \union {None},
             row : Rows, notes : Notes \union {None}, loaded : Notes \union {None}]

NewSession == [pc |-> "new", op |-> None, brief |-> None, row |-> Absent,
               notes |-> None, loaded |-> None]

Events == [kind : {"ready", "approved"}, brief : Briefs, by : Requests]

TypeOK ==
    /\ brief \in [Briefs -> Rows]
    /\ briefLock \in [Briefs -> Requests \union {None}]
    /\ assetLock \in [Briefs -> Requests \union {None}]
    /\ req \in [Requests -> Sessions]
    /\ committed \subseteq Requests
    /\ published \subseteq Events

Init ==
    /\ brief \in [Briefs -> {Absent} \union {Delivered(t, s) : t \in Tenants, s \in AssetSources}]
    /\ briefLock = [b \in Briefs |-> None]
    /\ assetLock = [b \in Briefs |-> None]
    /\ req = [r \in Requests |-> NewSession]
    /\ committed = {}
    /\ published = {}

InTransaction(r) == req[r].pc \in OpenPoints

\* A request that fails, or is refused, leaves nothing of its session behind.
Ended == [NewSession EXCEPT !.pc = "failed"]

-------------------------------------------------------------------------------
(* generate_brief: the draft row, the model's text, the asset and the move *)
(* to in_review are one transaction, invisible to others until it commits. *)

\* Faulty variant: generation reuses the row of an earlier brief.
GenerateInPlace(r) ==
    /\ req[r].pc = "new"
    /\ \E b \in Briefs, t \in Tenants :
        req' = [req EXCEPT ![r] = [NewSession EXCEPT
                   !.pc = "gateway", !.op = "generate", !.brief = b,
                   !.row = [Absent EXCEPT !.state = "draft", !.tenant = t]]]
    /\ UNCHANGED <<brief, briefLock, assetLock, committed, published>>

\* ContentBriefRepository.create: a row with a fresh identifier in its default state.
GenerateBrief(r) ==
    /\ req[r].pc = "new"
    /\ \E b \in Briefs, t \in Tenants :
        /\ brief[b] = Absent
        /\ \A other \in Requests : req[other].op = "generate" => req[other].brief # b
        /\ req' = [req EXCEPT ![r] = [NewSession EXCEPT
                      !.pc = "gateway", !.op = "generate", !.brief = b,
                      !.row = [Absent EXCEPT !.state = "draft", !.tenant = t]]]
    /\ UNCHANGED <<brief, briefLock, assetLock, committed, published>>

\* The gateway answered (a provider, its cache or its static provider) and the
\* prompt's version was found: ContentAssetRepository.create inserts version 1.
CreateAsset(r) ==
    /\ req[r].pc = "gateway"
    /\ \E source \in AssetSources :
        req' = [req EXCEPT ![r].pc = "review", ![r].row.asset = source]
    /\ UNCHANGED <<brief, briefLock, assetLock, committed, published>>

\* No gateway, or it raised: the asset names prompt version UUID(0), which the
\* NOT NULL foreign key of content_assets refuses, and the request ends in error.
CreateAssetRefused(r) ==
    /\ req[r].pc = "gateway"
    /\ req' = [req EXCEPT ![r] = Ended]
    /\ UNCHANGED <<brief, briefLock, assetLock, committed, published>>

\* Faulty variant: the draft is committed as it is.
SkipReview(r) ==
    /\ req[r].pc = "review"
    /\ req' = [req EXCEPT ![r].pc = "commit"]
    /\ UNCHANGED <<brief, briefLock, assetLock, committed, published>>

\* update_state(in_review, current_asset_id) on the request's own row.
SubmitForReview(r) ==
    /\ req[r].pc = "review"
    /\ req' = [req EXCEPT ![r].pc = "commit", ![r].row.state = "in_review"]
    /\ UNCHANGED <<brief, briefLock, assetLock, committed, published>>

-------------------------------------------------------------------------------
(* approve_brief and reject_brief.                                          *)

\* get_by_id, the tenant check and _assert_transition on the state just read.
\* A brief of another tenant, or none, ends the request as a refusal does.
ReviewBrief(r) ==
    /\ req[r].pc = "new"
    /\ \E op \in {"approve", "reject"}, b \in Briefs, t \in Tenants, n \in Notes :
        LET row == brief[b]
            notes == IF op = "reject" THEN n ELSE None
            accepted == /\ row # Absent
                        /\ row.tenant = t
                        /\ AssertTransition(row.state, Target(op))
            next == IF op = "reject" /\ row.asset # None THEN "load_asset" ELSE "update"
            session == [NewSession EXCEPT
                           !.pc = next, !.op = op, !.brief = b, !.row = row, !.notes = notes]
        IN req' = [req EXCEPT ![r] = IF accepted THEN session ELSE Ended]
    /\ UNCHANGED <<brief, briefLock, assetLock, committed, published>>

\* ContentAssetRepository.get_by_id on the asset the brief names.
LoadAsset(r) ==
    /\ req[r].pc = "load_asset"
    /\ req' = [req EXCEPT ![r].pc = "write_notes", ![r].loaded = brief[req[r].brief].notes]
    /\ UNCHANGED <<brief, briefLock, assetLock, committed, published>>

\* The flush of asset.reviewer_notes.  Notes equal to the loaded ones are no
\* change to the session, and no UPDATE is sent; otherwise the UPDATE waits for
\* the asset's row lock.
WriteNotes(r) ==
    /\ req[r].pc = "write_notes"
    /\ LET b == req[r].brief IN
        IF req[r].notes = req[r].loaded
        THEN UNCHANGED assetLock
        ELSE /\ assetLock[b] = None
             /\ assetLock' = [assetLock EXCEPT ![b] = r]
    /\ req' = [req EXCEPT ![r].pc = "update"]
    /\ UNCHANGED <<brief, briefLock, committed, published>>

\* update_state on the session's copy: its second SELECT finds that copy in the
\* identity map, and the flush waits for the brief's row lock.
UpdateState(r) ==
    /\ req[r].pc = "update"
    /\ briefLock[req[r].brief] = None
    /\ briefLock' = [briefLock EXCEPT ![req[r].brief] = r]
    /\ req' = [req EXCEPT ![r].pc = "commit",
                          ![r].row.state = Target(req[r].op),
                          ![r].row.reviewer = r]
    /\ UNCHANGED <<brief, assetLock, committed, published>>

-------------------------------------------------------------------------------
(* The end of a transaction.                                                *)

Release(lock, r) == [b \in Briefs |-> IF lock[b] = r THEN None ELSE lock[b]]

\* Faulty variants: a reviewer is recorded only once, or notes are; the verb is stored as
\* the state.
KeepFirstReviewer(r) ==
    LET b == req[r].brief
        old == brief[b]
    IN IF req[r].op = "generate" THEN req[r].row
       ELSE [old EXCEPT !.state = req[r].row.state,
                        !.reviewer = IF old.reviewer = None THEN req[r].row.reviewer ELSE @,
                        !.notes = IF assetLock[b] = r THEN req[r].notes ELSE @]
KeepFirstNotes(r) ==
    LET b == req[r].brief
        old == brief[b]
    IN IF req[r].op = "generate" THEN req[r].row
       ELSE [old EXCEPT !.state = req[r].row.state,
                        !.reviewer = req[r].row.reviewer,
                        !.notes = IF assetLock[b] = r /\ @ = None THEN req[r].notes ELSE @]
StoreVerb(r) ==
    IF req[r].op = "generate" THEN req[r].row
    ELSE [brief[req[r].brief] EXCEPT !.state = req[r].op]

\* The row after the transaction: an INSERT writes all of it, an UPDATE only the
\* columns the session changed.
RowAfter(r) ==
    LET b == req[r].brief
        old == brief[b]
    IN IF req[r].op = "generate" THEN req[r].row
       ELSE [old EXCEPT !.state = req[r].row.state,
                        !.reviewer = req[r].row.reviewer,
                        !.notes = IF assetLock[b] = r THEN req[r].notes ELSE @]

\* get_db_session commits when the block ends; only rejections have no event.
Commit(r) ==
    /\ req[r].pc = "commit"
    /\ brief' = [brief EXCEPT ![req[r].brief] = RowAfter(r)]
    /\ briefLock' = Release(briefLock, r)
    /\ assetLock' = Release(assetLock, r)
    /\ req' = [req EXCEPT ![r].pc = IF req[r].op = "reject" THEN "done" ELSE "flush",
                          ![r].row = Absent, ![r].loaded = None]
    /\ committed' = committed \union {r}
    /\ UNCHANGED published

PublishPending(r) ==
    published' = published \union
        {[kind |-> IF req[r].op = "generate" THEN "ready" ELSE "approved",
          brief |-> req[r].brief, by |-> r]}

\* flush_events, which the router calls after the session has closed.
FlushEvents(r) ==
    /\ req[r].pc = "flush"
    /\ PublishPending(r)
    /\ req' = [req EXCEPT ![r].pc = "done"]
    /\ UNCHANGED <<brief, briefLock, assetLock, committed>>

\* Faulty variant: the locks outlive the transaction.
RollbackKeepingLocks(r) ==
    /\ InTransaction(r)
    /\ req' = [req EXCEPT ![r] = Ended]
    /\ UNCHANGED <<brief, briefLock, assetLock, committed, published>>

\* A database error, a cancelled request or a crashed worker: the transaction's
\* writes and locks vanish.
Rollback(r) ==
    /\ InTransaction(r)
    /\ briefLock' = Release(briefLock, r)
    /\ assetLock' = Release(assetLock, r)
    /\ req' = [req EXCEPT ![r] = Ended]
    /\ UNCHANGED <<brief, committed, published>>

\* The worker dies after the commit: the buffered event dies with it.
LoseEvents(r) ==
    /\ req[r].pc = "flush"
    /\ req' = [req EXCEPT ![r].pc = "failed"]
    /\ UNCHANGED <<brief, briefLock, assetLock, committed, published>>

-------------------------------------------------------------------------------
Finished == {"done", "failed"}

\* What the request does by itself, in the order of the code.
Advance(r) ==
    \/ CreateAsset(r)
    \/ CreateAssetRefused(r)
    \/ SubmitForReview(r)
    \/ LoadAsset(r)
    \/ WriteNotes(r)
    \/ UpdateState(r)
    \/ Commit(r)
    \/ FlushEvents(r)

\* Every request has been answered or has failed; only then may nothing happen.
AllAnswered ==
    /\ \A r \in Requests : req[r].pc \in Finished
    /\ UNCHANGED vars

Next ==
    \/ \E r \in Requests :
        \/ GenerateBrief(r)
        \/ ReviewBrief(r)
        \/ Advance(r)
        \/ Rollback(r)
        \/ LoseEvents(r)
    \/ AllAnswered

Spec == Init /\ [][Next]_vars

\* The event loop resumes every coroutine whose awaited database call has
\* returned, so a request that can take its next step eventually takes it.
\* Requests need not arrive and nothing has to fail.
FairSpec == Spec /\ \A r \in Requests : WF_vars(Advance(r))

-------------------------------------------------------------------------------
(* Properties.                                                              *)

Decided(b) == brief[b].state \in {"approved", "rejected"}

\* What other requests can see is complete: a brief becomes visible in review,
\* with its tenant and its asset, never as the draft generate_brief starts from.
CommittedBriefsComplete ==
    \A b \in Briefs : brief[b] # Absent =>
        /\ brief[b].state \in {"in_review", "approved", "rejected"}
        /\ brief[b].tenant # None
        /\ brief[b].asset # None

\* The state and the reviewer of a brief always come from the same committed
\* review, whatever reviews overlapped: update_state writes both or neither.
DecisionAttributed ==
    \A b \in Briefs :
        LET r == brief[b].reviewer IN
        /\ Decided(b) <=> r # None
        /\ Decided(b) => /\ r \in committed
                         /\ req[r].brief = b
                         /\ req[r].op \in {"approve", "reject"}
                         /\ Target(req[r].op) = brief[b].state

\* The committed rejections of b that brought the notes n.
RejectedWith(b, n) ==
    {r \in committed : req[r].op = "reject" /\ req[r].brief = b /\ req[r].notes = n}

\* A rejected brief's asset carries the notes of the rejection that decided it, except for
\* one interleaving of three: the rejection found its own notes in the asset already, sent
\* none, and a third one replaced them before it committed.  And notes in an asset never
\* come from a review that was refused or rolled back.
RejectionCarriesNotes ==
    \A b \in Briefs :
        /\ brief[b].state = "rejected" =>
            LET r == brief[b].reviewer IN
            \/ brief[b].notes = req[r].notes
            \/ /\ RejectedWith(b, req[r].notes) \ {r} # {}
               /\ RejectedWith(b, brief[b].notes) \ {r} # {}
        /\ brief[b].notes # None => RejectedWith(b, brief[b].notes) # {}

\* Subscribers hear only of committed work: each event is the event of a request
\* whose transaction committed, for that request's brief and operation.
EventsFollowCommit ==
    \A e \in published :
        /\ e.by \in committed
        /\ req[e.by].brief = e.brief
        /\ req[e.by].op = IF e.kind = "ready" THEN "generate" ELSE "approve"

\* r has passed the transition check on a copy of b and has not ended.
Reviewing(r, b) ==
    /\ InTransaction(r)
    /\ req[r].brief = b
    /\ req[r].op # "generate"

\* b is decided and no review accepted before the decision is still open.
Settled(b) ==
    /\ Decided(b)
    /\ \A r \in Requests : ~Reviewing(r, b)

\* A settled decision is final: no later review is accepted, and nothing else touches
\* the row.  Only reviews that overlap can replace one decision by another.
DecisionsSettle ==
    [][\A b \in Briefs : Settled(b) => Settled(b)' /\ brief'[b] = brief[b]]_vars

\* The requests together keep the promise of BriefLifecycle.
decisionBar ==
    [b \in Briefs |-> IF brief[b] = Absent THEN "none"
                      ELSE IF Decided(b) THEN brief[b].state ELSE "pending"]
approvedOnceBar == {req[r].brief : r \in {x \in committed : req[x].op = "approve"}}
announcedBar == {<<e.kind, e.brief>> : e \in published}

Lifecycle == INSTANCE BriefLifecycle WITH
    decision <- decisionBar, approvedOnce <- approvedOnceBar, announced <- announcedBar

LifecycleKept == Lifecycle!Spec

\* No request waits for ever: the row locks of approvals (brief) and rejections
\* (asset, then brief) are taken in one order and given back on every way out.
EveryRequestEnds ==
    \A r \in Requests : (req[r].pc # "new") ~> (req[r].pc \in Finished)
===============================================================================
