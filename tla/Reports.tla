-------------------------------- MODULE Reports --------------------------------
(***************************************************************************)
(* What a customer gets to see of audits: reports with their quick wins,   *)
(* the share links of reports and the tokens of free audits, as            *)
(* ReportService and FreeAuditSubmissionService (modules/reporting) and    *)
(* FreeAuditService (modules/business_profile) keep them for one business. *)
(* Calls are transactions that overlap under READ COMMITTED.  A session    *)
(* keeps the copy of a row that it first read, and an UPDATE sends only    *)
(* the columns that differ from that copy.                                 *)
(***************************************************************************)
EXTENDS Naturals, FiniteSets

CONSTANTS
    Requests,   \* the calls that may be made, each made once
    Runs,       \* the audit runs of the business
    Queries,    \* the texts of the runs' queries
    Seeds,      \* reports there are to begin with, one for each run at most
    RunOf,      \* the run of such a report
    MaxAnswer,  \* the most quick wins an LLM's answer is taken to hold
    None

ASSUME ReportsAssumption ==
    /\ IsFiniteSet(Requests) /\ Requests \intersect Seeds = {}
    /\ RunOf \in [Seeds -> Runs]
    /\ \A s, t \in Seeds : RunOf[s] = RunOf[t] => s = t
    /\ MaxAnswer \in Nat /\ MaxAnswer >= 3
    /\ None \notin Requests \union Seeds \union Runs

\* A report, a link and a token are named by the call that inserted them.
Ids == Requests \union Seeds

VARIABLES
    lost,       \* lost[u]: the queries of run u that an engine answered without a citation
    report,     \* report[i]: the committed reports row
    link,       \* link[l]: the committed share_links row
    token,      \* token[k]: the committed free_audit_tokens row
    lock,       \* lock[i]: the transaction that has written row i
    call,       \* call[r]: the call's program counter, copy and uncommitted writes
    told,       \* history: told[i] is the status the last caller to settle report i was told
    contested   \* history: the reports last settled by a call that another had overtaken

vars == <<lost, report, link, token, lock, call, told, contested>>

-------------------------------------------------------------------------------
ReportStates == {"generating", "ready", "failed"}

\* Quick wins: how many there are, the queries they target, the run they were generated
\* from, and whether the generator was shown no lost query at all.
Answers == [count : 0..MaxAnswer, targets : SUBSET Queries]
Wins == [count : 0..MaxAnswer, targets : SUBSET Queries, run : Runs, blind : BOOLEAN]

ASSUME NoneIsNothingElse == None \notin ReportStates /\ None \notin Wins

NoReport == [run |-> None, status |-> None, wins |-> None]
ReportRows == [run : Runs, status : ReportStates, wins : Wins \union {None}]

NoLink == [report |-> None, revoked |-> FALSE, expired |-> FALSE, views |-> 0]
LinkRows == [report : Ids, revoked : BOOLEAN, expired : BOOLEAN, views : 0..Cardinality(Requests)]

\* run is None for a token of start_free_audit; by is the claim that set claimed_at.
NoToken == [live |-> FALSE, run |-> None, by |-> None]
TokenRows == [live : BOOLEAN, run : Runs \union {None}, by : Requests \union {None}]

Ops == {"create", "finalise", "fail", "share", "revoke", "view", "submit", "start", "claim"}

OpenPoints == {"insert", "context", "generate", "write", "commit"}

\* run is the audit run the call was given, copy the status of the report as the session has
\* loaded it, and wins what it will write.
Calls == [pc : {"new", "done"} \union OpenPoints, op : Ops \union {None},
          id : Ids \union {None}, run : Runs \union {None},
          copy : ReportStates \union {None}, shown : SUBSET Queries,
          wins : Wins \union {None}, overtaken : BOOLEAN]

NewCall == [pc |-> "new", op |-> None, id |-> None, run |-> None, copy |-> None,
            shown |-> {}, wins |-> None, overtaken |-> FALSE]
Over == [NewCall EXCEPT !.pc = "done"]

TypeOK ==
    /\ lost \in [Runs -> SUBSET Queries]
    /\ report \in [Ids -> ReportRows \union {NoReport}]
    /\ link \in [Requests -> LinkRows \union {NoLink}]
    /\ token \in [Requests -> TokenRows]
    /\ lock \in [Ids -> Requests \union {None}]
    /\ call \in [Requests -> Calls]
    /\ told \in [Ids -> {"ready", "failed", None}]
    /\ contested \subseteq Ids

\* A report to begin with is still being generated, or has been, with the fallback's wins.
SeedReport(i, ready) ==
    [run |-> RunOf[i], status |-> IF ready THEN "ready" ELSE "generating",
     wins |-> IF ready THEN [count |-> 3, targets |-> {}, run |-> RunOf[i], blind |-> TRUE]
              ELSE None]

Init ==
    /\ lost = [u \in Runs |-> {}]
    /\ \E ready \in SUBSET Seeds :
        /\ report = [i \in Ids |-> IF i \in Seeds THEN SeedReport(i, i \in ready) ELSE NoReport]
        /\ told = [i \in Ids |-> IF i \in ready THEN "ready" ELSE None]
    /\ link = [l \in Requests |-> NoLink]
    /\ token = [k \in Requests |-> NoToken]
    /\ lock = [i \in Ids |-> None]
    /\ call = [r \in Requests |-> NewCall]
    /\ contested = {}

InTransaction(r) == call[r].pc \in OpenPoints

rows == <<report, link, token>>
history == <<told, contested>>

\* A call that begins on row i.
Begin(r, op, i, pc) ==
    /\ call[r].pc = "new"
    /\ call' = [call EXCEPT ![r] = [NewCall EXCEPT !.pc = pc, !.op = op, !.id = i]]
    /\ UNCHANGED <<lost, rows, lock, history>>

\* A run's executions are recorded by the audit, before, while and after it is reported on.
RecordExecution(u) ==
    /\ \E q \in Queries : lost' = [lost EXCEPT ![u] = @ \union {q}]
    /\ UNCHANGED <<rows, lock, call, history>>

-------------------------------------------------------------------------------
(* Reports.                                                                 *)

CreateReport(r) ==
    /\ call[r].pc = "new"
    /\ \E u \in Runs :
        call' = [call EXCEPT ![r] = [NewCall EXCEPT !.pc = "insert", !.op = "create",
                                                    !.id = r, !.run = u]]
    /\ UNCHANGED <<lost, rows, lock, history>>

\* The INSERT of a report, always of version 1, waits for one of the same run that is not
\* committed and fails if there is one.
InsertReport(r) ==
    LET u == call[r].run IN
    /\ call[r].pc = "insert" /\ call[r].op = "create"
    /\ \A o \in Requests \ {r} :
            ~(call[o].pc = "commit" /\ call[o].op = "create" /\ call[o].run = u)
    /\ call' = [call EXCEPT ![r] = IF \E i \in Ids : report[i].run = u
                                   THEN Over ELSE [@ EXCEPT !.pc = "commit"]]
    /\ UNCHANGED <<lost, rows, lock, history>>

\* finalise_report and mark_report_failed load the report; neither looks at its status.  To
\* set a failed report to failed there is nothing to send.
Settle(r, i, u, op, pc) ==
    /\ call[r].pc = "new"
    /\ report[i] # NoReport
    /\ call' = [call EXCEPT ![r] = [NewCall EXCEPT !.pc = pc, !.op = op, !.id = i, !.run = u,
                                                   !.copy = report[i].status]]
    /\ UNCHANGED <<lost, rows, lock, history>>

\* finalise_report has an audit_run_id of its own, which nothing compares with the report's.
FinaliseReport(r) == \E i \in Ids, u \in Runs : Settle(r, i, u, "finalise", "context")
MarkReportFailed(r) ==
    \E i \in Ids :
        Settle(r, i, None, "fail", IF report[i].status = "failed" THEN "commit" ELSE "write")

\* _build_audit_context reads the executions and citations of the run the call was given.
BuildAuditContext(r) ==
    /\ call[r].pc = "context"
    /\ call' = [call EXCEPT ![r].pc = "generate", ![r].shown = lost[call[r].run]]
    /\ UNCHANGED <<lost, rows, lock, history>>

\* Faulty variant: the targets of an answer are not looked at.
AcceptsAnyTarget(answer, shown) == answer.count = 3

\* QuickWinsValidator: exactly three, each aimed at a lost query if at any; with no lost
\* query to compare with, at whatever it likes.
Accepts(answer, shown) ==
    /\ answer.count = 3
    /\ shown # {} => answer.targets \subseteq shown

\* DeterministicQuickWinsGenerator: three wins, aimed at the first two lost queries if at any.
Fallbacks(shown) ==
    {[count |-> 3, targets |-> t] : t \in {s \in SUBSET shown : Cardinality(s) <= 2}}

\* QuickWinsGenerator: an answer of one of two attempts that the validator accepts, or else,
\* for an error is as good as a refusal, the fallback.
GenerateWins(r) ==
    LET shown == call[r].shown IN
    /\ call[r].pc = "generate"
    /\ \E w \in {a \in Answers : Accepts(a, shown)} \union Fallbacks(shown) :
        call' = [call EXCEPT
                    ![r].pc = "write", ![r].shown = {},
                    ![r].wins = [count |-> w.count, targets |-> w.targets,
                                 run |-> call[r].run, blind |-> shown = {}]]
    /\ UNCHANGED <<lost, rows, lock, history>>

Outcome(op) == IF op = "finalise" THEN "ready" ELSE "failed"

\* Faulty variant: the status is written only when the report is generating.
SettleOnlyOnce(old, c) ==
    [old EXCEPT !.status = IF c.copy = "generating" THEN Outcome(c.op) ELSE @,
                !.wins = IF c.op = "finalise" THEN c.wins ELSE @]
\* mark_ready and mark_failed: the status is sent if it differs from the loaded one.
Settled(old, c) ==
    [old EXCEPT !.status = IF c.copy = Outcome(c.op) THEN @ ELSE Outcome(c.op),
                !.wins = IF c.op = "finalise" THEN c.wins ELSE @]

-------------------------------------------------------------------------------
(* Share links.                                                             *)

CreateShareLink(r) == \E i \in Ids : report[i].status = "ready" /\ Begin(r, "share", i, "commit")

\* revoke_share_link finds expired and revoked links too.
RevokeShareLink(r) == \E l \in Requests : link[l] # NoLink /\ Begin(r, "revoke", l, "write")

\* get_share_link_by_token finds a link that is neither revoked nor expired, and
\* record_share_view then counts.
ViewSharedReport(r) ==
    \E l \in Requests :
        /\ link[l] # NoLink /\ ~link[l].revoked /\ ~link[l].expired
        /\ Begin(r, "view", l, "write")

\* Faulty variant: looking the link up counts too.
CountTwice(old, c) ==
    CASE c.op = "revoke" -> [old EXCEPT !.revoked = TRUE]
      [] c.op = "view" -> [old EXCEPT !.views = @ + 2]
\* revoke rewrites revoked_at; increment_view adds to the count of the stored row.
LinkAfter(old, c) ==
    CASE c.op = "revoke" -> [old EXCEPT !.revoked = TRUE]
      [] c.op = "view" -> [old EXCEPT !.views = @ + 1]

LinkExpires(l) ==
    /\ link[l] # NoLink /\ ~link[l].expired
    /\ link' = [link EXCEPT ![l].expired = TRUE]
    /\ UNCHANGED <<lost, report, token, lock, call, history>>

-------------------------------------------------------------------------------
(* Tokens of free audits.                                                   *)

\* Faulty variant: mark_claimed does not look at claimed_at.
ClaimAgain(k) == token[k].live
\* get_by_token finds a token that has not expired; mark_claimed leaves a claimed one alone.
Claimable(k) == token[k].live /\ token[k].by = None

\* submit: a token for the run it has just started.
Submit(r) ==
    /\ call[r].pc = "new"
    /\ \E u \in Runs :
        call' = [call EXCEPT ![r] = [NewCall EXCEPT !.pc = "commit", !.op = "submit",
                                                    !.id = r, !.run = u]]
    /\ UNCHANGED <<lost, rows, lock, history>>

\* The tokens get_active_for_business finds, all of start_free_audit: each submission makes a
\* business of its own.
ActiveTokens == {k \in Requests : Claimable(k) /\ token[k].run = None}

\* start_free_audit: one active token is the answer, two are an error, for none it makes one.
\* No index has the INSERT wait or fail, so the handler of its IntegrityError never runs.
StartFreeAudit(r) ==
    /\ call[r].pc = "new"
    /\ IF ActiveTokens = {}
       THEN Begin(r, "start", r, "commit")
       ELSE call' = [call EXCEPT ![r] = Over] /\ UNCHANGED <<lost, rows, lock, history>>

Claim(r) == \E k \in Requests : Claimable(k) /\ Begin(r, "claim", k, "write")

TokenExpires(k) ==
    /\ token[k].live
    /\ token' = [token EXCEPT ![k].live = FALSE]
    /\ UNCHANGED <<lost, report, link, lock, call, history>>

-------------------------------------------------------------------------------
(* Writing and committing.                                                  *)

\* An UPDATE waits for the row's lock; it has no condition but the identifier.
Update(r) ==
    /\ call[r].pc = "write"
    /\ lock[call[r].id] = None
    /\ lock' = [lock EXCEPT ![call[r].id] = r]
    /\ call' = [call EXCEPT ![r].pc = "commit"]
    /\ UNCHANGED <<lost, rows, history>>

\* What r writes becomes visible; a caller of finalise_report or mark_report_failed is told
\* that the report is ready, by an event too, or that it failed.
Commit(r) ==
    LET c == call[r]
        settles == c.op \in {"finalise", "fail"}
    IN
    /\ c.pc = "commit"
    /\ report' = CASE c.op = "create" -> [report EXCEPT ![r] =
                            [run |-> c.run, status |-> "generating", wins |-> None]]
                   [] settles -> [report EXCEPT ![c.id] = Settled(@, c)]
                   [] OTHER -> report
    /\ link' = CASE c.op = "share" -> [link EXCEPT ![r] = [NoLink EXCEPT !.report = c.id]]
                 [] c.op \in {"revoke", "view"} -> [link EXCEPT ![c.id] = LinkAfter(@, c)]
                 [] OTHER -> link
    /\ token' = CASE c.op \in {"submit", "start"} ->
                            [token EXCEPT ![r] = [live |-> TRUE, run |-> c.run, by |-> None]]
                  [] c.op = "claim" -> [token EXCEPT ![c.id].by = r]
                  [] OTHER -> token
    /\ told' = IF settles THEN [told EXCEPT ![c.id] = Outcome(c.op)] ELSE told
    /\ contested' = IF settles
                    THEN IF c.overtaken THEN contested \union {c.id} ELSE contested \ {c.id}
                    ELSE contested
    /\ lock' = [i \in Ids |-> IF lock[i] = r THEN None ELSE lock[i]]
    /\ call' = [o \in Requests |->
                    IF o = r THEN Over
                    ELSE IF settles /\ call[o].id = c.id /\ call[o].op \in {"finalise", "fail"}
                         THEN [call[o] EXCEPT !.overtaken = TRUE] ELSE call[o]]
    /\ UNCHANGED lost

\* A database error, the business having been deleted, or a crashed worker.
Rollback(r) ==
    /\ InTransaction(r)
    /\ lock' = [i \in Ids |-> IF lock[i] = r THEN None ELSE lock[i]]
    /\ call' = [call EXCEPT ![r] = Over]
    /\ UNCHANGED <<lost, rows, history>>

-------------------------------------------------------------------------------
Start(r) ==
    \/ CreateReport(r)
    \/ FinaliseReport(r)
    \/ MarkReportFailed(r)
    \/ CreateShareLink(r)
    \/ RevokeShareLink(r)
    \/ ViewSharedReport(r)
    \/ Submit(r)
    \/ StartFreeAudit(r)
    \/ Claim(r)

Advance(r) ==
    \/ InsertReport(r)
    \/ BuildAuditContext(r)
    \/ GenerateWins(r)
    \/ Update(r)
    \/ Commit(r)

Elsewhere ==
    \/ \E u \in Runs : RecordExecution(u)
    \/ \E l \in Requests : LinkExpires(l)
    \/ \E k \in Requests : TokenExpires(k)

AllOver ==
    /\ \A r \in Requests : call[r].pc = "done"
    /\ UNCHANGED vars

Next ==
    \/ \E r \in Requests : Start(r) \/ Advance(r) \/ Rollback(r)
    \/ Elsewhere
    \/ AllOver

Spec == Init /\ [][Next]_vars

-------------------------------------------------------------------------------
(* Properties.                                                              *)

\* Three quick wins, of which each that names a query names one lost by the run they were
\* generated from, unless that had lost none yet.
Grounded(i) ==
    LET w == report[i].wins IN
    /\ w # None
    /\ w.count = 3
    /\ w.blind \/ w.targets \subseteq lost[w.run]

\* Whatever failed while a report's quick wins were generated, they are grounded when it is
\* ready, and stay so for whoever holds a link to it, although it may fail or be generated
\* again.  They are grounded in one run, which is the report's own if finalise_report was
\* called with it.
ReadyIsGrounded ==
    \A i \in Ids :
        report[i].status = "ready" \/ (\E l \in Requests : link[l].report = i) => Grounded(i)

\* The status of a report is what the last caller to settle it was told, unless another
\* overtook that caller.
OnlyRacesMisreport ==
    \A i \in Ids : told[i] # None /\ i \notin contested => report[i].status = told[i]

\* k has been claimed, and no claim under way found it unclaimed.
ClaimSettled(k) ==
    /\ token[k].by # None
    /\ \A r \in Requests : ~(InTransaction(r) /\ call[r].op = "claim" /\ call[r].id = k)

\* A claim that has been granted is not granted again, except to one that overlapped it.
ClaimKept ==
    [][\A k \in Requests :
        ClaimSettled(k) => ClaimSettled(k)' /\ token'[k].by = token[k].by]_vars
===============================================================================
