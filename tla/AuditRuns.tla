------------------------------- MODULE AuditRuns -------------------------------
(***************************************************************************)
(* One audit run (app/modules/audit/service.py): it is created, workers    *)
(* record what AI engines answered to its queries, and finalisations turn  *)
(* what has been recorded into the status and the visibility score of the  *)
(* audit_runs row, and announce them.  Nothing stops a query from being    *)
(* recorded, or another finalisation from being made, during or after a    *)
(* finalisation, whose reads are statements of a READ COMMITTED            *)
(* transaction, each with its own view of the tables.                      *)
(***************************************************************************)
EXTENDS Integers, FiniteSets, Functions

CONSTANTS
    Engines,
    Ids,            \* bound: the query executions that may be recorded
    Finalisers,     \* bound: the calls of finalise_audit_run that may be made
    None

ASSUME AuditAssumption ==
    /\ IsFiniteSet(Engines) /\ IsFiniteSet(Ids)
    /\ None \notin Finalisers \union Int

\* failed: no response, or one without success; silent: a success that names nobody, be it
\* for want of a text, when there is no citation row, or in one, when the row says so;
\* cited: a text that names the business and a competitor; negative: one that names the
\* business alone, with a negative polarity.  As the repository sets it up the detector is
\* given no competitors and finds none; the observations are there for one that is.
Outcomes == {"failed", "silent", "cited", "negative"}

\* A committed query_executions row with the rows written along with it.
Executions == [id : Ids, engine : Engines, outcome : Outcomes]

Succeeded(S) == {x \in S : x.outcome # "failed"}
Cited(S) == {x \in S : x.outcome \in {"cited", "negative"}}
Negative(S) == {x \in S : x.outcome = "negative"}
NamingRival(S) == {x \in S : x.outcome = "cited"}

-------------------------------------------------------------------------------
(* The score: the mean over the engines of (cited - negative / 2) / total,  *)
(* in units of 1/10000 of a percent, to which the code rounds it.           *)

Full == 1000000

Nearest(a, b) == (2 * a + b) \div (2 * b)

Clamp(n, top) == IF n < 0 THEN 0 ELSE IF n > top THEN top ELSE n

On(S, e) == {x \in S : x.engine = e}

\* Twice the numerator of the score of engine e, C being the executions found to cite.
Halves(C, e) ==
    2 * Cardinality(On(C, e)) - Cardinality(On(Negative(C), e))

Score(S, C) ==
    LET covered == {x.engine : x \in S}
        total == [e \in covered |-> Cardinality(On(S, e))]
        common == FoldFunction(LAMBDA m, n : m * n, 1, total)
        halves == [e \in covered |-> Clamp(Halves(C, e), 2 * total[e]) * (common \div total[e])]
    IN IF covered = {}
       THEN 0
       ELSE Nearest(Full * SumFunction(halves), 2 * Cardinality(covered) * common)

\* Faulty variant: the ratio is upside down.
UpsideDown(S) ==
    IF Succeeded(S) = {} THEN 0 ELSE (Full * Cardinality(S)) \div Cardinality(Succeeded(S))

Completeness(S) ==
    IF S = {} THEN 0 ELSE (Full * Cardinality(Succeeded(S))) \div Cardinality(S)

\* completeness_pct against 0.95 and 0.60; a run without executions has 0.0.
FinalStatus(S) ==
    LET reaches(percent) ==
            S # {} /\ 100 * Cardinality(Succeeded(S)) >= percent * Cardinality(S)
    IN CASE reaches(95) -> "completed"
         [] reaches(60) /\ ~reaches(95) -> "partial"
         [] OTHER -> "failed"

\* What a finalisation that has read the executions S and the citations of C writes.
Verdict(S, C) ==
    [status |-> FinalStatus(S),
     score |-> Score(S, Cited(S) \intersect C),
     completeness |-> Completeness(S),
     total |-> Cardinality(S),
     successful |-> Cardinality(Succeeded(S))]

Statuses == {"pending", "completed", "partial", "failed"}
Columns == {"status", "score", "completeness", "total", "successful"}

IsRow(r) ==
    /\ DOMAIN r = Columns
    /\ r.status \in Statuses
    /\ \A c \in {"score", "completeness"} : r[c] = None \/ r[c] \in 0..Full
    /\ \A c \in {"total", "successful"} : r[c] \in 0..Cardinality(Ids)

NewRun == [status |-> "pending", score |-> None, completeness |-> None,
           total |-> 0, successful |-> 0]

-------------------------------------------------------------------------------
VARIABLES
    created,    \* the run has been created
    recorded,   \* the committed executions
    run,        \* the committed audit_runs row
    runLock,    \* the finalisation that has updated it
    pc,         \* where a finalisation stands
    seen,       \* the executions it has read
    cites,      \* the executions whose citations it has read
    loaded,     \* the row it has loaded
    rivals,     \* the executions whose competitor observations it has read
    announced,  \* the verdicts published, with the observations published next
    moments,    \* history: the values recorded has had
    committed,  \* history: the verdicts committed
    torn        \* history: the last commit overwrote another row than it had loaded

frames == <<pc, seen, cites, loaded, rivals>>
history == <<moments, committed, torn>>
vars == <<created, recorded, run, runLock, frames, announced, history>>

OpenPoints == {"citations", "load", "update", "observe", "commit"}
ProgramCounters == {"idle", "flush", "done"} \union OpenPoints

TypeOK ==
    /\ created \in BOOLEAN
    /\ recorded \subseteq Executions
    /\ IsRow(run)
    /\ runLock \in Finalisers \union {None}
    /\ pc \in [Finalisers -> ProgramCounters]
    /\ \A f \in Finalisers : /\ seen[f] \subseteq Executions
                             /\ cites[f] \subseteq Executions
                             /\ IsRow(loaded[f])
                             /\ rivals[f] \subseteq Executions
    /\ torn \in BOOLEAN

Init ==
    /\ created = FALSE
    /\ recorded = {}
    /\ run = NewRun
    /\ runLock = None
    /\ pc = [f \in Finalisers |-> "idle"]
    /\ seen = [f \in Finalisers |-> {}]
    /\ cites = [f \in Finalisers |-> {}]
    /\ loaded = [f \in Finalisers |-> NewRun]
    /\ rivals = [f \in Finalisers |-> {}]
    /\ announced = {}
    /\ moments = {{}}
    /\ committed = {}
    /\ torn = FALSE

InTransaction(f) == pc[f] \in OpenPoints

Go(f, point) == pc' = [pc EXCEPT ![f] = point]

\* The call is over, and what it had read with it.
Forget(f) ==
    /\ seen' = [seen EXCEPT ![f] = {}]
    /\ cites' = [cites EXCEPT ![f] = {}]
    /\ loaded' = [loaded EXCEPT ![f] = NewRun]
    /\ rivals' = [rivals EXCEPT ![f] = {}]

-------------------------------------------------------------------------------
(* create_audit_run and run_single_query                                    *)

\* Its AuditRunStarted, which the caller publishes afterwards, has no reader in the model.
CreateAuditRun ==
    /\ ~created
    /\ created' = TRUE
    /\ UNCHANGED <<recorded, run, runLock, frames, announced, history>>

\* One transaction inserts the execution, its citation and its competitor observations;
\* run_single_query looks at neither the run's status nor its other executions.
RunSingleQuery ==
    /\ created
    /\ \E x \in Executions :
        /\ \A y \in recorded : y.id # x.id
        /\ recorded' = recorded \union {x}
    /\ moments' = moments \union {recorded'}
    /\ UNCHANGED <<created, run, runLock, frames, announced, committed, torn>>

-------------------------------------------------------------------------------
(* finalise_audit_run                                                       *)

ReadExecutions(f) ==
    /\ created
    /\ pc[f] = "idle"
    /\ Go(f, "citations")
    /\ seen' = [seen EXCEPT ![f] = recorded]
    /\ UNCHANGED <<created, recorded, run, runLock, cites, loaded, rivals, announced, history>>

\* Faulty variant: the citations are those of the first read, the executions are read now.
ReadExecutionsLate(f) ==
    /\ pc[f] = "citations"
    /\ Go(f, "load")
    /\ cites' = [cites EXCEPT ![f] = Cited(seen[f])]
    /\ seen' = [seen EXCEPT ![f] = recorded]
    /\ UNCHANGED <<created, recorded, run, runLock, loaded, rivals, announced, history>>

ReadCitations(f) ==
    /\ pc[f] = "citations"
    /\ Go(f, "load")
    /\ cites' = [cites EXCEPT ![f] = Cited(recorded)]
    /\ UNCHANGED <<created, recorded, run, runLock, seen, loaded, rivals, announced, history>>

LoadRun(f) ==
    /\ pc[f] = "load"
    /\ Go(f, "update")
    /\ loaded' = [loaded EXCEPT ![f] = run]
    /\ UNCHANGED <<created, recorded, run, runLock, seen, cites, rivals, announced, history>>

\* The UPDATE waits for the transaction that has updated the row.
UpdateStatus(f) ==
    /\ pc[f] = "update"
    /\ runLock = None
    /\ runLock' = f
    /\ Go(f, "observe")
    /\ UNCHANGED <<created, recorded, run, seen, cites, loaded, rivals, announced, history>>

ReadObservations(f) ==
    /\ pc[f] = "observe"
    /\ Go(f, "commit")
    /\ rivals' = [rivals EXCEPT ![f] = NamingRival(recorded)]
    /\ UNCHANGED <<created, recorded, run, runLock, seen, cites, loaded, announced, history>>

\* Faulty variant: update_status tests its arguments for truth, not for None.
TruthyOnly(row, old, new) ==
    [c \in Columns |-> IF c # "status" /\ new[c] \in {0, old[c]} THEN row[c] ELSE new[c]]

\* The UPDATE names the columns that differ from the row loaded; the others keep what the
\* committed row has.
Written(row, old, new) ==
    [c \in Columns |-> IF new[c] # old[c] THEN new[c] ELSE row[c]]

Commit(f) ==
    LET verdict == Verdict(seen[f], cites[f]) IN
    /\ pc[f] = "commit"
    /\ Go(f, "flush")
    /\ run' = Written(run, loaded[f], verdict)
    /\ runLock' = None
    /\ committed' = committed \union {verdict}
    /\ torn' = (loaded[f] # run)
    /\ UNCHANGED <<created, recorded, seen, cites, loaded, rivals, announced, moments>>

\* An exception or a lost connection ends the transaction, a crash the caller too.
Rollback(f) ==
    /\ InTransaction(f)
    /\ Go(f, "done")
    /\ Forget(f)
    /\ runLock' = IF runLock = f THEN None ELSE runLock
    /\ UNCHANGED <<created, recorded, run, announced, history>>

\* AuditRunCompleted, then CompetitorsObserved if there are any; a crash between the two
\* leaves the second unpublished.
FlushEvents(f) ==
    /\ pc[f] = "flush"
    /\ Go(f, "done")
    /\ Forget(f)
    /\ \E told \in {rivals[f], {}} :
        announced' = announced \union {[verdict |-> Verdict(seen[f], cites[f]), rivals |-> told]}
    /\ UNCHANGED <<created, recorded, run, runLock, history>>

LoseEvents(f) ==
    /\ pc[f] = "flush"
    /\ Go(f, "done")
    /\ Forget(f)
    /\ UNCHANGED <<created, recorded, run, runLock, announced,
                   history>>

-------------------------------------------------------------------------------
Advance(f) ==
    \/ ReadExecutions(f) \/ ReadCitations(f) \/ LoadRun(f) \/ UpdateStatus(f)
    \/ ReadObservations(f) \/ Commit(f) \/ FlushEvents(f)

Next ==
    \/ CreateAuditRun \/ RunSingleQuery
    \/ \E f \in Finalisers : Advance(f) \/ Rollback(f) \/ LoseEvents(f)

Spec == Init /\ [][Next]_vars

-------------------------------------------------------------------------------
(* Properties.                                                              *)

\* The verdict published by AuditRunCompleted is the one of the executions recorded at
\* one moment, though executions and citations are read by two statements with other
\* workers recording in between; and the competitors CompetitorsObserved names, read later
\* still, miss none that an execution of that moment names.
AnnouncedIsSnapshot ==
    \A a \in announced :
        \E S \in moments :
            /\ a.verdict = Verdict(S, S)
            /\ a.rivals = {} \/ NamingRival(S) \subseteq a.rivals

\* Every column of the row is that of the verdict on the executions recorded at one moment,
\* unless the last finalisation to commit overwrote a row that it had not loaded: as an UPDATE
\* only writes the columns that differ from those loaded, that may tear the row, but into
\* columns of committed verdicts, and until a finalisation loads what it overwrites.
RowIsSnapshot ==
    IF torn
    THEN \A c \in Columns : \E v \in committed : run[c] = v[c]
    ELSE run = NewRun \/ \E S \in moments : run = Verdict(S, S)

\* No verdict is published that no transaction has committed.
AnnouncedWasCommitted ==
    \A a \in announced : a.verdict \in committed

\* The executions on engines that answered a query.
CoveredOnly(S) == {x \in S : On(Succeeded(S), x.engine) # {}}

\* What the design promises of an outage: in an audit that is reported, an engine none of
\* whose queries succeeded does not weigh on the score finalise_audit_run computes.
StableToOutage ==
    \/ torn \/ run.status \notin {"completed", "partial"}
    \/ \E S \in moments : run.total = Cardinality(S) /\ run.score = Score(CoveredOnly(S), Cited(S))
===============================================================================
