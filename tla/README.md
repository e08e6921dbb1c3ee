# A TLA+ model of CitedBy

CitedBy is a FastAPI service over PostgreSQL (SQLAlchemy's asynchronous sessions) that audits how
often AI engines cite a local business, generates content briefs with language models, publishes
them, and notifies the people concerned.  The code is under `src/backend/app`.  Every request is
one coroutine with one database transaction (`core/database.py`, `get_db_session`): commit when the
block ends, rollback on an exception, events published by the router after the commit.  Hardly any
query locks what it reads, and no isolation level is set, so PostgreSQL's READ COMMITTED applies.
What is hard about this system is what happens between a SELECT and the UPDATE or INSERT that
relies on it, and this project is mostly about that.

## 1. Inventory

| component | state | operations | hard behaviours | what makes it correct |
|---|---|---|---|---|
| content briefs (`modules/content/service.py`) | `content_briefs`, `content_assets`, buffered events | generate, approve, reject, flush events | reviews that overlap; stale session copies; notes and decision written apart; events lost | complete briefs, decisions of one review, final decisions, events only of commits |
| LLM gateway (`modules/content/gateway.py`) | `llm_calls`, `usage_counters`, process-wide cache | complete: budget, cache, providers, counter | check-then-charge; retries and fallbacks; cache outside of transactions; month change | counter = ledger, bounded overspending, every call ends |
| identity (`modules/identity`) | `tenants`, `memberships`, `admin_audit_log`, `users` | create/update tenant, grant, revoke, users from the auth provider | rights, duplicates and admins are read before the write | one membership per role, authorised and logged changes, an admin left |
| publishing (`modules/publishing`) | `publish_targets`, `publish_attempts`, `entity_seeds`, `verification_polls` | connect, authorize, revoke, initiate, record results, listings, polls | retries, late and repeated results, unguarded updates | idempotent publishing, nothing published is forgotten, the first verification kept |
| notifications (`modules/notifications`) | `notifications`, preferences, delivery log, bounced addresses, `recrawl_schedules`, `citation_deltas` | queue, record delivery/bounce, preferences, schedules, deltas | concurrent queueing, daily caps, midnight, repeated provider reports | one notification per event, bounded caps, silence kept, status = log |
| audit (`modules/audit`) | `audit_runs`, `query_executions`, `citations`, `competitor_observations` | create run, run query, finalise; score | queries recorded while, and after, a run is finalised; overlapping finalisations; failing engines | a verdict on one moment's executions, row and event agreeing with it |
| citation detection (`modules/audit/citation_detector.py`) | none | detect | seven stages tried in turn, two behind a gate, confidences that overlap | saying more of a business never loses the citation |
| reporting (`modules/reporting`) | `reports`, `share_links` | create, finalise, fail, share, revoke, view | unguarded state changes on stale copies; quick wins' retries and fallback | a ready or shared report is grounded in an audit; callers are told the truth |
| free audits (`business_profile`, `reporting`) | `free_audit_tokens` | start, submit, claim, expire | look-up and insert without an index; claims that overlap | a granted claim stays |
| business profiles (`modules/business_profile`) | businesses, aliases, locations, keywords | create, rename, update, delete, add to | the singleton trigger; a score derived from a stale copy; late writes to deleted rows | singleton, the stored score is that of what is stored, deletion is final |
| ops (`modules/ops`) | quota log, grace extensions, impersonation log, status components | check quota, extend grace, impersonate, status | overlapping extensions, limit 0 | blocked exactly when the quota is used up without grace |
| whitelabel (`modules/whitelabel`) | configuration, domain mappings, import jobs | get and update the configuration, map/verify/revoke domains, import | first requests that overlap, updates by identifier alone, repeated rows | no change lost, a domain is mapped once, counts add up |
| engines (`modules/engines`) | none | query an engine, registry | external answers | - |
| event bus (`core/events.py`) | handlers in memory | publish, subscribe | failures of handlers are logged only; no outbox | events only of commits |
| sessions (`core/database.py`) | pool, RLS variables of a transaction | begin, commit, roll back | pool limits, tenant isolation | - |
| Temporal workflows (`modules/*/workflows.py`) | none | stubs that raise `NotImplementedError` | - | - |

Interactions: routers call the services, the services their repositories over the request's
session; `generate_brief` calls the LLM gateway, and the quick wins the engines' gateway, inside
their own transaction; `run_single_query` is handed the engine's response; components otherwise meet only in the database and, after the commit, on the event bus.  A publish
attempt names an asset, a report an audit run, a notification a business.

The list of hazards, each at its line, is in `PROJECT.json`.

## 2. The modules

Conventions.  A request, call or worker is a record with a program counter; each action is the code
from one database statement that can block, or see another transaction's commit, to the next.  A
SELECT reads the committed state.  An UPDATE takes the row's lock (a variable such as `briefLock`) and
what it writes becomes visible in `Commit`; an INSERT under a unique index waits for an open
transaction with the same key and fails if that one commits.  `Rollback` may end every open
transaction (a database error, a cancelled request, a dead worker).  `Faulty variant` definitions
precede the definition they are a broken form of; no action uses them.  `AuditRuns` and `CitationDetection`,
`Publishing` and `Notifications`, `ContentBriefs` and `LLMGateway` share no names,
so that one module of proofs extends both of a pair: the second of each names its own
`GatewaySpec`, `NotifySpec`, `DetectionSpec`, `GatewayNext`, and so on.

| module | models | state and actions |
|---|---|---|
| `BriefLifecycle` | what a brief promises the outside: delivered once, decided, announced after it happened | `decision`, `approvedOnce`, `announced` |
| `ContentBriefs` | `ContentBriefService` under overlapping requests | `brief` is the committed row and its asset's source and notes, `req[r]` the session: `GenerateBrief`, `CreateAsset`(`Refused`), `SubmitForReview`; `ReviewBrief`, `LoadAsset`, `WriteNotes`, `UpdateState`; `Commit`, `FlushEvents`, `LoseEvents`, `Rollback` |
| `LLMGateway` | `LLMGateway.complete` for one business | `counter[p]` the usage counter of month p, `cache`, `call[c]`: `CheckBudget`, `InsertCounter`, `LookUpCache`, `TryPrimary`, `TrySecondary`, `AnswerFromTemplate`, `Increment`, `GatewayCommit`, `Refuse`, `GatewayRollback`, `NextMonth`, `Expire` |
| `Memberships` | `create_tenant`, `grant`, `revoke` | `tenants`, `row`, `log`; one action per SELECT and write of the three operations |
| `IdempotentCreate` | the promise of an idempotency key | `made[k]`, `answered` |
| `Publishing` | `PublishService` | `target`, `attempt`, `seed`; an action per operation, `InsertAttempt`, `ReadSeed`, `Update`, `Commit` |
| `Notifications` | `queue`, `record_delivery`, `update_preference` for one recipient and type | `note`, `pref`, `log`, `today`; `Queue`, `ReadPreference`, `CountSent`, `InsertNotification`, `RecordDelivery`, `InsertLog`, `UpdateStatus`, `UpdatePreference`, `UpsertPreference` |
| `AuditRuns` | one audit run: creation, recorded queries, overlapping finalisations, the score | `recorded`, `run`, and of each finalisation what it has read (`seen`, `cites`, `loaded`, `rivals`): `CreateAuditRun`, `RunSingleQuery`; `ReadExecutions`, `ReadCitations`, `LoadRun`, `UpdateStatus`, `ReadObservations`, `Commit`, `FlushEvents`, `LoseEvents`, `Rollback`; `Score`, `FinalStatus`, `Verdict` as operators |
| `CitationDetection` | `CitationDetector.detect` over `build_business_identity` | `identity`, and in `text` what the response says; `Say(m)` says one thing more; `Signals`, `PassesGate`, `Recognises`, `Hits`, `MatchType`, `Confidence` are the detector's functions |
| `Businesses` | `BusinessProfileService` for the routes of `businesses.py` | `row[b]`, `child[r]`, the two locks, and of each request its copy and the columns it will send: `CreateBusiness`, `Rename`, `UpdateStatus`, `DeleteBusiness`, `AddChild`; `InsertBusiness` (the trigger), `InsertChild`, `ListAliases`, `UpdateBusiness`, `Commit`, `Rollback` |
| `Reports` | `ReportService`, free-audit tokens | `report`, `link`, `token`, `lost[u]` the run's executions: `CreateReport`, `FinaliseReport`, `MarkReportFailed`, share, revoke, view, `Submit`, `StartFreeAudit`, `Claim`; `InsertReport`, `BuildAuditContext`, `GenerateWins`, `Update`, `Commit`, `Rollback`; `RecordExecution`, `LinkExpires`, `TokenExpires` |
| `Whitelabel` | configuration, domains and imports of agencies | `config`, `mapping`, `job`: `GetConfig`, `PutConfig`, `LookUpConfig`, `AddDomain`, `VerifyDomain`, `RevokeDomain`, `ImportRows`; `Insert`, `Update`, `Commit`, `Rollback`; `ProcessRows` is the loop over an import |
| `ContentProofs`, `AuditProofs`, `MembershipsProofs`, `OutboundProofs`, `BusinessesProofs`, `WhitelabelProofs`, `ReportsProofs` | the theorems of section 5 | |
| `FoldTheorems` | lemmas about the folds, sums and products of the community modules that those proofs cite | |

Each `MC` module gives a specification the constants its configurations assign.

Two abstract specifications: `ContentBriefs` implements `BriefLifecycle`, and `Publishing`,
`Notifications` and `Whitelabel` implement `IdempotentCreate` (three components with the same promise and
different code: one finds the row or fails on the index, one also suppresses, skips and aborts, and
`add_domain` only fails).

Some points where the code's behaviour is subtle and the model follows it:

* The session keeps the first copy it loads of a row.  The second SELECT in `update_state` finds
  that copy, and the UPDATE sends only the columns that differ (`RowAfter`, `WriteNotes`).
* When the gateway raises, `generate_brief` goes on with template text and identifiers that are
  `UUID(0)`; `content_assets` has NOT NULL foreign keys, so the request fails when it inserts the
  asset (`CreateAssetRefused`, `Refuse`).  The fallback inside the gateway does work.
* A call that finds no usage counter inserts one and holds its lock until its transaction ends, so
  the first call of a month serialises the others (`InsertCounter`, `Increment`).
* The month a call is charged to is fixed when its answer is in, before it waits for the counter's
  row (`Answered`): a wait that lasts into the next month still charges the old one.
* A failed call's `llm_calls` row is rolled back with its request, although the provider was paid;
  `ledger` counts committed rows.
* All channels of a notification share one unique idempotency key.  With two channels that have a
  template the second INSERT fails on the first, and the whole call is rolled back
  (`InsertNotification`): such a recipient is never notified.  `created_at` is set when the row is made,
  so a call that waits for the index over midnight keeps a day between those of its count and its end.
* A success of a channel may come without an identifier (`external_object_id` is optional), and is written as
  it comes: it erases one that an earlier success reported (`RecordResult`).
* A rejection whose notes the asset has already sends none (`WriteNotes`), so a third review may replace
  them while it waits; `RejectionCarriesNotes` allows that one interleaving and no other.
* `update_preference` stores any cadence; one that is no `NotificationCadence` makes every later
  `queue` raise (`ReadPreference`).
* `update_status` of an audit run loads the row and assigns to it; SQLAlchemy sends only the columns
  whose value differs from the one loaded (`Written`).  Two finalisations that loaded the same row
  can so leave the status of one with the completeness of the other (`torn`), until a finalisation loads the
  row it overwrites.
* The repository builds its detector without competitors (`audit/service.py:242`), so none is observed.
  `Outcomes` still lets an execution name a rival: more than the code does today, for a detector that is
  given some.
* The score is computed in units of 1/10000 percent, the precision to which the code rounds it
  (`Nearest`); binary floating point is not modelled beyond that.  The thresholds 0.95 and 0.60 are
  compared exactly: a correctly rounded quotient equal to one of them is that constant.
* A response is what it says of the business, not its characters: a name said joined to other words
  by a hyphen, words that come close to it, the words of an address apart.  `Implied` lists what else
  a text then contains.  A stored score of 0 counts as 0.5 (`x or 0.5`); an alias corroborates itself
  in the gate; when locality and city have one name its words count for both (`AddressWords`).
* A business's score is computed from the name of the session's copy and the aliases a new SELECT
  finds, and sent only if it differs from the score of that copy (`Rescore`, `Sent`).
* A report is always of version 1, so a run has one; `mark_ready` and `mark_failed` look at no
  status, and a status equal to the copy's is not sent (`Settled`).
* `finalise_report` is given an audit run of its own, which nothing compares with `report.audit_run_id`
  (`FinaliseReport` takes any).  `ReadyIsGrounded` is about the run it was given, which is the report's
  if the caller passes that one.
* The policies of row-level security are left out, for they do not bind the role the repository sets up:
  docker-compose.yml makes the services' role a superuser and the tables' owner, and migration 007 does not
  force its policies.  In `Whitelabel` that means that `revoke_domain`, which updates by the identifier
  alone, finds the mapping of whichever tenant.  In `Businesses` every SELECT asks for the tenant itself, but
  for a role the policies of migration 001 do bind, the trigger's count would also fall under
  `businesses_scope_filter`; `SingletonKept` is about the role the repository has.
* The loser of a race in `initiate_publish` gets an `IntegrityError`, not the winner's row
  (`InsertAttempt`), unlike Phase 5, section 6.2.

Callers that do not exist yet.  No code under `src/` calls `queue`, `record_delivery`,
`record_publish_result`, `record_seed_*`, `run_single_query`, `finalise_audit_run`, `generate_brief`,
`finalise_report`, `mark_report_failed`, `record_share_view` or `start_free_audit` outside of tests (the Temporal
workflows are stubs), and the route that calls `submit` gives it the category `UUID(0)`, on which it
fails.  They are modelled as calls in transactions of their own, the way the routers call the others; a provider
is assumed to report only on notifications that were not suppressed.

## 3. What is checked

`tlc -config X.cfg M`, one configuration per question.

| run | checks | bounds | shows |
|---|---|---|---|
| `content_briefs` | `TypeOK`, `CommittedBriefsComplete`, `DecisionAttributed`, `RejectionCarriesNotes`, `DecisionsSettle`, `LifecycleKept`, `EveryRequestEnds` | 3 requests, 1 brief, 2 tenants, 2 notes | visible briefs are complete; a decision is one review's; only overlapping reviews replace a decision |
| `llm_gateway` | `GatewayTypeOK`, `CounterMatchesLedger`, `BudgetBound`, `EveryCallEnds` | 2 callers, 2 keys (one deterministic), budget 2, estimate 1, cost 2, 2 months, 3 calls | no increment is lost; overspending is bounded by one call per caller |
| `memberships` | `TypeOK`, `OneActiveMembership`, `EveryChangeAuthorised`, `OnlyRacesLoseAdmins` | 3 requests, 2 users, 2 tenants, 2 seed memberships | the index keeps one membership; only a race of revocations loses the last admin |
| `publishing` | `TypeOK`, `PublicationRemembered`, `PublishIdempotent`, `FirstVerificationKept` | 4 requests, 1 target, 2 assets, 1 listing | publishing is idempotent; late results forget nothing, and only a success without an identifier takes one away |
| `notifications` | `NotifyTypeOK`, `CapBound`, `StatusFollowsLog`, `QueuedOnce`, `SilenceKept` | 2 workers, 3 keys, limits 1 and 2, 2 days, 2 channels, 3 calls | one notification per event; caps are passed by at most the calls that overlap |
| `audit_runs` | `TypeOK`, `AnnouncedIsSnapshot`, `RowIsSnapshot` | 2 engines, 2 executions with every outcome, 3 finalisations; symmetric in all three | a verdict is that of one moment; the row is torn only by a commit over a row its finalisation had not loaded, and then into columns of committed verdicts |
| `businesses` | `TypeOK`, `SingletonKept`, `OnlyRacesMisscore`, `DeletedIsFinal` | 3 requests, 2 tenants (one direct), 2 names, 2 actors, 1 business to begin with | the trigger keeps the singleton; a wrong score takes an overlap and at worst lacks aliases; nothing revives a deleted business |
| `reports` | `TypeOK`, `ReadyIsGrounded`, `OnlyRacesMisreport`, `ClaimKept` | 3 calls, 2 runs, 2 queries, answers of up to 4 wins, 1 report to begin with; symmetric in calls and queries | whatever fails, a ready report names queries lost by the run it was generated from; what callers are told is wrong only after an overlap |
| `citation_detection` | `MoreSaidStaysCited`, `OnlyNearMissesLower` | all identities with scores none, 0, 39, 40, 69, 70 and up to 2 words per place; all responses | the detector is monotone but for one case |
| `whitelabel` | `NoChangeLost`, `CountsAddUp`, `DomainMappedOnce` | 3 requests, 2 tenants, 1 domain, 2 columns, imports of up to 2 rows with 2 keys; symmetric in requests and tenants | no first request loses a change; a domain stays with the first request that mapped it; counts add up |

Why the bounds are enough.  Every race in this code is between a read and a write of two
transactions, so two actors and a third that comes before or after them show each of them; one row
is contended at a time, since no transaction writes two rows of the same table in different orders.
Where a third actor can undo, or complete, what two have done (reviews, publishing, finalisations) there
are three or four.
Limits are as small as lets the number of overlapping calls pass them.  The scores of
`citation_detection` are the gate's thresholds and their neighbours.  The theorems of section 5
hold for every size.

Two runs state what the documents or the code say and find it violated:

| run | property | what happens |
|---|---|---|
| `last_admin` | `LastAdminKept` | two admins revoke each other |
| `audit_outage` | `StableToOutage` | an engine all of whose queries fail halves the score of a partial audit (3 executions, 1 finalisation) |

Runs whose system really stops (`audit_runs`, `audit_outage`) do not check for deadlock.

The `DecisionsSettle`, `BudgetBound`, `OnlyRacesLoseAdmins`, `OnlyRacesMisscore` and `OnlyRacesMisreport`
properties say what is left of broken promises: exactly how far the code can go wrong.

Known disagreements between the code and its documents that a passing property already allows, and
that no run is spent on:

* two reviews that overlap turn `rejected` into `approved`, against the transition table (`DecisionsSettle`);
* calls dearer than their estimate overspend by more than Phase 4, line 632, accepts (`BudgetBound`);
* a static template that was cached comes back with the provider `cache`, without its marker;
* `authorize_publish` connects a revoked target again;
* the gate lets an alias corroborate itself, although the docstring of `citation_detector.py` (12-16) asks for
  corroboration;
* two calls of `start_free_audit` that overlap leave two active tokens, on which later look-ups fail;
* a ready, shared report may fail or be generated again (`OnlyRacesMisreport`);
* a revoked domain can be verified as it is, but not mapped anew, the reverse of Phase 7, lines 265 and 272
  (`DomainMappedOnce`);
* `queries_cited` counts negative mentions too, where Phase 2, section 8.1, counts positive and neutral ones
  (`Cited`);
* a final audit run can be finalised again although Phase 2 calls it immutable (`RowIsSnapshot`).

## 4. Fairness

Only `ContentBriefs` and `LLMGateway` promise progress.  A coroutine whose awaited statement has
returned is resumed by the event loop, and providers have time-outs: weak fairness of what a call
does next (`Advance`).  Waiting for a lock is a guard, and since calls are finitely many, weak
fairness is enough; only in `LLMGateway` may the same counter row be taken again and again while a
call waits, and PostgreSQL queues lock requests: strong fairness of `InsertCounter` and `Increment`.
No request has to arrive, nothing has to fail, no cache entry has to expire, and the clock need not
advance.  In the other modules a call takes at most one row's lock, which its commit or rollback
releases, so an end of every call would say nothing more than their absence of deadlock does.

## 5. What is proved

With `tlapm`, for every value of the constants that satisfies the modules' assumptions (sets of
requests, callers, briefs and so on of any size, finite where something is counted; any budget,
estimate and costs with `Estimate <= Budget`; any scores, limits and weights).  Every invariant and every
action property that a passing run checks is stated by a theorem, and so are the four refinements.
Most of the proofs are laid out alike: what each call knows at each point (`Fit`), that two calls
about to write do not collide (`Apart`), one lemma for a step that only moves a call, one for each
action, and the rest for `Commit`.  Proved and not checked by a run of their own: `EventsFollowCommit`
(`LifecycleKept` has it at the abstract level), `AnnouncedWasCommitted`, the types of `Whitelabel` and
`CitationDetection`, and facts about operators.

`ContentProofs`, the briefs: `TypeCorrect`, `BriefsComplete`, `DecisionsAttributed`,
`RejectionsCarryNotes`, `EventsAreOfCommits`, `DecisionsAreFinal`, and `Refinement` (`Spec => Lifecycle!Spec`).
The inductive invariant adds to the properties what sessions know: a session past its review has a
copy of a complete brief, its own brief and operation, whoever holds a lock is past the step that
takes it, committed requests keep their arguments, and no two generations have the same brief.  The
properties alone are not inductive: that a committed row is complete depends on what the sessions
hold before they commit.

`ContentProofs`, the gateway: `GatewayTypeCorrect`, `BudgetIsBounded`, `CounterMatchesLedgerHolds`.
`BudgetBound` says nothing of the calls under way, so it is not inductive.  `Within(p)` is: what month p
has spent plus one `MaxCost` for every call that may still be charged to p (`Pending(p)`) stays within
`(Budget - Estimate) + Cardinality(Callers) * MaxCost`.  A call joins `Pending(p)` only by a check that
found at most `Budget - Estimate` spent, and there are never more such calls than callers; a commit
moves at most one `MaxCost` from the second term to the first.  `CallShape` and `Untouched` say what
calls at each point and months not yet reached look like, without which a charge could come from
nowhere.  For the counters, `LedgerInv` says that a call is charged to a month exactly when it will leave a
row in the ledger, and that one that has inserted a counter holds its lock and finds nothing counted
there.  A commit then changes one summand and the ledger by the same amount (`SumsChange`).

`AuditProofs`, the runs: `AuditTypeCorrect`, `AnnouncedIsSnapshotHolds`, `RowIsSnapshotHolds`,
`AnnouncedWasCommittedHolds`, and `ScoreNeedsNoClamp`, a fact about the operators (by cardinalities of
nested sets).  The inductive invariant adds what a finalisation knows at each point: the
executions it has read were those of some moment (`Growing`: the sets in `moments` are below the one
there is), their citations are among those it read later (`Reads`), and, once something
has been committed, every column of the row is one of a committed verdict (`Patched`).
`WholeVerdict` (later citations make no difference) and `WholeRow` (a row unchanged since it was loaded is
overwritten whole) turn these into the properties.  The type of the row says that score and completeness lie between 0 and
100 percent.  That is not by the shape of the row: `TInv` adds that no two executions have one identifier,
so that there are no more of them than were planned, and the score is a sum of shares divided by a product
of totals, bounded engine by engine (`ScoreBound`).

`AuditProofs`, the detector: `CitedStaysCited` (a fact about the operators), `MoreSaidStaysCitedHolds`,
`OnlyNearMissesLowerHolds`, `DetectionTypeCorrect`, for every score and any number of words.  `DInv`
says that a response that names a place says its words; the confidences are compared stage by stage.

`MembershipsProofs`: `MembershipsTypeCorrect`, `OneActiveMembershipHolds`, `EveryChangeAuthorisedHolds`,
`OnlyRacesLoseAdminsHolds`.  `MInv` adds that a grant or revocation under way was begun by somebody who
was an admin of its tenant (`WasAdminIn`, which only grows: rows are never deleted), that an insertion about to
be committed has no active rival in the table or among those about to be committed, and that a
revocation of an admin has counted another one (`Revoking`).  The last gives the race: if the tenant has
no admin left afterwards, the one it counted has been revoked since.

`OutboundProofs`, publishing: `PublishingTypeCorrect`, `PublishIdempotentHolds` (the refinement of
`IdempotentCreate`), `PublicationRememberedHolds`, `FirstVerificationKeptHolds`.  `PInv` adds that an
attempt about to be committed has a key that no row and no other open insertion has, that what an attempt
names is among the successes recorded (`Named`), and that a listing being created is not there yet.

`OutboundProofs`, notifications: `NotificationsTypeCorrect`, `CapBoundHolds`, `StatusFollowsLogHolds`,
`SilenceKeptHolds`, `QueuedOnceHolds` (again a refinement of `IdempotentCreate`).  `NInv` adds what the caps
need, in the manner of `BudgetBound`: the notifications of a day and a class, plus the calls that may still
add one (`MayAdd`: past the count, which was on that day or before it, and not yet committed), are at most
the limit less one and the number of workers.  A call joins them only by a count below the limit; it may wait
over midnight, which is why a call past its count may add to any later day.  For the status,
who has logged a report holds the notification's lock, so that the state it commits and the last entry of
the log are of one report (`Holding`, `CallFits`).

`BusinessesProofs`: `BusinessesTypeCorrect`, `SingletonKeptHolds`, `DeletedIsFinalHolds`,
`OnlyRacesMisscoreHolds`.  `BInv` adds that who has passed the trigger for a direct tenant holds its
lock and found no other business, so two never have.  `SInv` adds for a call that has computed a score,
and was not overtaken, that the stored name is its copy's and the stored aliases are those it listed;
overtaken or not, it counts aliases that are stored by the time it commits (`Counts`).

`ReportsProofs`: `ReportsTypeCorrect`, `ReadyIsGroundedHolds`, `OnlyRacesMisreportHolds`,
`ClaimKeptHolds`.  `RInv` adds that what a finalisation was shown is among the queries its run has lost,
which only grow (`SettlesOne`), that the wins it will write are then sound whichever of the answers,
the retry or the fallback they came from, that a report once ready or shared keeps its wins (`WinsSound`),
and that a call that was not overtaken has the status the report is in.  A claim is kept because
who overwrites it was already under way when the first was committed (`Claiming`).

`WhitelabelProofs`: `WhitelabelTypeCorrect`, `NoChangeLostHolds`, `CountsAddUpHolds`, `OneMappingHolds`,
and `DomainMappedOnceHolds`, the refinement of `IdempotentCreate` that follows from it.  `WInv` adds that a tenant has one configuration, that a call
that has inserted its row finds no other of the unique value, that no two such calls share it, and
that a tenant without a configuration has been given no column yet.  For imports, `ProcessRowsCounts` is the
loop invariant: after n rows the keys seen are those among the first n, `succeeded` their number and
`failed` that of the bad ones (`CountedNext` is the step).  `JInv` says that every job is that of some rows.

`FoldTheorems`: the library's induction theorems take an operator as a parameter and cannot be used.
What is needed of them is proved for sets instead: every non-empty set of naturals has a least
element (`LeastNatural`), a set of subsets closed under adding an element holds them all
(`SubsetsInduction`), and a set of numbers closed under the successor holds all up to a bound
(`UpToInduction`).  From these: the function that the community modules choose for a fold exists
(`FoldExists`), a sum over a finite set has the type and bounds of its summands and changes by what one of them
changes by (`SumsType`, `SumsBound`, `SumsChange`), and a product of positive numbers is positive.

Only model-checked: the two liveness properties, `EveryRequestEnds` and `EveryCallEnds`, with the fairness
they rest on (`ENABLED` is outside what the prover does), absence of deadlock, and of course the two violated
properties.  Not proved anywhere, and bounded only by the runs: that the guards of the modules leave
no reachable state out, which is what deadlock checking and the fired actions show.

## 6. Plan

1. `Recrawl`, once something starts the runs it schedules: `compute_next_run` (later than now, within a
   week, at the asked slot; it compares a local hour with the clock in UTC) and `record_run_complete` racing
   `update_schedule`.
2. A composition of `Reports` with `AuditRuns` over the executions a report is grounded in, now an
   environment action (`RecordExecution`), with the theorem that a report's wins name queries of a
   final run.

## 7. What is not modelled, and why

* Validators, Markdown, PDF, query templates, sanitising, snippets and polarity of citations: functions of text
  whose results no modelled state depends on.
* Adapters of engines and channels, the token vault, authentication: external services and
  cryptography; their answers are choices of the model.
* The connection pool, and the policies of row-level security, which do not bind the repository's own role
  (section 2).
* Temporal workflows: stubs.
* Ops: `check_quota` compares two numbers it is given and appends to a log, and only its route calls it;
  grace extensions, impersonations and status components are rows inserted or overwritten without a condition.
* Recrawl schedules and citation deltas: one row overwritten, rows inserted; nothing under `src/` reads them to act.
* Theme assets, sender domains, leak reports, verification polls, `update_tenant`, users from the auth
  provider, `record_bounce` (no other operation reads its table): rows written without a condition on what is stored.

Observations that no run of its own is spent on: a free audit whose run is finalised again reports
`report_ready` and may take it back; `flush_events` is not called by the publishing,
notification and membership routers, so those events are never published; `has_role` raises for a
user with two of the asked roles (`update_tenant`); nothing keeps two targets of the same channel or two listings
of the same directory apart, although Phase 5 has a unique key for the latter; a repeated
`schedule_verification_polls` schedules every poll twice; `count_active_admins` counts
business owners, who cannot manage members.
