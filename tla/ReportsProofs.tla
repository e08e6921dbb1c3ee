------------------------------ MODULE ReportsProofs ------------------------------
(***************************************************************************)
(* Reports, share links and tokens under any number of overlapping calls,  *)
(* for any runs and queries: types, quick wins that stay grounded, what    *)
(* the callers of a settled report are told, and claims that are kept.     *)
(***************************************************************************)
EXTENDS Reports, FiniteSetTheorems, TLAPS

Settling == {"finalise", "fail"}

\* Quick wins that are grounded in the run they were generated from, for the lost queries lst.
Sound(wins, lst) ==
    /\ wins # None /\ wins.count = 3
    /\ wins.blind \/ wins.targets \subseteq lst[wins.run]

\* A call that settles a report has loaded one; while no other has settled it since, the copy
\* has the status it is in.  What finalise_report is shown and writes is of the run it was given.
SettlesOne(c, rep, lst) ==
    /\ c.id \in Ids /\ rep[c.id] # NoReport /\ c.copy \in ReportStates
    /\ ~c.overtaken => c.copy = rep[c.id].status
    /\ c.op = "finalise" => /\ c.run \in Runs /\ c.shown \subseteq lst[c.run]
                            /\ c.pc \in {"write", "commit"} => Sound(c.wins, lst)

\* What c may be as the call of r, for the reports rep, the links lk, the lost queries lst and
\* the calls over that have ended.
Fit(r, c, rep, lk, lst, over) ==
    c.pc \in OpenPoints =>
        /\ c.op \in Ops
        /\ c.pc = "insert" => c.op = "create"
        /\ c.pc \in {"context", "generate"} => c.op = "finalise"
        /\ c.pc = "write" => c.op \in Settling \union {"revoke", "view", "claim"}
        /\ c.op = "create" => c.run \in Runs
        /\ c.op \in Settling => SettlesOne(c, rep, lst)
        /\ c.op = "share" => c.id \in Ids /\ rep[c.id].wins # None
        /\ c.op \in {"revoke", "view"} => c.id \in Requests /\ lk[c.id] # NoLink
        /\ c.op = "claim" => c.id \in Requests /\ c.id \in over

Ended == {r \in Requests : call[r].pc = "done"}

\* What a call makes is not there before it ends.
NothingYet ==
    \A r \in Requests : call[r].pc # "done" =>
        report[r] = NoReport /\ link[r] = NoLink /\ token[r] = NoToken

\* Whatever quick wins a report has are sound, and it has some when it is ready or shared.
WinsSound ==
    \A i \in Ids :
        /\ report[i].wins # None => Sound(report[i].wins, lost)
        /\ report[i].status = "ready" => report[i].wins # None
        /\ (\E l \in Requests : link[l].report = i) => report[i].wins # None

\* A view of a link is counted by a call that ends.
ViewsCounted == \A l \in Requests : link[l].views <= Cardinality(Ended)

NobodyToldYet == \A i \in Ids : report[i] = NoReport => told[i] = None

RInv ==
    /\ TypeOK /\ NothingYet /\ WinsSound /\ ViewsCounted /\ NobodyToldYet
    /\ OnlyRacesMisreport
    /\ \A r \in Requests : Fit(r, call[r], report, link, lost, Ended)

-------------------------------------------------------------------------------
(* Calls, and the calls that have ended.                                    *)

LEMMA NewCallIsACall ==
    /\ NewCall \in Calls /\ NewCall.pc = "new"
    /\ Over \in Calls /\ Over.pc = "done"
BY DEF NewCall, Over, Calls, OpenPoints

LEMMA OverFits ==
    ASSUME NEW r, NEW rep, NEW lk, NEW lst, NEW over
    PROVE  Fit(r, Over, rep, lk, lst, over)
BY NewCallIsACall DEF Fit, OpenPoints

\* Queries are only lost, calls only end.
LEMMA SoundGrows ==
    ASSUME NEW wins \in Wins \union {None}, NEW lst, NEW lst2, Sound(wins, lst),
           \A u \in Runs : lst[u] \subseteq lst2[u]
    PROVE  Sound(wins, lst2)
<1>1. wins.run \in Runs
  BY DEF Sound, Wins
<1>2. lst[wins.run] \subseteq lst2[wins.run]
  BY <1>1
<1> QED
  BY <1>2 DEF Sound

LEMMA FitGrows ==
    ASSUME NEW r, NEW c \in Calls, NEW rep, NEW lk, NEW lst, NEW over, NEW lst2, NEW over2,
           Fit(r, c, rep, lk, lst, over), over \subseteq over2,
           \A u \in Runs : lst[u] \subseteq lst2[u]
    PROVE  Fit(r, c, rep, lk, lst2, over2)
<1>1. ASSUME c.op \in Settling, SettlesOne(c, rep, lst)
      PROVE  SettlesOne(c, rep, lst2)
  <2>1. Sound(c.wins, lst) => Sound(c.wins, lst2)
    BY SoundGrows DEF Calls
  <2>2. c.op = "finalise" => c.shown \subseteq lst2[c.run]
    BY <1>1 DEF SettlesOne
  <2> QED
    BY <1>1, <2>1, <2>2 DEF SettlesOne
<1> QED
  BY <1>1 DEF Fit

LEMMA EndedIsFinite ==
    /\ IsFiniteSet(Ended) /\ Cardinality(Ended) \in Nat
    /\ Cardinality(Requests) \in Nat /\ Cardinality(Ended) <= Cardinality(Requests)
BY ReportsAssumption, FS_Subset, FS_CardinalityType DEF Ended

\* The call of r, which was under way, ends, and no other's call changes its point.
LEMMA OneMoreEnded ==
    ASSUME NEW r \in Requests, call[r].pc # "done", call'[r].pc = "done",
           \A o \in Requests \ {r} : call'[o].pc = call[o].pc
    PROVE  /\ Ended' = Ended \union {r}
           /\ Cardinality(Ended') = Cardinality(Ended) + 1
<1>1. Ended' = Ended \union {r} /\ r \notin Ended
  BY DEF Ended
<1> QED
  BY <1>1, EndedIsFinite, FS_AddElement

-------------------------------------------------------------------------------
(* The invariant.                                                           *)

LEMMA InitEstablishesRInv == Init => RInv
<1> SUFFICES ASSUME Init PROVE RInv
  OBVIOUS
<1>1. PICK ready \in SUBSET Seeds :
        /\ report = [i \in Ids |-> IF i \in Seeds THEN SeedReport(i, i \in ready) ELSE NoReport]
        /\ told = [i \in Ids |-> IF i \in ready THEN "ready" ELSE None]
  BY DEF Init
<1> DEFINE wins(i) == [count |-> 3, targets |-> {}, run |-> RunOf[i], blind |-> TRUE]
<1>2. \A i \in Seeds : wins(i) \in Wins /\ wins(i) # None /\ Sound(wins(i), lost)
  <2>1. \A i \in Seeds : wins(i) \in Wins
    BY ReportsAssumption DEF Wins
  <2> QED
    BY <2>1, NoneIsNothingElse DEF Sound
<1>3. ASSUME NEW i \in Seeds
      PROVE  /\ report[i] \in ReportRows /\ report[i] # NoReport
             /\ i \in ready => report[i].status = "ready" /\ report[i].wins = wins(i)
             /\ i \notin ready => report[i].status = "generating" /\ report[i].wins = None
  <2>1. report[i] = SeedReport(i, i \in ready)
    BY <1>1 DEF Ids
  <2>2. RunOf[i] \in Runs /\ RunOf[i] # None
    BY ReportsAssumption
  <2>3. report[i].run = RunOf[i] /\ report[i] # NoReport
    BY <2>1, <2>2 DEF SeedReport, NoReport
  <2>4. CASE i \in ready
    <3>1. report[i] = [run |-> RunOf[i], status |-> "ready", wins |-> wins(i)]
      BY <2>1, <2>4 DEF SeedReport
    <3> QED
      BY <1>2, <2>2, <2>3, <2>4, <3>1 DEF ReportRows, ReportStates
  <2>5. CASE i \notin ready
    <3>1. report[i] = [run |-> RunOf[i], status |-> "generating", wins |-> None]
      BY <2>1, <2>5 DEF SeedReport
    <3> QED
      BY <2>2, <2>3, <2>5, <3>1 DEF ReportRows, ReportStates
  <2> QED
    BY <2>3, <2>4, <2>5
<1>4. \A i \in Ids : i \notin Seeds => report[i] = NoReport
  BY <1>1
<1>5. \A i \in Ids : told[i] = IF i \in ready THEN "ready" ELSE None
  BY <1>1
<1>6. TypeOK
  <2>1. report \in [Ids -> ReportRows \union {NoReport}]
    BY <1>1, <1>3, <1>4
  <2>2. told \in [Ids -> {"ready", "failed", None}]
    BY <1>1
  <2>3. NoToken \in TokenRows
    BY DEF NoToken, TokenRows
  <2> QED
    BY <2>1, <2>2, <2>3, NewCallIsACall DEF Init, TypeOK
<1>7. \A r \in Requests : call[r] = NewCall /\ link[r] = NoLink /\ token[r] = NoToken
  BY DEF Init
<1>8. NothingYet
  BY <1>4, <1>7, ReportsAssumption DEF NothingYet, Ids
<1>9. WinsSound
  <2>1. \A i \in Ids, l \in Requests : link[l].report # i
    BY <1>7, ReportsAssumption DEF NoLink, Ids
  <2>2. ASSUME NEW i \in Ids
        PROVE  /\ report[i].wins # None => Sound(report[i].wins, lost)
               /\ report[i].status = "ready" => report[i].wins # None
    <3>1. CASE i \in Seeds
      BY <1>2, <1>3, <3>1 DEF Sound
    <3>2. CASE i \notin Seeds
      BY <1>4, <3>2, NoneIsNothingElse DEF NoReport, ReportStates
    <3> QED
      BY <3>1, <3>2
  <2> QED
    BY <2>1, <2>2 DEF WinsSound
<1>10. ViewsCounted
  BY <1>7, EndedIsFinite DEF ViewsCounted, NoLink
<1>11. NobodyToldYet
  BY <1>3, <1>5 DEF NobodyToldYet
<1>12. OnlyRacesMisreport
  BY <1>3, <1>5 DEF OnlyRacesMisreport
<1>13. \A r \in Requests : Fit(r, call[r], report, link, lost, Ended)
  BY <1>7, NewCallIsACall DEF Fit, OpenPoints
<1> QED
  BY <1>6, <1>8, <1>9, <1>10, <1>11, <1>12, <1>13 DEF RInv

\* A step that moves one call, and no row but, perhaps, locks.
LEMMA CallStep ==
    ASSUME RInv, NEW r \in Requests, NEW c \in Calls, call[r].pc # "done",
           call' = [call EXCEPT ![r] = c], UNCHANGED <<lost, rows, history>>,
           lock' \in [Ids -> Requests \union {None}],
           Fit(r, c, report, link, lost, Ended)
    PROVE  RInv'
<1>1. TypeOK'
  BY DEF RInv, TypeOK, rows, history
<1>2. \A o \in Requests : call'[o] = IF o = r THEN c ELSE call[o]
  BY DEF RInv, TypeOK
<1>3. NothingYet'
  BY <1>2 DEF RInv, NothingYet, rows
<1>4. WinsSound' /\ NobodyToldYet' /\ OnlyRacesMisreport'
  BY DEF RInv, WinsSound, NobodyToldYet, OnlyRacesMisreport, rows, history
<1>5. Ended \subseteq Ended'
  BY <1>2 DEF Ended
<1>6. Cardinality(Ended) <= Cardinality(Ended') /\ Cardinality(Ended') \in Nat
  <2>1. Ended' \subseteq Requests
    BY DEF Ended
  <2> QED
    BY <1>5, <2>1, ReportsAssumption, FS_Subset, FS_CardinalityType
<1>7. ViewsCounted'
  <2> SUFFICES ASSUME NEW l \in Requests PROVE link[l].views <= Cardinality(Ended')
    BY DEF ViewsCounted, rows
  <2>1. link[l].views \in Nat /\ link[l].views <= Cardinality(Ended)
    BY DEF RInv, TypeOK, LinkRows, NoLink, ViewsCounted
  <2> QED
    BY <1>6, <2>1, EndedIsFinite
<1>8. \A o \in Requests : Fit(o, call'[o], report', link', lost', Ended')
  <2> SUFFICES ASSUME NEW o \in Requests
               PROVE  Fit(o, call'[o], report, link, lost, Ended')
    BY DEF rows
  <2>1. Fit(o, call'[o], report, link, lost, Ended)
    BY <1>2 DEF RInv
  <2> QED
    BY <1>5, <2>1, FitGrows DEF RInv, TypeOK
<1> QED
  BY <1>1, <1>3, <1>4, <1>7, <1>8 DEF RInv

-------------------------------------------------------------------------------
(* The beginnings of calls.                                                 *)

LEMMA BeginStep ==
    ASSUME RInv, NEW r \in Requests, NEW op \in {"share", "revoke", "view", "start", "claim"},
           NEW i \in Ids, NEW pc \in {"write", "commit"}, Begin(r, op, i, pc),
           pc = "write" => op \in {"revoke", "view", "claim"},
           op = "share" => report[i].wins # None,
           op \in {"revoke", "view"} => i \in Requests /\ link[i] # NoLink,
           op = "claim" => i \in Ended
    PROVE  RInv'
<1>1. PICK c : c = [NewCall EXCEPT !.pc = pc, !.op = op, !.id = i]
  OBVIOUS
<1>2. c \in Calls /\ c.pc = pc /\ c.op = op /\ c.id = i
  BY <1>1 DEF NewCall, Calls, Ops, OpenPoints
<1>3. call[r].pc = "new" /\ call' = [call EXCEPT ![r] = c] /\ UNCHANGED <<lost, rows, lock, history>>
  BY <1>1 DEF Begin
<1>4. Fit(r, c, report, link, lost, Ended)
  BY <1>2 DEF Fit, Settling, Ops, Ended
<1> QED
  BY <1>2, <1>3, <1>4, CallStep DEF RInv, TypeOK

\* A call that will insert a report or a token of a run.
LEMMA InsertionStep ==
    ASSUME RInv, NEW r \in Requests, NEW u \in Runs, call[r].pc = "new",
           NEW op \in {"create", "submit"}, NEW pc \in {"insert", "commit"},
           pc = "insert" => op = "create",
           call' = [call EXCEPT ![r] = [NewCall EXCEPT !.pc = pc, !.op = op,
                                                       !.id = r, !.run = u]],
           UNCHANGED <<lost, rows, lock, history>>
    PROVE  RInv'
<1>1. PICK c : c = [NewCall EXCEPT !.pc = pc, !.op = op, !.id = r, !.run = u]
  OBVIOUS
<1>2. c \in Calls /\ c.pc = pc /\ c.op = op /\ c.run = u
  BY <1>1 DEF NewCall, Calls, Ops, OpenPoints, Ids
<1>3. Fit(r, c, report, link, lost, Ended)
  BY <1>2 DEF Fit, Settling, Ops
<1> QED
  BY <1>1, <1>2, <1>3, CallStep DEF RInv, TypeOK

LEMMA SettleStep ==
    ASSUME RInv, NEW r \in Requests, NEW i \in Ids, NEW op \in Settling,
           NEW pc \in {"context", "write", "commit"}, NEW u \in Runs \union {None},
           Settle(r, i, u, op, pc), op = "finalise" <=> pc = "context",
           op = "finalise" => u \in Runs
    PROVE  RInv'
<1>1. PICK c : c = [NewCall EXCEPT !.pc = pc, !.op = op, !.id = i, !.run = u,
                                   !.copy = report[i].status]
  OBVIOUS
<1>2. report[i] # NoReport /\ report[i] \in ReportRows
  BY DEF RInv, TypeOK, Settle
<1>3. /\ c \in Calls /\ c.pc = pc /\ c.op = op /\ c.id = i /\ c.copy = report[i].status
      /\ c.run = u /\ c.shown = {} /\ c.copy \in ReportStates
  BY <1>1, <1>2 DEF NewCall, Calls, OpenPoints, Settling, Ops, ReportRows
<1>4. call[r].pc = "new" /\ call' = [call EXCEPT ![r] = c] /\ UNCHANGED <<lost, rows, lock, history>>
  BY <1>1 DEF Settle
<1>5. Fit(r, c, report, link, lost, Ended)
  BY <1>2, <1>3 DEF Fit, SettlesOne, Settling, Ops
<1> QED
  BY <1>3, <1>4, <1>5, CallStep DEF RInv, TypeOK

LEMMA EndStep ==
    ASSUME RInv, NEW r \in Requests, call[r].pc # "done", call' = [call EXCEPT ![r] = Over],
           UNCHANGED <<lost, rows, history>>, lock' \in [Ids -> Requests \union {None}]
    PROVE  RInv'
BY CallStep, OverFits, NewCallIsACall

LEMMA RollbackKeepsRInv ==
    ASSUME RInv, NEW r \in Requests, Rollback(r)
    PROVE  RInv'
<1>1. lock' \in [Ids -> Requests \union {None}]
  BY DEF Rollback, RInv, TypeOK
<1>2. call[r].pc # "done"
  BY DEF Rollback, InTransaction, OpenPoints
<1> QED
  BY <1>1, <1>2, EndStep DEF Rollback

LEMMA StartKeepsRInv ==
    ASSUME RInv, NEW r \in Requests, Start(r)
    PROVE  RInv'
<1>1. CASE CreateReport(r)
  BY <1>1, InsertionStep DEF CreateReport
<1>2. CASE FinaliseReport(r)
  BY <1>2, SettleStep DEF FinaliseReport, Settling
<1>3. CASE MarkReportFailed(r)
  <2>1. PICK i \in Ids : 
        Settle(r, i, None, "fail", IF report[i].status = "failed" THEN "commit" ELSE "write")
    BY <1>3 DEF MarkReportFailed
  <2>2. (IF report[i].status = "failed" THEN "commit" ELSE "write") \in {"context", "write", "commit"}
    OBVIOUS
  <2> QED
    BY <2>1, <2>2, SettleStep DEF Settling
<1>4. CASE CreateShareLink(r)
  <2>1. PICK i \in Ids : report[i].status = "ready" /\ Begin(r, "share", i, "commit")
    BY <1>4 DEF CreateShareLink
  <2>2. report[i].wins # None
    BY <2>1 DEF RInv, WinsSound
  <2> QED
    BY <2>1, <2>2, BeginStep
<1>5. CASE RevokeShareLink(r)
  <2>1. PICK l \in Requests : link[l] # NoLink /\ Begin(r, "revoke", l, "write")
    BY <1>5 DEF RevokeShareLink
  <2> QED
    BY <2>1, BeginStep DEF Ids
<1>6. CASE ViewSharedReport(r)
  <2>1. PICK l \in Requests : link[l] # NoLink /\ Begin(r, "view", l, "write")
    BY <1>6 DEF ViewSharedReport
  <2> QED
    BY <2>1, BeginStep DEF Ids
<1>7. CASE Submit(r)
  BY <1>7, InsertionStep DEF Submit
<1>8. CASE StartFreeAudit(r)
  <2>1. CASE ActiveTokens = {}
    <3>1. Begin(r, "start", r, "commit")
      BY <1>8, <2>1 DEF StartFreeAudit
    <3> QED
      BY <3>1, BeginStep DEF Ids
  <2>2. CASE ActiveTokens # {}
    BY <1>8, <2>2, EndStep DEF StartFreeAudit, RInv, TypeOK
  <2> QED
    BY <2>1, <2>2
<1>9. CASE Claim(r)
  <2>1. PICK k \in Requests : Claimable(k) /\ Begin(r, "claim", k, "write")
    BY <1>9 DEF Claim
  <2>2. token[k] # NoToken
    BY <2>1 DEF Claimable, NoToken
  <2>3. k \in Ended
    BY <2>2 DEF RInv, NothingYet, Ended
  <2> QED
    BY <2>1, <2>3, BeginStep DEF Ids
<1> QED
  BY <1>1, <1>2, <1>3, <1>4, <1>5, <1>6, <1>7, <1>8, <1>9 DEF Start

-------------------------------------------------------------------------------
(* Statements.                                                              *)

LEMMA InsertReportKeepsRInv ==
    ASSUME RInv, NEW r \in Requests, InsertReport(r)
    PROVE  RInv'
<1>1. /\ call[r] \in Calls /\ call[r].pc = "insert" /\ call[r].op = "create"
      /\ Fit(r, call[r], report, link, lost, Ended)
      /\ UNCHANGED <<lost, rows, lock, history>>
  BY DEF RInv, TypeOK, InsertReport
<1>2. CASE \E i \in Ids : report[i].run = call[r].run
  <2>1. call' = [call EXCEPT ![r] = Over]
    BY <1>2 DEF InsertReport
  <2> QED
    BY <1>1, <2>1, EndStep DEF RInv, TypeOK
<1>3. CASE ~\E i \in Ids : report[i].run = call[r].run
  <2>1. PICK c : c = [call[r] EXCEPT !.pc = "commit"]
    OBVIOUS
  <2>2. call' = [call EXCEPT ![r] = c]
    BY <1>3, <2>1 DEF InsertReport, RInv, TypeOK
  <2>3. c \in Calls /\ c.pc = "commit" /\ c.op = "create" /\ c.run = call[r].run
    BY <1>1, <2>1 DEF Calls, OpenPoints
  <2>4. Fit(r, c, report, link, lost, Ended)
    BY <1>1, <2>3 DEF Fit, Settling, OpenPoints
  <2> QED
    BY <1>1, <2>2, <2>3, <2>4, CallStep DEF RInv, TypeOK
<1> QED
  BY <1>2, <1>3

LEMMA BuildAuditContextKeepsRInv ==
    ASSUME RInv, NEW r \in Requests, BuildAuditContext(r)
    PROVE  RInv'
<1>1. /\ call[r] \in Calls /\ call[r].pc = "context"
      /\ Fit(r, call[r], report, link, lost, Ended)
      /\ UNCHANGED <<lost, rows, lock, history>>
  BY DEF RInv, TypeOK, BuildAuditContext
<1>2. call[r].op = "finalise" /\ SettlesOne(call[r], report, lost)
  BY <1>1 DEF Fit, OpenPoints, Settling
<1>3. PICK shown : shown = lost[call[r].run]
  OBVIOUS
<1>4. call[r].run \in Runs /\ shown \subseteq Queries
  BY <1>2, <1>3 DEF RInv, TypeOK, SettlesOne
<1>5. PICK c : c = [call[r] EXCEPT !.pc = "generate", !.shown = shown]
  OBVIOUS
<1>6. call' = [call EXCEPT ![r] = c]
  BY <1>3, <1>5 DEF BuildAuditContext, RInv, TypeOK
<1>7. /\ c \in Calls /\ c.pc = "generate" /\ c.op = "finalise" /\ c.shown = shown
      /\ c.id = call[r].id /\ c.copy = call[r].copy /\ c.overtaken = call[r].overtaken
      /\ c.run = call[r].run
  BY <1>1, <1>2, <1>4, <1>5 DEF Calls, OpenPoints
<1>8. Fit(r, c, report, link, lost, Ended)
  BY <1>2, <1>3, <1>7 DEF Fit, SettlesOne, Settling, Ops, OpenPoints
<1> QED
  BY <1>1, <1>6, <1>7, <1>8, CallStep DEF RInv, TypeOK

\* Whether the LLM's answer is accepted or the fallback is taken, the wins are grounded in what
\* the generator was shown.
LEMMA GeneratedIsSound ==
    ASSUME NEW shown \in SUBSET Queries, NEW u \in Runs, NEW lst, shown \subseteq lst[u],
           NEW w \in {a \in Answers : Accepts(a, shown)} \union Fallbacks(shown),
           NEW wins,
           wins = [count |-> w.count, targets |-> w.targets, run |-> u, blind |-> shown = {}]
    PROVE  wins \in Wins /\ Sound(wins, lst)
<1>1. w.count = 3 /\ w.targets \subseteq Queries /\ (shown = {} \/ w.targets \subseteq shown)
  <2>1. CASE w \in Answers /\ Accepts(w, shown)
    BY <2>1 DEF Answers, Accepts
  <2>2. CASE w \in Fallbacks(shown)
    BY <2>2 DEF Fallbacks
  <2> QED
    BY <2>1, <2>2
<1>2. wins \in Wins
  BY <1>1, ReportsAssumption DEF Wins
<1>3. wins # None
  BY <1>2, NoneIsNothingElse
<1> QED
  BY <1>1, <1>2, <1>3 DEF Sound

LEMMA GenerateWinsKeepsRInv ==
    ASSUME RInv, NEW r \in Requests, GenerateWins(r)
    PROVE  RInv'
<1> DEFINE shown == call[r].shown
<1>1. /\ call[r] \in Calls /\ call[r].pc = "generate" /\ shown \in SUBSET Queries
      /\ Fit(r, call[r], report, link, lost, Ended)
      /\ UNCHANGED <<lost, rows, lock, history>>
  BY DEF RInv, TypeOK, GenerateWins, Calls
<1>2. call[r].op = "finalise" /\ SettlesOne(call[r], report, lost)
  BY <1>1 DEF Fit, OpenPoints, Settling
<1>3. PICK w \in {a \in Answers : Accepts(a, shown)} \union Fallbacks(shown) :
        call' = [call EXCEPT
                    ![r].pc = "write", ![r].shown = {},
                    ![r].wins = [count |-> w.count, targets |-> w.targets,
                                 run |-> call[r].run, blind |-> shown = {}]]
  BY DEF GenerateWins
<1>4. PICK wins : wins = [count |-> w.count, targets |-> w.targets, run |-> call[r].run,
                          blind |-> shown = {}]
  OBVIOUS
<1>5. call[r].run \in Runs /\ shown \subseteq lost[call[r].run]
  BY <1>2 DEF SettlesOne
<1>6. wins \in Wins /\ Sound(wins, lost)
  BY <1>1, <1>4, <1>5, GeneratedIsSound
<1>7. PICK c : c = [call[r] EXCEPT !.pc = "write", !.shown = {}, !.wins = wins]
  OBVIOUS
<1>8. call' = [call EXCEPT ![r] = c]
  BY <1>3, <1>4, <1>7 DEF RInv, TypeOK
<1>9. /\ c \in Calls /\ c.pc = "write" /\ c.op = "finalise" /\ c.shown = {} /\ c.wins = wins
      /\ c.id = call[r].id /\ c.copy = call[r].copy /\ c.overtaken = call[r].overtaken
      /\ c.run = call[r].run
  BY <1>1, <1>2, <1>6, <1>7 DEF Calls, OpenPoints
<1>10. Fit(r, c, report, link, lost, Ended)
  BY <1>2, <1>5, <1>6, <1>9 DEF Fit, SettlesOne, Settling, Ops, OpenPoints
<1> QED
  BY <1>1, <1>8, <1>9, <1>10, CallStep DEF RInv, TypeOK

LEMMA UpdateKeepsRInv ==
    ASSUME RInv, NEW r \in Requests, Update(r)
    PROVE  RInv'
<1>1. /\ call[r] \in Calls /\ call[r].pc = "write"
      /\ Fit(r, call[r], report, link, lost, Ended)
      /\ UNCHANGED <<lost, rows, history>>
  BY DEF RInv, TypeOK, Update
<1>2. lock' \in [Ids -> Requests \union {None}]
  BY DEF RInv, TypeOK, Update
<1>3. PICK c : c = [call[r] EXCEPT !.pc = "commit"]
  OBVIOUS
<1>4. call' = [call EXCEPT ![r] = c]
  BY <1>3 DEF Update, RInv, TypeOK
<1>5. /\ c \in Calls /\ c.pc = "commit" /\ c.op = call[r].op /\ c.shown = call[r].shown
      /\ c.wins = call[r].wins /\ c.id = call[r].id /\ c.copy = call[r].copy
      /\ c.overtaken = call[r].overtaken /\ c.run = call[r].run
  BY <1>1, <1>3 DEF Calls, OpenPoints
<1>6. Fit(r, c, report, link, lost, Ended)
  BY <1>1, <1>5 DEF Fit, SettlesOne, Settling, OpenPoints
<1> QED
  BY <1>1, <1>2, <1>4, <1>5, <1>6, CallStep DEF RInv, TypeOK

-------------------------------------------------------------------------------
(* What happens elsewhere.                                                  *)

LEMMA RecordExecutionKeepsRInv ==
    ASSUME RInv, NEW u \in Runs, RecordExecution(u)
    PROVE  RInv'
<1>1. PICK q \in Queries : lost' = [lost EXCEPT ![u] = @ \union {q}]
  BY DEF RecordExecution
<1>2. UNCHANGED <<rows, lock, call, history>> /\ UNCHANGED Ended
  BY DEF RecordExecution, Ended
<1>3. lost' \in [Runs -> SUBSET Queries] /\ \A v \in Runs : lost[v] \subseteq lost'[v]
  BY <1>1 DEF RInv, TypeOK
<1>4. TypeOK' /\ NothingYet' /\ ViewsCounted' /\ NobodyToldYet' /\ OnlyRacesMisreport'
  BY <1>2, <1>3 DEF RInv, TypeOK, NothingYet, ViewsCounted, NobodyToldYet, OnlyRacesMisreport,
                    rows, history
<1>5. WinsSound'
  <2> SUFFICES ASSUME NEW i \in Ids, report[i].wins # None
               PROVE  Sound(report[i].wins, lost')
    BY <1>2 DEF RInv, WinsSound, rows
  <2>1. Sound(report[i].wins, lost)
    BY DEF RInv, WinsSound
  <2>2. report[i].wins \in Wins \union {None}
    BY DEF RInv, TypeOK, NoReport, ReportRows
  <2> QED
    BY <1>3, <2>1, <2>2, SoundGrows
<1>6. \A o \in Requests : Fit(o, call'[o], report', link', lost', Ended')
  <2> SUFFICES ASSUME NEW o \in Requests
               PROVE  Fit(o, call[o], report, link, lost', Ended)
    BY <1>2 DEF rows
  <2> QED
    BY <1>3, FitGrows DEF RInv, TypeOK
<1> QED
  BY <1>4, <1>5, <1>6 DEF RInv

LEMMA LinkExpiresKeepsRInv ==
    ASSUME RInv, NEW l \in Requests, LinkExpires(l)
    PROVE  RInv'
<1>1. /\ link[l] # NoLink /\ link' = [link EXCEPT ![l].expired = TRUE]
      /\ UNCHANGED <<lost, report, token, lock, call, history>> /\ UNCHANGED Ended
  BY DEF LinkExpires, Ended
<1>2. link[l] \in LinkRows /\ link[l].report \in Ids
  BY <1>1 DEF RInv, TypeOK, LinkRows
<1>3. /\ link'[l] \in LinkRows /\ link'[l].report = link[l].report /\ link'[l].views = link[l].views
      /\ \A m \in Requests \ {l} : link'[m] = link[m]
  BY <1>1, <1>2 DEF RInv, TypeOK, LinkRows
<1>4. link' \in [Requests -> LinkRows \union {NoLink}]
  BY <1>1, <1>3 DEF RInv, TypeOK
<1>5. link'[l] # NoLink /\ call[l].pc = "done"
  <2>1. None \notin Ids
    BY ReportsAssumption DEF Ids
  <2> QED
    BY <1>1, <1>2, <1>3, <2>1 DEF NoLink, RInv, NothingYet
<1>6. TypeOK' /\ NothingYet' /\ NobodyToldYet' /\ OnlyRacesMisreport'
  BY <1>1, <1>3, <1>4, <1>5 DEF RInv, TypeOK, NothingYet, NobodyToldYet, OnlyRacesMisreport, history
<1>7. WinsSound' /\ ViewsCounted'
  BY <1>1, <1>3 DEF RInv, WinsSound, ViewsCounted
<1>8. \A o \in Requests : Fit(o, call'[o], report', link', lost', Ended')
  BY <1>1, <1>3, <1>5 DEF RInv, Fit
<1> QED
  BY <1>6, <1>7, <1>8 DEF RInv

LEMMA TokenExpiresKeepsRInv ==
    ASSUME RInv, NEW k \in Requests, TokenExpires(k)
    PROVE  RInv'
<1>1. /\ token[k].live /\ token' = [token EXCEPT ![k].live = FALSE]
      /\ UNCHANGED <<lost, report, link, lock, call, history>> /\ UNCHANGED Ended
  BY DEF TokenExpires, Ended
<1>2. token' \in [Requests -> TokenRows]
  BY <1>1 DEF RInv, TypeOK, TokenRows
<1>3. call[k].pc = "done" /\ \A m \in Requests \ {k} : token'[m] = token[m]
  BY <1>1 DEF RInv, TypeOK, NothingYet, NoToken
<1>4. TypeOK' /\ NothingYet' /\ NobodyToldYet' /\ OnlyRacesMisreport'
  BY <1>1, <1>2, <1>3 DEF RInv, TypeOK, NothingYet, NobodyToldYet, OnlyRacesMisreport, history
<1>5. WinsSound' /\ ViewsCounted'
  BY <1>1 DEF RInv, WinsSound, ViewsCounted
<1>6. \A o \in Requests : Fit(o, call'[o], report', link', lost', Ended')
  BY <1>1 DEF RInv
<1> QED
  BY <1>4, <1>5, <1>6 DEF RInv

-------------------------------------------------------------------------------
(* Commits.                                                                 *)

\* The call o settles the report that c does.
Overlaps(o, c) == c.op \in Settling /\ call[o].id = c.id /\ call[o].op \in Settling

\* What every commit does, whatever it writes.
LEMMA CommittedCalls ==
    ASSUME RInv, NEW r \in Requests, Commit(r)
    PROVE  /\ call[r] \in Calls /\ call[r].pc = "commit" /\ call[r].op \in Ops
           /\ Fit(r, call[r], report, link, lost, Ended)
           /\ lost' = lost /\ lock' \in [Ids -> Requests \union {None}]
           /\ call' \in [Requests -> Calls] /\ call'[r] = Over
           /\ \A o \in Requests \ {r} :
                /\ Overlaps(o, call[r]) => call'[o] = [call[o] EXCEPT !.overtaken = TRUE]
                /\ ~Overlaps(o, call[r]) => call'[o] = call[o]
                /\ call'[o].pc = call[o].pc
           /\ Ended' = Ended \union {r} /\ Cardinality(Ended') = Cardinality(Ended) + 1
<1>1. /\ call[r] \in Calls /\ call[r].pc = "commit" /\ call[r].op \in Ops
      /\ Fit(r, call[r], report, link, lost, Ended)
  BY DEF RInv, TypeOK, Commit, Fit, OpenPoints
<1>2. lost' = lost /\ lock' \in [Ids -> Requests \union {None}]
  BY DEF RInv, TypeOK, Commit
<1>3. \A o \in Requests :
        call'[o] = IF o = r THEN Over
                   ELSE IF Overlaps(o, call[r]) THEN [call[o] EXCEPT !.overtaken = TRUE]
                   ELSE call[o]
  BY DEF Commit, Overlaps, Settling
<1>4. call' = [o \in Requests |-> call'[o]]
  BY DEF Commit
<1>5. \A o \in Requests : [call[o] EXCEPT !.overtaken = TRUE] \in Calls
                          /\ [call[o] EXCEPT !.overtaken = TRUE].pc = call[o].pc
  BY DEF RInv, TypeOK, Calls
<1>6. call' \in [Requests -> Calls]
  <2>1. \A o \in Requests : call'[o] \in Calls
    BY <1>3, <1>5, NewCallIsACall DEF RInv, TypeOK
  <2> QED
    BY <1>4, <2>1
<1>7. \A o \in Requests \ {r} : call'[o].pc = call[o].pc
  BY <1>3, <1>5
<1>8. call'[r].pc = "done" /\ call[r].pc # "done"
  BY <1>1, <1>3, NewCallIsACall
<1>9. Ended' = Ended \union {r} /\ Cardinality(Ended') = Cardinality(Ended) + 1
  BY <1>7, <1>8, OneMoreEnded
<1> QED
  BY <1>1, <1>2, <1>3, <1>6, <1>7, <1>9

\* What a commit does to reports and links that other calls know of.
KeepsRows(c) ==
    /\ \A i \in Ids : report[i] # NoReport =>
        /\ report'[i] # NoReport /\ report'[i].run = report[i].run
        /\ report[i].wins # None => report'[i].wins # None
        /\ report'[i].status = report[i].status \/ (c.op \in Settling /\ c.id = i)
    /\ \A l \in Requests : link[l] # NoLink => link'[l] # NoLink

LEMMA OthersFit ==
    ASSUME RInv, NEW r \in Requests, Commit(r), KeepsRows(call[r]), NEW o \in Requests \ {r}
    PROVE  Fit(o, call'[o], report', link', lost', Ended')
<1> DEFINE c == call[o]
           d == call'[o]
<1>1. c \in Calls /\ Fit(o, c, report, link, lost, Ended)
  BY DEF RInv, TypeOK
<1>2. /\ d.pc = c.pc /\ d.op = c.op /\ d.id = c.id /\ d.run = c.run /\ d.copy = c.copy
      /\ d.shown = c.shown /\ d.wins = c.wins
      /\ ~d.overtaken => ~c.overtaken /\ ~Overlaps(o, call[r])
  <2>1. /\ Overlaps(o, call[r]) => d = [c EXCEPT !.overtaken = TRUE]
        /\ ~Overlaps(o, call[r]) => d = c
    BY CommittedCalls
  <2>2. CASE Overlaps(o, call[r])
    BY <1>1, <2>1, <2>2 DEF Calls
  <2>3. CASE ~Overlaps(o, call[r])
    BY <2>1, <2>3
  <2> QED
    BY <2>2, <2>3
<1>3. lost' = lost /\ Ended \subseteq Ended'
  BY CommittedCalls
<1> HIDE DEF d
<1>4. ASSUME c.op \in Settling, SettlesOne(c, report, lost) PROVE SettlesOne(d, report', lost')
  <2>1. ~d.overtaken => report'[c.id].status = report[c.id].status
    BY <1>2, <1>4 DEF SettlesOne, KeepsRows, Overlaps
  <2> QED
    BY <1>2, <1>3, <1>4, <2>1 DEF SettlesOne, KeepsRows
<1>5. ASSUME c.id \in Ids, report[c.id].wins # None PROVE report'[c.id].wins # None
  BY <1>5 DEF KeepsRows, NoReport
<1>6. \A l \in Requests : link[l] # NoLink => link'[l] # NoLink
  BY DEF KeepsRows
<1> HIDE DEF c
<1>7. Fit(o, d, report', link', lost', Ended')
  <2> SUFFICES ASSUME d.pc \in OpenPoints
               PROVE  Fit(o, d, report', link', lost', Ended')
    BY DEF Fit
  <2> QED
    BY <1>1, <1>2, <1>3, <1>4, <1>5, <1>6 DEF Fit
<1> QED
  BY <1>7 DEF d

LEMMA CommitStep ==
    ASSUME RInv, NEW r \in Requests, Commit(r), KeepsRows(call[r]),
           report' \in [Ids -> ReportRows \union {NoReport}],
           link' \in [Requests -> LinkRows \union {NoLink}],
           token' \in [Requests -> TokenRows],
           told' \in [Ids -> {"ready", "failed", None}], contested' \subseteq Ids,
           \A o \in Requests \ {r} : call[o].pc # "done" =>
                report'[o] = NoReport /\ link'[o] = NoLink /\ token'[o] = NoToken,
           \A l \in Requests : link'[l].views <= Cardinality(Ended) + 1,
           WinsSound', NobodyToldYet', OnlyRacesMisreport'
    PROVE  RInv'
<1>1. TypeOK'
  BY CommittedCalls DEF RInv, TypeOK
<1>2. NothingYet'
  BY CommittedCalls, NewCallIsACall DEF NothingYet
<1>3. ViewsCounted'
  BY CommittedCalls DEF ViewsCounted
<1>4. ASSUME NEW o \in Requests PROVE Fit(o, call'[o], report', link', lost', Ended')
  <2>1. CASE o = r
    BY <2>1, CommittedCalls, OverFits
  <2>2. CASE o # r
    BY <2>2, OthersFit
  <2> QED
    BY <2>1, <2>2
<1> QED
  BY <1>1, <1>2, <1>3, <1>4 DEF RInv

LEMMA CreateCommits ==
    ASSUME RInv, NEW r \in Requests, Commit(r), call[r].op = "create"
    PROVE  RInv'
<1> DEFINE new == [run |-> call[r].run, status |-> "generating", wins |-> None]
<1>1. call[r].pc = "commit" /\ call[r].run \in Runs
  BY CommittedCalls DEF Fit, OpenPoints
<1>2. report' = [report EXCEPT ![r] = new] /\ UNCHANGED <<link, token, told, contested>>
  BY DEF Commit, Settling
<1>3. report[r] = NoReport /\ r \in Ids
  BY <1>1 DEF RInv, NothingYet, Ids
<1>4. new \in ReportRows /\ new # NoReport
  BY <1>1, ReportsAssumption DEF ReportRows, ReportStates, NoReport
<1>5. report'[r] = new /\ \A i \in Ids \ {r} : report'[i] = report[i]
  BY <1>2, <1>3 DEF RInv, TypeOK
<1>6. report' \in [Ids -> ReportRows \union {NoReport}]
  BY <1>2, <1>4 DEF RInv, TypeOK
<1>7. KeepsRows(call[r])
  BY <1>2, <1>3, <1>5 DEF KeepsRows
<1>8. WinsSound'
  <2> SUFFICES ASSUME NEW i \in Ids
               PROVE  /\ report'[i].wins # None => Sound(report'[i].wins, lost)
                      /\ report'[i].status = "ready" => report'[i].wins # None
                      /\ (\E l \in Requests : link[l].report = i) => report'[i].wins # None
    BY <1>2, CommittedCalls DEF WinsSound
  <2>1. CASE i = r
    <3>1. \A l \in Requests : link[l].report # r
      BY <1>3 DEF RInv, WinsSound, NoReport
    <3> QED
      BY <1>5, <2>1, <3>1
  <2>2. CASE i # r
    BY <1>5, <2>2 DEF RInv, WinsSound
  <2> QED
    BY <2>1, <2>2
<1>9. NobodyToldYet' /\ OnlyRacesMisreport'
  BY <1>2, <1>3, <1>4, <1>5 DEF RInv, NobodyToldYet, OnlyRacesMisreport
<1>10. \A l \in Requests : link'[l].views <= Cardinality(Ended) + 1
  BY <1>2, EndedIsFinite DEF RInv, ViewsCounted, TypeOK, LinkRows, NoLink
<1>11. \A o \in Requests \ {r} : call[o].pc # "done" =>
         report'[o] = NoReport /\ link'[o] = NoLink /\ token'[o] = NoToken
  BY <1>2, <1>5 DEF RInv, NothingYet, Ids
<1> QED
  BY <1>2, <1>6, <1>7, <1>8, <1>9, <1>10, <1>11, CommitStep DEF RInv, TypeOK

\* mark_ready and mark_failed leave the report in the state the caller is told, if the copy is
\* of the report's state; and they write sound wins or none.
LEMMA SettledReport ==
    ASSUME NEW old \in ReportRows, NEW c \in Calls, c.op \in Settling, NEW lst,
           old.wins # None => Sound(old.wins, lst),
           old.status = "ready" => old.wins # None,
           c.op = "finalise" => Sound(c.wins, lst)
    PROVE  /\ Settled(old, c) \in ReportRows /\ Settled(old, c).run = old.run
           /\ c.copy = old.status => Settled(old, c).status = Outcome(c.op)
           /\ Settled(old, c).wins # None => Sound(Settled(old, c).wins, lst)
           /\ Settled(old, c).status = "ready" => Settled(old, c).wins # None
           /\ old.wins # None => Settled(old, c).wins # None
<1>1. c.wins \in Wins \union {None} /\ Outcome(c.op) \in ReportStates
  BY DEF Calls, Outcome, ReportStates
<1>2. PICK s : s = Settled(old, c)
  OBVIOUS
<1>3. /\ s \in ReportRows /\ s.run = old.run
      /\ s.status = IF c.copy = Outcome(c.op) THEN old.status ELSE Outcome(c.op)
      /\ s.wins = IF c.op = "finalise" THEN c.wins ELSE old.wins
  BY <1>1, <1>2 DEF Settled, ReportRows
<1>4. c.op = "finalise" => c.wins # None
  BY DEF Sound
<1>5. c.op # "finalise" => Outcome(c.op) # "ready"
  BY DEF Outcome
<1> QED
  BY <1>2, <1>3, <1>4, <1>5

LEMMA SettleCommits ==
    ASSUME RInv, NEW r \in Requests, Commit(r), call[r].op \in Settling
    PROVE  RInv'
<1> DEFINE c == call[r]
           i == call[r].id
           new == Settled(report[i], call[r])
<1>1. /\ c \in Calls /\ i \in Ids /\ report[i] \in ReportRows /\ report[i] # NoReport
      /\ SettlesOne(c, report, lost)
      /\ c.op = "finalise" => Sound(c.wins, lost)
  BY CommittedCalls DEF Fit, OpenPoints, SettlesOne, RInv, TypeOK
<1>2. /\ report' = [report EXCEPT ![i] = new] /\ UNCHANGED <<link, token>>
      /\ told' = [told EXCEPT ![i] = Outcome(c.op)]
      /\ contested' = IF c.overtaken THEN contested \union {i} ELSE contested \ {i}
  BY DEF Commit, Settling
<1>3. /\ new \in ReportRows /\ new.run = report[i].run
      /\ c.copy = report[i].status => new.status = Outcome(c.op)
      /\ new.wins # None => Sound(new.wins, lost)
      /\ new.status = "ready" => new.wins # None
      /\ report[i].wins # None => new.wins # None
  <2>1. /\ report[i].wins # None => Sound(report[i].wins, lost)
        /\ report[i].status = "ready" => report[i].wins # None
    BY <1>1 DEF RInv, WinsSound
  <2> QED
    BY <1>1, <2>1, SettledReport
<1> HIDE DEF new
<1>4. new # NoReport
  BY <1>3, ReportsAssumption DEF ReportRows, NoReport
<1>5. report'[i] = new /\ \A j \in Ids \ {i} : report'[j] = report[j]
  BY <1>1, <1>2 DEF RInv, TypeOK
<1>6. report' \in [Ids -> ReportRows \union {NoReport}]
  BY <1>2, <1>3 DEF RInv, TypeOK
<1>7. told' \in [Ids -> {"ready", "failed", None}] /\ contested' \subseteq Ids
  BY <1>1, <1>2 DEF RInv, TypeOK, Outcome
<1>8. KeepsRows(c)
  BY <1>2, <1>3, <1>4, <1>5 DEF KeepsRows
<1>9. WinsSound'
  <2> SUFFICES ASSUME NEW j \in Ids
               PROVE  /\ report'[j].wins # None => Sound(report'[j].wins, lost)
                      /\ report'[j].status = "ready" => report'[j].wins # None
                      /\ (\E l \in Requests : link[l].report = j) => report'[j].wins # None
    BY <1>2, CommittedCalls DEF WinsSound
  <2>1. CASE j = i
    BY <1>3, <1>5, <2>1 DEF RInv, WinsSound
  <2>2. CASE j # i
    BY <1>5, <2>2 DEF RInv, WinsSound
  <2> QED
    BY <2>1, <2>2
<1>10. NobodyToldYet'
  BY <1>1, <1>2, <1>4, <1>5 DEF RInv, NobodyToldYet, TypeOK
<1>11. OnlyRacesMisreport'
  <2> SUFFICES ASSUME NEW j \in Ids, told'[j] # None, j \notin contested'
               PROVE  report'[j].status = told'[j]
    BY DEF OnlyRacesMisreport
  <2>1. CASE j = i
    <3>1. c.copy = report[i].status
      BY <1>1, <1>2, <2>1 DEF SettlesOne
    <3> QED
      BY <1>1, <1>2, <1>3, <1>5, <2>1, <3>1 DEF RInv, TypeOK
  <2>2. CASE j # i
    BY <1>2, <1>5, <2>2 DEF RInv, TypeOK, OnlyRacesMisreport
  <2> QED
    BY <2>1, <2>2
<1>12. \A l \in Requests : link'[l].views <= Cardinality(Ended) + 1
  BY <1>2, EndedIsFinite DEF RInv, ViewsCounted, TypeOK, LinkRows, NoLink
<1>13. \A o \in Requests \ {r} : call[o].pc # "done" =>
         report'[o] = NoReport /\ link'[o] = NoLink /\ token'[o] = NoToken
  BY <1>1, <1>2, <1>5 DEF RInv, NothingYet, Ids
<1> QED
  BY <1>2, <1>6, <1>7, <1>8, <1>9, <1>10, <1>11, <1>12, <1>13, CommitStep DEF RInv, TypeOK

\* A commit that writes links, to reports that have quick wins, and no report or token.
LEMMA LinkCommits ==
    ASSUME RInv, NEW r \in Requests, Commit(r), call[r].op \in {"share", "revoke", "view"}
    PROVE  RInv'
<1> DEFINE c == call[r]
           l == IF c.op = "share" THEN r ELSE c.id
<1>1. c.pc = "commit" /\ c.op \notin Settling /\ l \in Requests /\ None \notin Ids
  BY CommittedCalls, ReportsAssumption DEF Fit, OpenPoints, Settling, Ids
<1>2. UNCHANGED <<report, token, told, contested>>
  BY <1>1 DEF Commit, Settling
<1>3. /\ link'[l] \in LinkRows /\ link'[l].views <= Cardinality(Ended) + 1
      /\ report[link'[l].report].wins # None
      /\ link' = [link EXCEPT ![l] = link'[l]]
      /\ c.op # "share" => call[l].pc = "done"
  <2>1. CASE c.op = "share"
    <3>1. c.id \in Ids /\ report[c.id].wins # None
      BY <1>1, <2>1, CommittedCalls DEF Fit, OpenPoints
    <3>2. link' = [link EXCEPT ![r] = [NoLink EXCEPT !.report = c.id]]
      BY <2>1 DEF Commit
    <3>3. PICK new : new = [NoLink EXCEPT !.report = c.id]
      OBVIOUS
    <3>4. new = [report |-> c.id, revoked |-> FALSE, expired |-> FALSE, views |-> 0]
      BY <3>3 DEF NoLink
    <3>5. 0 \in 0..Cardinality(Requests) /\ 0 <= Cardinality(Ended) + 1
      BY EndedIsFinite
    <3>6. new \in LinkRows /\ new.views <= Cardinality(Ended) + 1 /\ new.report = c.id
      BY <3>1, <3>4, <3>5 DEF LinkRows
    <3>7. l = r /\ link'[r] = new
      BY <2>1, <3>2, <3>3 DEF RInv, TypeOK
    <3> QED
      BY <2>1, <3>1, <3>2, <3>3, <3>6, <3>7
  <2>2. CASE c.op \in {"revoke", "view"}
    <3>1. c.id \in Requests /\ link[c.id] # NoLink
      BY <1>1, <2>2, CommittedCalls DEF Fit, OpenPoints
    <3>2. link[c.id] \in LinkRows /\ call[c.id].pc = "done"
      BY <3>1 DEF RInv, TypeOK, NothingYet
    <3>3. link' = [link EXCEPT ![c.id] = LinkAfter(link[c.id], c)]
      BY <2>2 DEF Commit
    <3>4. link[c.id].views <= Cardinality(Ended) /\ Cardinality(Ended) + 1 <= Cardinality(Requests)
      <4>1. Ended' \subseteq Requests
        BY DEF Ended
      <4>2. Cardinality(Ended') <= Cardinality(Requests)
        BY <4>1, ReportsAssumption, FS_Subset
      <4> QED
        BY <3>1, <4>2, CommittedCalls DEF RInv, ViewsCounted
    <3>5. PICK new : new = LinkAfter(link[c.id], c)
      OBVIOUS
    <3>6. /\ new \in LinkRows /\ new.report = link[c.id].report
          /\ new.views <= Cardinality(Ended) + 1
      <4>1. CASE c.op = "revoke"
        <5>1. new = [link[c.id] EXCEPT !.revoked = TRUE]
          BY <3>5, <4>1 DEF LinkAfter
        <5>2. new \in LinkRows /\ new.report = link[c.id].report /\ new.views = link[c.id].views
          BY <3>2, <5>1 DEF LinkRows
        <5>3. link[c.id].views \in Nat
          BY <3>2 DEF LinkRows
        <5> QED
          BY <3>4, <5>2, <5>3, EndedIsFinite
      <4>2. CASE c.op = "view"
        BY <3>2, <3>4, <3>5, <4>2, EndedIsFinite DEF LinkAfter, LinkRows
      <4> QED
        BY <2>2, <4>1, <4>2
    <3>7. link'[c.id] = new
      BY <3>1, <3>3, <3>5 DEF RInv, TypeOK
    <3>8. report[new.report].wins # None
      BY <3>1, <3>2, <3>6 DEF RInv, WinsSound, LinkRows
    <3> QED
      BY <2>2, <3>2, <3>3, <3>5, <3>6, <3>7, <3>8
  <2> QED
    BY <2>1, <2>2
<1> HIDE DEF l
<1>4. \A m \in Requests \ {l} : link'[m] = link[m]
  BY <1>1, <1>3 DEF RInv, TypeOK
<1>5. link' \in [Requests -> LinkRows \union {NoLink}]
  BY <1>1, <1>3 DEF RInv, TypeOK
<1>6. link'[l] # NoLink
  BY <1>1, <1>3 DEF LinkRows, NoLink
<1>7. KeepsRows(c)
  BY <1>2, <1>4, <1>6 DEF KeepsRows
<1>8. WinsSound'
  <2> SUFFICES ASSUME NEW i \in Ids, NEW m \in Requests, link'[m].report = i
               PROVE  report[i].wins # None
    BY <1>2, CommittedCalls DEF RInv, WinsSound
  <2> QED
    BY <1>3, <1>4 DEF RInv, WinsSound
<1>9. NobodyToldYet' /\ OnlyRacesMisreport'
  BY <1>2 DEF RInv, NobodyToldYet, OnlyRacesMisreport
<1>10. \A m \in Requests : link'[m].views <= Cardinality(Ended) + 1
  <2>1. \A m \in Requests : link[m].views \in Nat
    BY DEF RInv, TypeOK, LinkRows, NoLink
  <2> QED
    BY <1>3, <1>4, <2>1, EndedIsFinite DEF RInv, ViewsCounted
<1>11. \A o \in Requests \ {r} : call[o].pc # "done" =>
         report'[o] = NoReport /\ link'[o] = NoLink /\ token'[o] = NoToken
  <2>1. l = r \/ call[l].pc = "done"
    BY <1>3 DEF l
  <2> QED
    BY <1>2, <1>4, <2>1 DEF RInv, NothingYet
<1> QED
  BY <1>2, <1>5, <1>7, <1>8, <1>9, <1>10, <1>11, CommitStep DEF RInv, TypeOK

\* A commit that writes a token.
LEMMA TokenCommits ==
    ASSUME RInv, NEW r \in Requests, Commit(r), call[r].op \in {"submit", "start", "claim"}
    PROVE  RInv'
<1> DEFINE c == call[r]
<1>1. c \in Calls /\ c.pc = "commit" /\ c.op \notin Settling
  BY CommittedCalls DEF Settling
<1>2. UNCHANGED <<report, link, told, contested>>
  BY <1>1 DEF Commit, Settling
<1>3. /\ token' \in [Requests -> TokenRows]
      /\ \A o \in Requests \ {r} : call[o].pc # "done" => token'[o] = token[o]
  <2>1. CASE c.op \in {"submit", "start"}
    <3>1. token' = [token EXCEPT ![r] = [live |-> TRUE, run |-> c.run, by |-> None]]
      BY <2>1 DEF Commit
    <3> QED
      BY <1>1, <3>1 DEF RInv, TypeOK, TokenRows, Calls
  <2>2. CASE c.op = "claim"
    <3>1. token' = [token EXCEPT ![c.id].by = r]
      BY <2>2 DEF Commit
    <3>2. c.id \in Requests /\ call[c.id].pc = "done"
      BY <1>1, <2>2, CommittedCalls DEF Fit, OpenPoints, Ended
    <3> QED
      BY <3>1, <3>2 DEF RInv, TypeOK, TokenRows
  <2> QED
    BY <2>1, <2>2
<1>4. KeepsRows(c)
  BY <1>2 DEF KeepsRows
<1>5. WinsSound' /\ NobodyToldYet' /\ OnlyRacesMisreport'
  BY <1>2, CommittedCalls DEF RInv, WinsSound, NobodyToldYet, OnlyRacesMisreport
<1>6. \A l \in Requests : link'[l].views <= Cardinality(Ended) + 1
  BY <1>2, EndedIsFinite DEF RInv, ViewsCounted, TypeOK, LinkRows, NoLink
<1>7. \A o \in Requests \ {r} : call[o].pc # "done" =>
         report'[o] = NoReport /\ link'[o] = NoLink /\ token'[o] = NoToken
  BY <1>2, <1>3 DEF RInv, NothingYet
<1> QED
  BY <1>2, <1>3, <1>4, <1>5, <1>6, <1>7, CommitStep DEF RInv, TypeOK

-------------------------------------------------------------------------------
LEMMA CommitKeepsRInv ==
    ASSUME RInv, NEW r \in Requests, Commit(r)
    PROVE  RInv'
BY CommittedCalls, CreateCommits, SettleCommits, LinkCommits, TokenCommits DEF Ops, Settling

LEMMA StepKeepsRInv == RInv /\ [Next]_vars => RInv'
<1> SUFFICES ASSUME RInv, [Next]_vars PROVE RInv'
  OBVIOUS
<1>1. CASE UNCHANGED vars
  <2>1. UNCHANGED <<lost, report, link, token, lock, call, told, contested>> /\ UNCHANGED Ended
    BY <1>1 DEF vars, Ended
  <2> QED
    BY <2>1 DEF RInv, TypeOK, NothingYet, WinsSound, ViewsCounted, NobodyToldYet,
                OnlyRacesMisreport
<1>2. CASE \E r \in Requests : Start(r) \/ Advance(r) \/ Rollback(r)
  BY <1>2, StartKeepsRInv, InsertReportKeepsRInv, BuildAuditContextKeepsRInv,
     GenerateWinsKeepsRInv, UpdateKeepsRInv, CommitKeepsRInv, RollbackKeepsRInv DEF Advance
<1>3. CASE Elsewhere
  BY <1>3, RecordExecutionKeepsRInv, LinkExpiresKeepsRInv, TokenExpiresKeepsRInv DEF Elsewhere
<1> QED
  BY <1>1, <1>2, <1>3 DEF Next, AllOver

LEMMA RInvAlways == Spec => []RInv
BY InitEstablishesRInv, StepKeepsRInv, PTL DEF Spec

-------------------------------------------------------------------------------
(* Theorems.                                                                *)

\* Rows, calls and histories keep their types; a link is viewed no more often than calls are
\* made, for looking it up does not count.
THEOREM ReportsTypeCorrect == Spec => []TypeOK
<1>1. RInv => TypeOK
  BY DEF RInv
<1> QED
  BY <1>1, RInvAlways, PTL

\* Whatever the LLM answers to QuickWinsGenerator, and however finalise_report and
\* mark_report_failed overlap on stale copies, a ready or shared report has three quick wins
\* that name queries lost by the run finalise_report was called with, unless it had lost none.
THEOREM ReadyIsGroundedHolds == Spec => []ReadyIsGrounded
<1>1. RInv => ReadyIsGrounded
  BY DEF RInv, WinsSound, ReadyIsGrounded, Grounded, Sound
<1> QED
  BY <1>1, RInvAlways, PTL

\* A caller of finalise_report or mark_report_failed is told what the report's status is unless
\* another settled the report since the caller loaded it.
THEOREM OnlyRacesMisreportHolds == Spec => []OnlyRacesMisreport
<1>1. RInv => OnlyRacesMisreport
  BY DEF RInv
<1> QED
  BY <1>1, RInvAlways, PTL

-------------------------------------------------------------------------------
(* Claims.                                                                  *)

\* The call c is a claim of token k that is under way.
Claiming(c, k) == c.pc \in OpenPoints /\ c.op = "claim" /\ c.id = k

\* One call moves, and if it claims a token afterwards it did before, or could.
LEMMA MovingClaims ==
    ASSUME RInv, NEW r \in Requests, NEW k \in Requests, Start(r) \/ Advance(r) \/ Rollback(r),
           Claiming(call'[r], k)
    PROVE  Claiming(call[r], k) \/ Claimable(k)
<1>0. call[r] \in Calls /\ Fit(r, call[r], report, link, lost, Ended)
  BY DEF RInv, TypeOK
<1>1. CASE Start(r)
  <2>1. CASE Claim(r)
    BY <2>1 DEF Claim, Begin, NewCall, Claiming, RInv, TypeOK
  <2>2. CASE CreateReport(r) \/ Submit(r)
    BY <2>2 DEF CreateReport, Submit, NewCall, Claiming, RInv, TypeOK
  <2>3. CASE FinaliseReport(r) \/ MarkReportFailed(r)
    <3>1. ASSUME NEW i, NEW u, NEW op \in Settling, NEW pc, Settle(r, i, u, op, pc)
          PROVE  call'[r].op # "claim"
      BY <3>1 DEF Settle, Settling, NewCall, RInv, TypeOK
    <3> QED
      BY <2>3, <3>1 DEF FinaliseReport, MarkReportFailed, Settling, Claiming
  <2>4. CASE CreateShareLink(r) \/ RevokeShareLink(r) \/ ViewSharedReport(r)
    <3>1. ASSUME NEW i, NEW op \in {"share", "revoke", "view"}, NEW pc, Begin(r, op, i, pc)
          PROVE  call'[r].op # "claim"
      BY <3>1 DEF Begin, NewCall, RInv, TypeOK
    <3> QED
      BY <2>4, <3>1 DEF CreateShareLink, RevokeShareLink, ViewSharedReport, Claiming
  <2>5. CASE StartFreeAudit(r)
    BY <2>5, NewCallIsACall DEF StartFreeAudit, Begin, NewCall, Claiming, OpenPoints, RInv, TypeOK
  <2> QED
    BY <1>1, <2>1, <2>2, <2>3, <2>4, <2>5 DEF Start
<1>2. CASE InsertReport(r)
  BY <1>0, <1>2, NewCallIsACall DEF InsertReport, Claiming, OpenPoints, RInv, TypeOK, Calls
<1>3. CASE BuildAuditContext(r) \/ GenerateWins(r)
  <2>1. call[r].op = "finalise"
    BY <1>0, <1>3 DEF BuildAuditContext, GenerateWins, Fit, OpenPoints
  <2>2. call'[r].op = call[r].op
    BY <1>0, <1>3 DEF BuildAuditContext, GenerateWins, RInv, TypeOK, Calls
  <2> QED
    BY <2>1, <2>2 DEF Claiming
<1>4. CASE Update(r)
  BY <1>0, <1>4 DEF Update, Claiming, OpenPoints, RInv, TypeOK, Calls
<1>5. CASE Commit(r) \/ Rollback(r)
  <2>1. call'[r] = Over
    BY <1>5, CommittedCalls DEF Rollback, RInv, TypeOK
  <2> QED
    BY <2>1, NewCallIsACall DEF Claiming, OpenPoints
<1> QED
  BY <1>1, <1>2, <1>3, <1>4, <1>5 DEF Advance

\* The others' calls stay at their points, with what they are for.
LEMMA OthersStay ==
    ASSUME RInv, NEW r \in Requests, Start(r) \/ Advance(r) \/ Rollback(r),
           NEW o \in Requests \ {r}
    PROVE  call'[o].pc = call[o].pc /\ call'[o].op = call[o].op /\ call'[o].id = call[o].id
<1>1. CASE Commit(r)
  <2>1. call[o] \in Calls
    BY DEF RInv, TypeOK
  <2>2. call'[o] = call[o] \/ call'[o] = [call[o] EXCEPT !.overtaken = TRUE]
    BY <1>1, CommittedCalls
  <2> QED
    BY <2>1, <2>2 DEF Calls
<1>2. CASE Start(r)
  BY <1>2 DEF Start, CreateReport, FinaliseReport, MarkReportFailed, Settle, CreateShareLink,
              RevokeShareLink, ViewSharedReport, Submit, StartFreeAudit, Claim, Begin, RInv, TypeOK
<1>3. CASE InsertReport(r) \/ BuildAuditContext(r) \/ GenerateWins(r) \/ Update(r) \/ Rollback(r)
  BY <1>3 DEF InsertReport, BuildAuditContext, GenerateWins, Update, Rollback, RInv, TypeOK
<1> QED
  BY <1>1, <1>2, <1>3 DEF Advance

\* Only a call that makes a token, or a claim of it, writes who has claimed it.
LEMMA ClaimantsStay ==
    ASSUME RInv, NEW k \in Requests, token[k].by # None, Next,
           \A r \in Requests : ~Claiming(call[r], k)
    PROVE  token'[k].by = token[k].by
<1>1. call[k].pc = "done"
  BY DEF RInv, NothingYet, NoToken
<1>2. ASSUME NEW r \in Requests, Commit(r) PROVE token'[k].by = token[k].by
  <2>1. call[r].pc = "commit" /\ call[r].op \in Ops /\ r # k
    BY <1>1, <1>2, CommittedCalls
  <2>2. ~(call[r].op = "claim" /\ call[r].id = k)
    BY <2>1 DEF Claiming, OpenPoints
  <2> QED
    BY <1>2, <2>1, <2>2 DEF Commit, RInv, TypeOK, TokenRows
<1>3. ASSUME NEW l \in Requests, TokenExpires(l) PROVE token'[k].by = token[k].by
  BY <1>3 DEF TokenExpires, RInv, TypeOK, TokenRows
<1>4. CASE UNCHANGED token
  BY <1>4
<1>5. \/ UNCHANGED token
      \/ \E r \in Requests : Commit(r)
      \/ \E l \in Requests : TokenExpires(l)
  BY DEF Next, Start, Advance, Elsewhere, AllOver, vars, rows, CreateReport, FinaliseReport,
         MarkReportFailed, Settle, CreateShareLink, RevokeShareLink, ViewSharedReport, Submit,
         StartFreeAudit, Claim, Begin, InsertReport, BuildAuditContext, GenerateWins, Update,
         Rollback, RecordExecution, LinkExpires
<1> QED
  BY <1>2, <1>3, <1>4, <1>5

LEMMA ClaimsKeptByStep ==
    ASSUME RInv, Next, NEW k \in Requests, ClaimSettled(k)
    PROVE  ClaimSettled(k)' /\ token'[k].by = token[k].by
<1>1. token[k].by # None /\ \A r \in Requests : ~Claiming(call[r], k)
  BY DEF ClaimSettled, Claiming, InTransaction
<1>2. token'[k].by = token[k].by
  BY <1>1, ClaimantsStay
<1>3. ASSUME NEW o \in Requests PROVE ~Claiming(call'[o], k)
  <2>1. CASE UNCHANGED call
    BY <1>1, <2>1
  <2>2. ASSUME NEW r \in Requests, Start(r) \/ Advance(r) \/ Rollback(r)
        PROVE  ~Claiming(call'[o], k)
    <3>1. CASE o = r
      BY <1>1, <2>2, <3>1, MovingClaims DEF Claimable
    <3>2. CASE o # r
      BY <1>1, <2>2, <3>2, OthersStay DEF Claiming
    <3> QED
      BY <3>1, <3>2
  <2> QED
    BY <2>1, <2>2 DEF Next, Elsewhere, RecordExecution, LinkExpires, TokenExpires, AllOver, vars
<1> QED
  BY <1>1, <1>2, <1>3 DEF ClaimSettled, Claiming, InTransaction

\* mark_claimed leaves a claimed token alone, and nobody finds it unclaimed again: a claim that
\* was granted is taken over by none but one that overlapped it.
THEOREM ClaimKeptHolds == Spec => ClaimKept
<1>1. RInv /\ [Next]_vars =>
        [\A k \in Requests :
            ClaimSettled(k) => ClaimSettled(k)' /\ token'[k].by = token[k].by]_vars
  BY ClaimsKeptByStep
<1> QED
  BY <1>1, RInvAlways, PTL DEF Spec, ClaimKept

===============================================================================
