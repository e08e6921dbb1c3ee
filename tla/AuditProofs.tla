------------------------------ MODULE AuditProofs ------------------------------
(***************************************************************************)
(* Theorems about the package modules/audit, for any number of engines,    *)
(* executions and finalisations: what a finalisation announces, what it    *)
(* leaves in the row, and that the score of an engine is within its bounds *)
(* before it is clamped; and, for any identity score and any number of     *)
(* words in an address, what a response gains by saying more of a business:*)
(* it stays a citation, and the confidence falls in one case only.         *)
(***************************************************************************)
EXTENDS AuditRuns, CitationDetection, FoldTheorems, FiniteSetTheorems, TLAPS

Reading == {"citations", "load", "update", "observe", "commit", "flush"}
HasCites == Reading \ {"citations"}
HasLoaded == {"update", "observe", "commit"}
HasRivals == {"commit", "flush"}

IsMap(g) == g = [f \in Finalisers |-> g[f]]

Maps ==
    /\ pc \in [Finalisers -> ProgramCounters]
    /\ IsMap(seen) /\ IsMap(cites) /\ IsMap(loaded) /\ IsMap(rivals)

\* The executions only grow; every one of the sets they have been is in moments.
Growing ==
    /\ recorded \in moments
    /\ \A S \in moments : S \subseteq recorded

\* What a finalisation has read, by the time it has read it: the executions of one moment,
\* all their citations, and all their competitor observations.
Reads ==
    \A f \in Finalisers :
        /\ pc[f] \in Reading => seen[f] \in moments
        /\ pc[f] \in HasCites => Cited(seen[f]) \subseteq cites[f]
        /\ pc[f] \in HasRivals => NamingRival(seen[f]) \subseteq rivals[f]

\* Until a finalisation commits the row is the new one, and loaded as such; from then on it has
\* in every column what some committed verdict has.
Patched ==
    /\ committed = {} => /\ run = NewRun /\ ~torn
                         /\ \A f \in Finalisers : pc[f] \in HasLoaded => loaded[f] = NewRun
    /\ committed # {} => \A c \in Columns : \E v \in committed : run[c] = v[c]

\* What will be published has been committed.
Flushing ==
    \A f \in Finalisers : pc[f] = "flush" => Verdict(seen[f], cites[f]) \in committed

AInv ==
    /\ Maps /\ Growing /\ Reads /\ Patched /\ Flushing
    /\ RowIsSnapshot /\ AnnouncedIsSnapshot /\ AnnouncedWasCommitted

-------------------------------------------------------------------------------
(* Verdicts.                                                                *)

\* Citations beyond those of the executions read make no difference.
LEMMA WholeVerdict ==
    ASSUME NEW S, NEW C, Cited(S) \subseteq C
    PROVE  Verdict(S, C) = Verdict(S, S)
<1>1. Cited(S) \intersect C = Cited(S) /\ Cited(S) \intersect S = Cited(S)
  BY DEF Cited
<1> QED
  BY <1>1 DEF Verdict

\* A row no column of which has changed since it was loaded becomes the verdict.
LEMMA WholeRow ==
    ASSUME NEW S, NEW C, NEW row
    PROVE  Written(row, row, Verdict(S, C)) = Verdict(S, C)
<1>1. PICK v : v = Verdict(S, C)
  OBVIOUS
<1>2. v = [c \in Columns |-> v[c]]
  BY <1>1 DEF Verdict, Columns
<1>3. Written(row, row, v) = [c \in Columns |-> v[c]]
  BY DEF Written
<1> QED
  BY <1>1, <1>2, <1>3

-------------------------------------------------------------------------------
(* The invariant.                                                           *)

LEMMA AInvInit == Init => AInv
BY DEF Init, AInv, Maps, IsMap, Growing, Reads, Patched, Flushing, RowIsSnapshot,
       AnnouncedIsSnapshot, AnnouncedWasCommitted, Reading, HasCites, HasLoaded, HasRivals,
       InTransaction, OpenPoints, ProgramCounters

\* The steps that read or write nothing but the tables.
LEMMA AInvTables ==
    ASSUME AInv, CreateAuditRun \/ RunSingleQuery \/ UNCHANGED vars
    PROVE  AInv'
<1>1. UNCHANGED <<run, runLock, frames, announced, committed, torn>>
  BY DEF CreateAuditRun, RunSingleQuery, vars, frames, history
<1>2. moments \subseteq moments' /\ recorded \subseteq recorded' /\ Growing'
  BY DEF AInv, CreateAuditRun, RunSingleQuery, vars, history, Growing
<1>3. Maps' /\ Patched' /\ Flushing' /\ AnnouncedWasCommitted'
  BY <1>1 DEF AInv, frames, Maps, IsMap, Patched, Flushing, InTransaction, AnnouncedWasCommitted
<1>4. Reads' /\ RowIsSnapshot' /\ AnnouncedIsSnapshot'
  BY <1>1, <1>2 DEF AInv, frames, Reads, RowIsSnapshot, AnnouncedIsSnapshot
<1> QED
  BY <1>2, <1>3, <1>4 DEF AInv

\* The reads of a finalisation.
LEMMA AInvReads ==
    ASSUME AInv, NEW f \in Finalisers,
           \/ ReadExecutions(f) \/ ReadCitations(f) \/ LoadRun(f)
           \/ UpdateStatus(f) \/ ReadObservations(f)
    PROVE  AInv'
<1>1. UNCHANGED <<recorded, run, announced, moments, committed>>
  BY DEF ReadExecutions, ReadCitations, LoadRun, UpdateStatus, ReadObservations, history
<1>2. Growing' /\ AnnouncedIsSnapshot' /\ AnnouncedWasCommitted'
  BY <1>1 DEF AInv, Growing, AnnouncedIsSnapshot, AnnouncedWasCommitted
<1>3. Maps'
  BY DEF AInv, Maps, IsMap, Go, ReadExecutions, ReadCitations, LoadRun, UpdateStatus,
         ReadObservations, ProgramCounters, OpenPoints
<1>4. CASE ReadExecutions(f)
  <2>1. /\ pc[f] = "idle" /\ pc' = [pc EXCEPT ![f] = "citations"]
        /\ seen' = [seen EXCEPT ![f] = recorded] /\ UNCHANGED <<cites, loaded, rivals>>
        /\ UNCHANGED torn
    BY <1>4 DEF ReadExecutions, Go, history
  <2>2. Reads'
    BY <1>1, <2>1 DEF AInv, Maps, IsMap, Growing, Reads, Reading, HasCites, HasRivals
  <2>3. Patched' /\ RowIsSnapshot'
    BY <1>1, <2>1 DEF AInv, Maps, Patched, RowIsSnapshot, HasLoaded
  <2>4. Flushing'
    BY <1>1, <2>1 DEF AInv, Maps, IsMap, Flushing
  <2> QED
    BY <1>2, <1>3, <2>2, <2>3, <2>4 DEF AInv
<1>5. CASE ReadCitations(f)
  <2>1. /\ pc[f] = "citations" /\ pc' = [pc EXCEPT ![f] = "load"]
        /\ cites' = [cites EXCEPT ![f] = Cited(recorded)]
        /\ UNCHANGED <<seen, loaded, rivals, torn>>
    BY <1>5 DEF ReadCitations, Go, history
  <2>2. Cited(seen[f]) \subseteq Cited(recorded)
    BY <2>1 DEF AInv, Growing, Reads, Reading, Cited
  <2>3. Reads'
    BY <1>1, <2>1, <2>2 DEF AInv, Maps, IsMap, Reads, Reading, HasCites, HasRivals
  <2>4. Patched' /\ RowIsSnapshot' /\ Flushing'
    BY <1>1, <2>1 DEF AInv, Maps, IsMap, Patched, RowIsSnapshot, Flushing, HasLoaded,
                      InTransaction, OpenPoints
  <2> QED
    BY <1>2, <1>3, <2>3, <2>4 DEF AInv
<1>6. CASE LoadRun(f)
  <2>1. /\ pc[f] = "load" /\ pc' = [pc EXCEPT ![f] = "update"]
        /\ loaded' = [loaded EXCEPT ![f] = run]
        /\ UNCHANGED <<seen, cites, rivals, torn>>
    BY <1>6 DEF LoadRun, Go, history
  <2>2. Reads' /\ RowIsSnapshot' /\ Flushing'
    BY <1>1, <2>1 DEF AInv, Maps, Reads, Reading, HasCites, HasRivals, RowIsSnapshot, Flushing
  <2>3. Patched'
    BY <1>1, <2>1 DEF AInv, Maps, IsMap, Patched, HasLoaded, InTransaction, OpenPoints
  <2> QED
    BY <1>2, <1>3, <2>2, <2>3 DEF AInv
<1>7. CASE UpdateStatus(f)
  <2>1. /\ pc[f] = "update" /\ pc' = [pc EXCEPT ![f] = "observe"]
        /\ UNCHANGED <<seen, cites, loaded, rivals, torn>>
    BY <1>7 DEF UpdateStatus, Go, history
  <2>2. Reads' /\ RowIsSnapshot' /\ Flushing'
    BY <1>1, <2>1 DEF AInv, Maps, Reads, Reading, HasCites, HasRivals, RowIsSnapshot, Flushing
  <2>3. Patched'
    BY <1>1, <2>1 DEF AInv, Maps, Patched, HasLoaded, InTransaction, OpenPoints
  <2> QED
    BY <1>2, <1>3, <2>2, <2>3 DEF AInv
<1>8. CASE ReadObservations(f)
  <2>1. /\ pc[f] = "observe" /\ pc' = [pc EXCEPT ![f] = "commit"]
        /\ rivals' = [rivals EXCEPT ![f] = NamingRival(recorded)]
        /\ UNCHANGED <<seen, cites, loaded, torn>>
    BY <1>8 DEF ReadObservations, Go, history
  <2>2. NamingRival(seen[f]) \subseteq NamingRival(recorded)
    BY <2>1 DEF AInv, Growing, Reads, Reading, NamingRival
  <2>3. Reads'
    BY <1>1, <2>1, <2>2 DEF AInv, Maps, IsMap, Reads, Reading, HasCites, HasRivals
  <2>4. Patched' /\ RowIsSnapshot' /\ Flushing'
    BY <1>1, <2>1 DEF AInv, Maps, Patched, RowIsSnapshot, Flushing, HasLoaded, InTransaction,
                      OpenPoints
  <2> QED
    BY <1>2, <1>3, <2>3, <2>4 DEF AInv
<1> QED
  BY <1>4, <1>5, <1>6, <1>7, <1>8

\* The row committed is the verdict if it is written over the row loaded, and pieced together
\* from committed verdicts otherwise.
LEMMA AInvCommit ==
    ASSUME AInv, NEW f \in Finalisers, Commit(f)
    PROVE  AInv'
<1> DEFINE verdict == Verdict(seen[f], cites[f])
<1>1. /\ pc[f] = "commit" /\ pc' = [pc EXCEPT ![f] = "flush"]
      /\ run' = Written(run, loaded[f], verdict)
      /\ committed' = committed \union {verdict}
      /\ torn' = (loaded[f] # run)
      /\ UNCHANGED <<recorded, seen, cites, loaded, rivals, announced, moments>>
  BY DEF Commit, Go
<1>2. seen[f] \in moments /\ Cited(seen[f]) \subseteq cites[f]
  BY <1>1 DEF AInv, Reads, Reading, HasCites
<1>3. verdict = Verdict(seen[f], seen[f])
  BY <1>2, WholeVerdict
<1> HIDE DEF verdict
<1>4. loaded[f] = run => run' = verdict
  BY <1>1, WholeRow DEF verdict
<1>5. Patched'
  <2> SUFFICES ASSUME NEW c \in Columns PROVE \E v \in committed' : run'[c] = v[c]
    BY <1>1 DEF Patched
  <2>1. CASE committed = {}
    <3>1. loaded[f] = run
      BY <1>1, <2>1 DEF AInv, Patched, HasLoaded
    <3> QED
      BY <1>1, <1>4, <3>1
  <2>2. CASE committed # {}
    <3>1. PICK v \in committed : run[c] = v[c]
      BY <2>2 DEF AInv, Patched
    <3>2. run'[c] = verdict[c] \/ run'[c] = run[c]
      BY <1>1 DEF Written
    <3> QED
      BY <1>1, <3>1, <3>2
  <2> QED
    BY <2>1, <2>2
<1>10. RowIsSnapshot'
  <2>1. CASE torn'
    BY <1>1, <1>5, <2>1 DEF RowIsSnapshot, Patched
  <2>2. CASE ~torn'
    <3>1. run' = Verdict(seen[f], seen[f])
      BY <1>1, <1>3, <1>4, <2>2
    <3> QED
      BY <1>1, <1>2, <2>2, <3>1 DEF RowIsSnapshot
  <2> QED
    BY <2>1, <2>2
<1>6. Maps' /\ Growing' /\ AnnouncedIsSnapshot' /\ AnnouncedWasCommitted'
  BY <1>1 DEF AInv, Maps, IsMap, ProgramCounters, Growing, AnnouncedIsSnapshot,
              AnnouncedWasCommitted
<1>7. Reads'
  BY <1>1 DEF AInv, Maps, Reads, Reading, HasCites, HasRivals
<1>8. Flushing'
  BY <1>1 DEF AInv, Maps, Flushing, verdict
<1> QED
  BY <1>5, <1>6, <1>7, <1>8, <1>10 DEF AInv

\* A finalisation that is over has nothing left to say.
LEMMA AInvEnd ==
    ASSUME AInv, NEW f \in Finalisers, Rollback(f) \/ FlushEvents(f) \/ LoseEvents(f)
    PROVE  AInv'
<1>1. /\ pc' = [pc EXCEPT ![f] = "done"] /\ Forget(f)
      /\ UNCHANGED <<recorded, run, moments, committed, torn>>
  BY DEF Rollback, FlushEvents, LoseEvents, Go, history
<1>2. Maps'
  BY <1>1 DEF AInv, Maps, IsMap, Forget, ProgramCounters
<1>3. \A g \in Finalisers \ {f} :
        /\ pc'[g] = pc[g] /\ seen'[g] = seen[g] /\ cites'[g] = cites[g]
        /\ loaded'[g] = loaded[g] /\ rivals'[g] = rivals[g]
  BY <1>1 DEF AInv, Maps, IsMap, Forget
<1>4. pc'[f] = "done"
  BY <1>1 DEF AInv, Maps
<1>5. Reads' /\ Flushing'
  BY <1>1, <1>3, <1>4 DEF AInv, Reads, Flushing, Reading, HasCites, HasRivals
<1>6. Patched'
  BY <1>1, <1>3, <1>4 DEF AInv, Patched, InTransaction, OpenPoints, HasLoaded
<1>7. Growing' /\ RowIsSnapshot'
  BY <1>1 DEF AInv, Growing, RowIsSnapshot
<1>8. AnnouncedIsSnapshot' /\ AnnouncedWasCommitted'
  <2>1. CASE FlushEvents(f)
    <3>1. PICK told \in {rivals[f], {}} :
            announced' = announced
                \union {[verdict |-> Verdict(seen[f], cites[f]), rivals |-> told]}
      BY <2>1 DEF FlushEvents
    <3> DEFINE a == [verdict |-> Verdict(seen[f], cites[f]), rivals |-> told]
    <3>2. pc[f] = "flush"
      BY <2>1 DEF FlushEvents
    <3>3. /\ seen[f] \in moments /\ Cited(seen[f]) \subseteq cites[f]
          /\ NamingRival(seen[f]) \subseteq rivals[f]
          /\ Verdict(seen[f], cites[f]) \in committed
      BY <3>2 DEF AInv, Reads, Flushing, Reading, HasCites, HasRivals
    <3>4. Verdict(seen[f], cites[f]) = Verdict(seen[f], seen[f])
      BY <3>3, WholeVerdict
    <3>5. a.verdict = Verdict(seen[f], seen[f]) /\ a.verdict \in committed
          /\ (a.rivals = {} \/ NamingRival(seen[f]) \subseteq a.rivals)
      BY <3>3, <3>4
    <3>6. announced' = announced \union {a}
      BY <3>1
    <3> HIDE DEF a
    <3> QED
      BY <1>1, <3>3, <3>5, <3>6 DEF AInv, AnnouncedIsSnapshot, AnnouncedWasCommitted
  <2>2. CASE Rollback(f) \/ LoseEvents(f)
    BY <1>1, <2>2 DEF AInv, Rollback, LoseEvents, AnnouncedIsSnapshot, AnnouncedWasCommitted
  <2> QED
    BY <2>1, <2>2
<1> QED
  BY <1>2, <1>5, <1>6, <1>7, <1>8 DEF AInv

LEMMA AInvStep == AInv /\ [Next]_vars => AInv'
BY AInvTables, AInvReads, AInvCommit, AInvEnd DEF Next, Advance

LEMMA AInvAlways == Spec => []AInv
BY AInvInit, AInvStep, PTL DEF Spec

\* Whatever is recorded and whoever else finalises between its reads, finalise_audit_run
\* announces the verdict on the executions recorded at one moment, and the competitors it
\* announces include all of that moment.
THEOREM AnnouncedIsSnapshotHolds == Spec => []AnnouncedIsSnapshot
<1>1. AInv => AnnouncedIsSnapshot
  BY DEF AInv
<1> QED
  BY <1>1, AInvAlways, PTL

\* The columns update_status writes are those of one verdict, unless the last finalisation to
\* commit had not loaded the row it overwrote, and those of committed verdicts even then.
THEOREM RowIsSnapshotHolds == Spec => []RowIsSnapshot
<1>1. AInv => RowIsSnapshot
  BY DEF AInv
<1> QED
  BY <1>1, AInvAlways, PTL

\* finalise_audit_run's events are those of a committed transaction.
THEOREM AnnouncedWasCommittedHolds == Spec => []AnnouncedWasCommitted
<1>1. AInv => AnnouncedWasCommitted
  BY DEF AInv
<1> QED
  BY <1>1, AInvAlways, PTL

-------------------------------------------------------------------------------
(* The score.                                                               *)

\* The score calculate gives an engine is between 0 and 100 whatever was recorded, before
\* it is clamped: a negative citation is a citation, and a citation is an execution.
THEOREM ScoreNeedsNoClamp ==
    ASSUME NEW S \in SUBSET Executions, IsFiniteSet(S), NEW e \in Engines
    PROVE  LET top == 2 * Cardinality(On(S, e))
           IN  /\ Halves(Cited(S), e) \in 0..top
               /\ Clamp(Halves(Cited(S), e), top) = Halves(Cited(S), e)
<1> DEFINE all == On(S, e)
           cited == On(Cited(S), e)
           negative == On(Negative(Cited(S)), e)
<1>1. all \subseteq S /\ cited \subseteq all /\ negative \subseteq cited
  BY DEF On, Cited, Negative
<1>2. IsFiniteSet(all) /\ IsFiniteSet(cited)
  BY <1>1, FS_Subset
<1>3. /\ Cardinality(all) \in Nat /\ Cardinality(cited) \in Nat /\ Cardinality(negative) \in Nat
      /\ Cardinality(negative) <= Cardinality(cited) /\ Cardinality(cited) <= Cardinality(all)
  BY <1>1, <1>2, FS_Subset, FS_CardinalityType
<1>4. Halves(Cited(S), e) = 2 * Cardinality(cited) - Cardinality(negative)
  BY DEF Halves
<1> HIDE DEF all, cited, negative
<1>5. Halves(Cited(S), e) \in 0..(2 * Cardinality(all))
  BY <1>3, <1>4
<1>6. Clamp(Halves(Cited(S), e), 2 * Cardinality(all)) = Halves(Cited(S), e)
  BY <1>3, <1>5 DEF Clamp
<1> QED
  BY <1>5, <1>6 DEF all

LEMMA QuotientBound ==
    ASSUME NEW n \in Nat, NEW d \in Nat \ {0}, NEW k \in Nat, n < d * (k + 1)
    PROVE  n \div d \in 0..k
OBVIOUS

LEMMA QuotientTimes ==
    ASSUME NEW n \in Nat, NEW d \in Nat \ {0}
    PROVE  n \div d \in Nat /\ d * (n \div d) <= n /\ d * (n \div d) \in Nat
OBVIOUS

LEMMA HalvesType ==
    ASSUME NEW S, IsFiniteSet(S), NEW C \in SUBSET S, NEW e
    PROVE  Halves(C, e) \in Int
<1>1. On(C, e) \subseteq S /\ On(Negative(C), e) \subseteq S
  BY DEF On, Negative
<1>2. Cardinality(On(C, e)) \in Nat /\ Cardinality(On(Negative(C), e)) \in Nat
  BY <1>1, FS_Subset, FS_CardinalityType
<1> QED
  BY <1>2 DEF Halves

LEMMA FullType == Full \in Nat
BY DEF Full

\* Rounding a part of Full.
LEMMA NearestBound ==
    ASSUME NEW a \in Nat, NEW b \in Nat \ {0}, a <= b
    PROVE  Nearest(Full * a, b) \in 0..Full
<1>1. Full \in Nat /\ 2 * (Full * a) + b \in Nat /\ 2 * b \in Nat \ {0}
  BY DEF Full
<1>2. 2 * (Full * a) + b < (2 * b) * (Full + 1)
  BY DEF Full
<1> QED
  BY <1>1, <1>2, QuotientBound DEF Nearest

\* The parts of a run's score: the engines covered, how many executions each has, a common
\* denominator, and what each adds to the numerator over it.
Covered(S) == {x.engine : x \in S}
Totals(S) == [e \in Covered(S) |-> Cardinality(On(S, e))]
Common(S) == FoldFunction(LAMBDA m, n : m * n, 1, Totals(S))
Share(S, C, e) == Clamp(Halves(C, e), 2 * Totals(S)[e]) * (Common(S) \div Totals(S)[e])
Shares(S, C) == [e \in Covered(S) |-> Share(S, C, e)]

LEMMA ScoreParts ==
    ASSUME NEW S, NEW C
    PROVE  /\ Covered(S) = {} => Score(S, C) = 0
           /\ Covered(S) # {} =>
                Score(S, C) = Nearest(Full * SumFunction(Shares(S, C)),
                                      2 * Cardinality(Covered(S)) * Common(S))
BY DEF Score, Covered, Totals, Common, Share, Shares

LEMMA TotalsArePositive ==
    ASSUME NEW S \in SUBSET Executions, IsFiniteSet(S)
    PROVE  /\ IsFiniteSet(Covered(S))
           /\ \A e \in Covered(S) : Totals(S)[e] \in Nat \ {0}
           /\ Common(S) \in Nat \ {0}
<1>1. IsFiniteSet(Covered(S))
  <2>1. Covered(S) \subseteq Engines
    BY DEF Executions, Covered
  <2> QED
    BY <2>1, AuditAssumption, FS_Subset
<1>2. ASSUME NEW e \in Covered(S) PROVE Totals(S)[e] \in Nat \ {0}
  <2>1. On(S, e) # {} /\ On(S, e) \subseteq S
    BY DEF On, Covered
  <2>2. Cardinality(On(S, e)) \in Nat \ {0}
    BY <2>1, FS_Subset, FS_CardinalityType, FS_EmptySet
  <2> QED
    BY <2>2 DEF Totals
<1>3. Common(S) = Products(Totals(S), Covered(S))[Covered(S)]
  <2>1. DOMAIN Totals(S) = Covered(S)
    BY DEF Totals
  <2>2. Common(S) = Products(Totals(S), DOMAIN Totals(S))[DOMAIN Totals(S)]
    BY ProductsAre DEF Common
  <2> QED
    BY <2>1, <2>2
<1> QED
  BY <1>1, <1>2, <1>3, ProductsPositive

\* An engine adds at most twice the common denominator.
LEMMA ShareBound ==
    ASSUME NEW S \in SUBSET Executions, IsFiniteSet(S), NEW C \in SUBSET S, NEW e \in Covered(S)
    PROVE  Share(S, C, e) \in 0..(2 * Common(S))
<1> DEFINE t == Totals(S)[e]
           k == Clamp(Halves(C, e), 2 * t)
           q == Common(S) \div t
<1>1. t \in Nat \ {0} /\ Common(S) \in Nat
  BY TotalsArePositive
<1>2. k \in 0..(2 * t)
  <2>1. Halves(C, e) \in Int
    BY HalvesType
  <2> HIDE DEF t
  <2> QED
    BY <1>1, <2>1 DEF Clamp
<1>3. q \in Nat /\ t * q <= Common(S) /\ t * q \in Nat
  <2> HIDE DEF t
  <2> QED
    BY <1>1, QuotientTimes
<1>4. Share(S, C, e) = k * q
  BY DEF Share
<1> HIDE DEF t, k, q
<1>5. k * q \in Nat /\ k * q <= (2 * t) * q /\ (2 * t) * q = 2 * (t * q)
  BY <1>1, <1>2, <1>3
<1> QED
  BY <1>1, <1>3, <1>4, <1>5

\* The score of a run is a percentage, whichever of the citations were read.
LEMMA ScoreBound ==
    ASSUME NEW S \in SUBSET Executions, IsFiniteSet(S), NEW C \in SUBSET S
    PROVE  Score(S, C) \in 0..Full
<1> DEFINE scores == SumFunction(Shares(S, C))
           n == Cardinality(Covered(S))
           common == Common(S)
<1>1. common \in Nat \ {0} /\ IsFiniteSet(Covered(S)) /\ n \in Nat
  BY TotalsArePositive, FS_CardinalityType
<1>2. scores \in 0..(n * (2 * common))
  <2>1. \A e \in Covered(S) : Shares(S, C)[e] \in 0..(2 * common)
    BY ShareBound DEF Shares
  <2>2. scores = Sums(Shares(S, C), Covered(S))[Covered(S)]
    <3>1. DOMAIN Shares(S, C) = Covered(S)
      BY DEF Shares
    <3> QED
      BY <3>1, SumFunctionIs
  <2>3. 2 * common \in Nat
    BY <1>1
  <2> HIDE DEF common
  <2> QED
    BY <1>1, <2>1, <2>2, <2>3, SumsBound
<1>3. CASE Covered(S) = {}
  BY <1>3, ScoreParts, FullType
<1>4. CASE Covered(S) # {}
  <2>1. n # 0
    BY <1>1, <1>4, FS_EmptySet
  <2>2. Score(S, C) = Nearest(Full * scores, 2 * n * common)
    BY <1>4, ScoreParts
  <2> HIDE DEF common, scores, n
  <2>3. /\ 2 * n * common = n * (2 * common) /\ 2 * n * common \in Nat \ {0}
        /\ scores \in Nat
    BY <1>1, <1>2, <2>1
  <2> QED
    BY <1>2, <2>2, <2>3, NearestBound
<1> QED
  BY <1>3, <1>4

-------------------------------------------------------------------------------
(* Type correctness: what the row holds is bounded because no two           *)
(* executions have the same identifier.                                     *)

Apart(S) == \A x, y \in S : x.id = y.id => x = y

TInv ==
    /\ TypeOK
    /\ Apart(recorded)
    /\ \A f \in Finalisers : seen[f] \subseteq recorded

\* There are as many executions as identifiers, at most.
LEMMA ApartSize ==
    ASSUME NEW S \in SUBSET Executions, Apart(S)
    PROVE  IsFiniteSet(S) /\ Cardinality(S) \in 0..Cardinality(Ids)
<1> DEFINE id == [x \in S |-> x.id]
<1>1. id \in Injection(S, Ids)
  <2>1. id \in [S -> Ids]
    BY DEF Executions
  <2>2. IsInjective(id)
    BY DEF Apart, IsInjective
  <2> QED
    BY <2>1, <2>2 DEF Injection
<1>2. IsFiniteSet(S) /\ Cardinality(S) <= Cardinality(Ids)
  BY <1>1, AuditAssumption, FS_Injection
<1> QED
  BY <1>2, AuditAssumption, FS_CardinalityType

LEMMA PartSize ==
    ASSUME NEW S \in SUBSET Executions, Apart(S), NEW C \in SUBSET S
    PROVE  /\ IsFiniteSet(C) /\ Cardinality(C) \in Nat
           /\ Cardinality(C) <= Cardinality(S)
           /\ Cardinality(C) \in 0..Cardinality(Ids)
<1>1. IsFiniteSet(S) /\ Cardinality(S) \in 0..Cardinality(Ids) /\ Cardinality(Ids) \in Nat
  BY ApartSize, AuditAssumption, FS_CardinalityType
<1>2. IsFiniteSet(C) /\ Cardinality(C) \in Nat /\ Cardinality(C) <= Cardinality(S)
  BY <1>1, FS_Subset, FS_CardinalityType
<1> QED
  BY <1>1, <1>2

LEMMA CompletenessBound ==
    ASSUME NEW S \in SUBSET Executions, Apart(S)
    PROVE  Completeness(S) \in 0..Full
<1> DEFINE k == Cardinality(Succeeded(S))
           n == Cardinality(S)
<1>1. IsFiniteSet(S) /\ k \in Nat /\ n \in Nat /\ k <= n
  BY PartSize DEF Succeeded
<1>2. CASE S = {}
  BY <1>2, FullType DEF Completeness
<1>3. CASE S # {}
  <2>1. n # 0
    BY <1>1, <1>3, FS_EmptySet
  <2>2. Completeness(S) = (Full * k) \div n
    BY <1>3 DEF Completeness
  <2> HIDE DEF k, n
  <2>3. Full * k \in Nat /\ n \in Nat \ {0} /\ Full * k < n * (Full + 1)
    <3>1. Full * k <= Full * n /\ Full * k \in Nat /\ n * (Full + 1) = Full * n + n
          /\ Full * n \in Nat
      BY <1>1, FullType
    <3> QED
      BY <1>1, <2>1, <3>1
  <2> QED
    BY <2>2, <2>3, FullType, QuotientBound
<1> QED
  BY <1>2, <1>3

\* What a finalisation writes fits the columns, whatever it has read.
LEMMA VerdictIsRow ==
    ASSUME NEW S \in SUBSET Executions, Apart(S), NEW C
    PROVE  IsRow(Verdict(S, C))
<1>1. /\ IsFiniteSet(S) /\ Cardinality(S) \in 0..Cardinality(Ids)
      /\ Cardinality(Succeeded(S)) \in 0..Cardinality(Ids)
  BY ApartSize, PartSize DEF Succeeded
<1>2. Score(S, Cited(S) \intersect C) \in 0..Full
  <2>1. Cited(S) \intersect C \subseteq S
    BY DEF Cited
  <2> QED
    BY <1>1, <2>1, ScoreBound
<1>3. Completeness(S) \in 0..Full
  BY CompletenessBound
<1>4. FinalStatus(S) \in Statuses
  BY DEF FinalStatus, Statuses
<1> QED
  BY <1>1, <1>2, <1>3, <1>4 DEF Verdict, IsRow, Columns

\* A row written over another is a row.
LEMMA WrittenIsRow ==
    ASSUME NEW row, NEW old, NEW new, IsRow(row), IsRow(new)
    PROVE  IsRow(Written(row, old, new))
BY DEF IsRow, Written, Columns

LEMMA NewRunIsRow == IsRow(NewRun)
<1>1. 0 \in 0..Cardinality(Ids)
  BY AuditAssumption, FS_CardinalityType
<1> QED
  BY <1>1 DEF IsRow, NewRun, Columns, Statuses

LEMMA AuditTypeInit == Init => TInv
BY NewRunIsRow DEF Init, TInv, TypeOK, Apart, ProgramCounters

\* A step that records nothing, after which every row is still a row.
LEMMA AuditTypeKept ==
    ASSUME TInv, UNCHANGED <<created, recorded>>,
           IsRow(run'), runLock' \in Finalisers \union {None},
           pc' \in [Finalisers -> ProgramCounters], torn' \in BOOLEAN,
           \A f \in Finalisers : /\ seen'[f] \subseteq recorded
                                 /\ cites'[f] \subseteq Executions
                                 /\ IsRow(loaded'[f])
                                 /\ rivals'[f] \subseteq Executions
    PROVE  TInv'
BY DEF TInv, TypeOK

LEMMA AuditTypeStep ==
    ASSUME TInv, AInv, [Next]_vars
    PROVE  TInv'
<1> USE DEF frames, history
<1>0. /\ recorded \subseteq Executions /\ IsRow(run) /\ runLock \in Finalisers \union {None}
      /\ pc \in [Finalisers -> ProgramCounters] /\ torn \in BOOLEAN
      /\ IsMap(seen) /\ IsMap(cites) /\ IsMap(loaded) /\ IsMap(rivals)
      /\ \A f \in Finalisers : /\ seen[f] \subseteq recorded /\ cites[f] \subseteq Executions
                               /\ IsRow(loaded[f]) /\ rivals[f] \subseteq Executions
  BY DEF TInv, TypeOK, AInv, Maps
<1>1. CASE CreateAuditRun
  BY <1>1 DEF TInv, TypeOK, CreateAuditRun
<1>2. CASE RunSingleQuery
  <2>1. PICK x \in Executions :
            (\A y \in recorded : y.id # x.id) /\ recorded' = recorded \union {x}
    BY <1>2 DEF RunSingleQuery
  <2>2. Apart(recorded')
    BY <2>1 DEF TInv, Apart
  <2>3. \A f \in Finalisers : seen[f] \subseteq recorded'
    BY <1>0, <2>1
  <2> QED
    BY <1>2, <2>1, <2>2, <2>3 DEF TInv, TypeOK, RunSingleQuery
<1>3. ASSUME NEW f \in Finalisers,
             \/ ReadExecutions(f) \/ ReadCitations(f) \/ LoadRun(f)
             \/ UpdateStatus(f) \/ ReadObservations(f)
      PROVE  TInv'
  <2>1. UNCHANGED <<created, recorded, run>>
    BY <1>3 DEF ReadExecutions, ReadCitations, LoadRun, UpdateStatus, ReadObservations
  <2>2. pc' \in [Finalisers -> ProgramCounters]
    BY <1>0, <1>3 DEF ReadExecutions, ReadCitations, LoadRun, UpdateStatus, ReadObservations,
                      Go, ProgramCounters, OpenPoints
  <2>3. runLock' \in Finalisers \union {None} /\ torn' \in BOOLEAN
    BY <1>0, <1>3 DEF ReadExecutions, ReadCitations, LoadRun, UpdateStatus, ReadObservations
  <2>4. \A g \in Finalisers : seen'[g] \subseteq recorded
    BY <1>0, <1>3 DEF IsMap, ReadExecutions, ReadCitations, LoadRun, UpdateStatus,
                      ReadObservations
  <2>5. \A g \in Finalisers : cites'[g] \subseteq Executions
    <3>1. Cited(recorded) \subseteq Executions
      BY <1>0 DEF Cited
    <3> QED
      BY <1>0, <1>3, <3>1 DEF IsMap, ReadExecutions, ReadCitations, LoadRun, UpdateStatus,
                              ReadObservations
  <2>6. \A g \in Finalisers : IsRow(loaded'[g])
    <3>1. \A g \in Finalisers : loaded'[g] \in {loaded[g], run}
      BY <1>0, <1>3 DEF IsMap, ReadExecutions, ReadCitations, LoadRun, UpdateStatus,
                        ReadObservations
    <3> QED
      BY <1>0, <3>1
  <2>7. \A g \in Finalisers : rivals'[g] \subseteq Executions
    <3>1. NamingRival(recorded) \subseteq Executions
      BY <1>0 DEF NamingRival
    <3> QED
      BY <1>0, <1>3, <3>1 DEF IsMap, ReadExecutions, ReadCitations, LoadRun, UpdateStatus,
                              ReadObservations
  <2> QED
    BY <1>0, <2>1, <2>2, <2>3, <2>4, <2>5, <2>6, <2>7, AuditTypeKept
<1>4. ASSUME NEW f \in Finalisers, Commit(f) PROVE TInv'
  <2>1. /\ UNCHANGED <<created, recorded, seen, cites, loaded, rivals>>
        /\ run' = Written(run, loaded[f], Verdict(seen[f], cites[f]))
        /\ torn' \in BOOLEAN
        /\ runLock' = None
    BY <1>4 DEF Commit
  <2>2. pc' \in [Finalisers -> ProgramCounters]
    BY <1>0, <1>4 DEF Commit, Go, ProgramCounters
  <2>3. IsRow(run')
    <3>1. Apart(seen[f]) /\ seen[f] \in SUBSET Executions
      BY <1>0 DEF TInv, Apart
    <3> QED
      BY <1>0, <2>1, <3>1, VerdictIsRow, WrittenIsRow
  <2> QED
    BY <1>0, <2>1, <2>2, <2>3, AuditTypeKept
<1>5. ASSUME NEW f \in Finalisers, Rollback(f) \/ FlushEvents(f) \/ LoseEvents(f)
      PROVE  TInv'
  <2>1. /\ UNCHANGED <<created, recorded, run, torn>> /\ Forget(f)
        /\ runLock' \in {runLock, None}
    BY <1>5 DEF Rollback, FlushEvents, LoseEvents
  <2>2. pc' \in [Finalisers -> ProgramCounters]
    BY <1>0, <1>5 DEF Rollback, FlushEvents, LoseEvents, Go, ProgramCounters
  <2>3. \A g \in Finalisers : /\ seen'[g] \in {seen[g], {}} /\ cites'[g] \in {cites[g], {}}
                              /\ loaded'[g] \in {loaded[g], NewRun}
                              /\ rivals'[g] \in {rivals[g], {}}
    BY <1>0, <2>1 DEF IsMap, Forget
  <2>4. \A g \in Finalisers : /\ seen'[g] \subseteq recorded /\ cites'[g] \subseteq Executions
                              /\ IsRow(loaded'[g]) /\ rivals'[g] \subseteq Executions
    BY <1>0, <2>3, NewRunIsRow
  <2> QED
    BY <1>0, <2>1, <2>2, <2>4, AuditTypeKept
<1>6. CASE UNCHANGED vars
  BY <1>6 DEF vars, TInv, TypeOK
<1> QED
  BY <1>1, <1>2, <1>3, <1>4, <1>5, <1>6 DEF Next, Advance

\* The score and the completeness in an audit_runs row are percentages, its counts are of
\* executions there are, and its status is one of the schema's, however many finalisations
\* write it over each other.
THEOREM AuditTypeCorrect == Spec => []TypeOK
<1>1. Spec => []TInv
  BY AuditTypeInit, AuditTypeStep, AInvAlways, PTL DEF Spec
<1>2. TInv => TypeOK
  BY DEF TInv
<1> QED
  BY <1>1, <1>2, PTL

-------------------------------------------------------------------------------
(* Citation detection.                                                      *)

\* A response that says a name or a place says the words of it.
Closed(t) ==
    /\ "locality" \in t => "locality_words" \in t
    /\ "city" \in t => "city_words" \in t

DInv == DetectionTypeOK /\ Closed(text)

-------------------------------------------------------------------------------
(* Reachable identities and responses.                                      *)

LEMMA ScoreIsTyped ==
    ASSUME NEW stored \in Scores
    PROVE  IdentityScore(stored) \in 0..100
BY DetectionAssumption DEF IdentityScore

LEMMA InitEstablishesDInv == DetectionInit => DInv
BY ScoreIsTyped DEF DetectionInit, DInv, DetectionTypeOK, Closed, Identities

LEMMA SayKeepsDInv ==
    ASSUME DInv, NEW m \in Sayings, Say(m)
    PROVE  DInv' /\ identity' = identity /\ text \subseteq text'
<1>1. identity' = identity /\ text \subseteq text'
  BY DEF Say
<1>2. DetectionTypeOK'
  BY <1>1 DEF DInv, DetectionTypeOK, Say, Sensible
<1>3. Closed(text')
  <2>1. m = "locality" => "locality_words" \in text'
    BY DEF Say, Implied, Sayings, Parts
  <2>2. m = "city" => "city_words" \in text'
    BY DEF Say, Implied, Sayings, Parts
  <2>3. "locality" \in text'
          => "locality" \in text \/ m = "locality" \/ "locality" \in Implied(identity, m)
    BY DEF Say
  <2>4. "city" \in text' => "city" \in text \/ m = "city" \/ "city" \in Implied(identity, m)
    BY DEF Say
  <2>5. "locality" \in Implied(identity, m) => m = "city" /\ identity.samePlace
    BY DEF Implied, Sayings, Parts
  <2>6. "city" \in Implied(identity, m) => m = "locality" /\ identity.samePlace
    BY DEF Implied, Sayings, Parts
  <2>7. m = "city" /\ identity.samePlace => "locality_words" \in text'
    BY DEF Say, Implied, Sayings, Parts
  <2>8. m = "locality" /\ identity.samePlace => "city_words" \in text'
    BY DEF Say, Implied, Sayings, Parts
  <2> QED
    BY <1>1, <2>1, <2>2, <2>3, <2>4, <2>5, <2>6, <2>7, <2>8 DEF DInv, Closed
<1> QED
  BY <1>1, <1>2, <1>3 DEF DInv

LEMMA StepKeepsDInv == DInv /\ [DetectionNext]_detectionVars => DInv'
<1> SUFFICES ASSUME DInv, [DetectionNext]_detectionVars PROVE DInv'
  OBVIOUS
<1>1. CASE \E m \in Sayings : Say(m)
  BY <1>1, SayKeepsDInv
<1>2. CASE UNCHANGED detectionVars
  BY <1>2 DEF DInv, DetectionTypeOK, Closed, Identities, Sensible, detectionVars
<1> QED
  BY <1>1, <1>2 DEF DetectionNext, AllSaid

-------------------------------------------------------------------------------
(* Fuller responses.                                                        *)

LEMMA PartsAreFinite == IsFiniteSet(Parts)
<1>1. IsFiniteSet({})
  BY FS_EmptySet
<1>2. IsFiniteSet({"alias"})
  BY <1>1, FS_AddElement, {} \union {"alias"} = {"alias"}
<1>3. IsFiniteSet({"alias", "phone"})
  BY <1>2, FS_AddElement, {"alias"} \union {"phone"} = {"alias", "phone"}
<1>4. IsFiniteSet({"alias", "phone", "website"})
  BY <1>3, FS_AddElement, {"alias", "phone"} \union {"website"} = {"alias", "phone", "website"}
<1>5. IsFiniteSet({"alias", "phone", "website", "locality"})
  BY <1>4, FS_AddElement,
     {"alias", "phone", "website"} \union {"locality"} = {"alias", "phone", "website", "locality"}
<1> QED
  BY <1>5, FS_AddElement,
     {"alias", "phone", "website", "locality"} \union {"city"} = Parts
     DEF Parts

\* Sets of parts are finite, and a larger one has no fewer.
LEMMA PartsCount ==
    ASSUME NEW S, NEW U, S \subseteq U, U \subseteq Parts
    PROVE  /\ Cardinality(S) \in Nat /\ Cardinality(U) \in Nat
           /\ Cardinality(S) <= Cardinality(U)
<1>1. IsFiniteSet(U)
  BY PartsAreFinite, FS_Subset
<1>2. IsFiniteSet(S)
  BY <1>1, FS_Subset
<1> QED
  BY <1>1, <1>2, FS_Subset, FS_CardinalityType

LEMMA MoreSignals ==
    ASSUME NEW i \in Identities, NEW t, NEW u, t \subseteq u
    PROVE  /\ Signals(i, t) \subseteq Signals(i, u) /\ Signals(i, u) \subseteq Parts
           /\ Cardinality(Signals(i, t)) \in Nat /\ Cardinality(Signals(i, u)) \in Nat
           /\ Cardinality(Signals(i, t)) <= Cardinality(Signals(i, u))
<1>1. i.has \subseteq Parts
  BY DEF Identities
<1>2. Signals(i, t) \subseteq Signals(i, u) /\ Signals(i, u) \subseteq Parts
  BY <1>1 DEF Signals
<1> QED
  BY <1>2, PartsCount

LEMMA GateStaysOpen ==
    ASSUME NEW i \in Identities, NEW t, NEW u, t \subseteq u, PassesGate(i, t)
    PROVE  PassesGate(i, u)
<1>1. i.score \in 0..100
  BY DEF Identities
<1> QED
  BY <1>1, MoreSignals DEF PassesGate

LEMMA MoreWords ==
    ASSUME NEW i \in Identities, NEW t, NEW u, t \subseteq u
    PROVE  /\ AddressWords(i, t) \in Nat /\ AddressWords(i, u) \in Nat
           /\ AddressWords(i, t) <= AddressWords(i, u)
<1>1. i.localityWords \in Nat /\ i.cityWords \in Nat
  BY DetectionAssumption DEF Identities
<1> QED
  BY <1>1 DEF AddressWords

StageNames == {"exact_name", "alias", "phone", "website", "address", "fuzzy_name", "composite"}

\* A stage that recognises the business in a response does in a fuller one.
LEMMA StagesAreMonotone ==
    ASSUME NEW i \in Identities, NEW t, NEW u, t \subseteq u,
           NEW stage \in StageNames, Recognises(stage, i, t)
    PROVE  Recognises(stage, i, u)
<1>1. CASE stage = "exact_name"
  BY <1>1, GateStaysOpen DEF Recognises
<1>2. CASE stage = "alias"
  BY <1>2, GateStaysOpen, MoreSignals DEF Recognises
<1>3. CASE stage \in {"phone", "website"}
  BY <1>3, MoreSignals DEF Recognises
<1>4. CASE stage = "address"
  BY <1>4, MoreWords DEF Recognises
<1>5. CASE stage = "fuzzy_name"
  BY <1>5, MoreSignals DEF Recognises
<1>6. CASE stage = "composite"
  BY <1>6, MoreSignals DEF Recognises
<1> QED
  BY <1>1, <1>2, <1>3, <1>4, <1>5, <1>6 DEF StageNames

LEMMA StagesInOrder ==
    /\ DOMAIN Stages = 1..7
    /\ Stages[1] = "exact_name" /\ Stages[2] = "alias" /\ Stages[3] = "phone"
    /\ Stages[4] = "website" /\ Stages[5] = "address" /\ Stages[6] = "fuzzy_name"
    /\ Stages[7] = "composite"
    /\ \A n \in 1..7 : Stages[n] \in StageNames
BY DEF Stages, StageNames

LEMMA HitsByName ==
    ASSUME NEW i, NEW t
    PROVE  /\ 2 \in Hits(i, t) <=> Recognises("alias", i, t)
           /\ 3 \in Hits(i, t) <=> Recognises("phone", i, t)
           /\ 4 \in Hits(i, t) <=> Recognises("website", i, t)
           /\ 5 \in Hits(i, t) <=> Recognises("address", i, t)
           /\ 6 \in Hits(i, t) <=> Recognises("fuzzy_name", i, t)
           /\ 7 \in Hits(i, t) <=> Recognises("composite", i, t)
<1>1. \A n \in 1..7 : n \in Hits(i, t) <=> Recognises(Stages[n], i, t)
  BY StagesInOrder DEF Hits
<1> QED
  BY <1>1, StagesInOrder

LEMMA MoreHits ==
    ASSUME NEW i \in Identities, NEW t, NEW u, t \subseteq u
    PROVE  Hits(i, t) \subseteq Hits(i, u) /\ Hits(i, u) \subseteq 1..7
BY StagesInOrder, StagesAreMonotone DEF Hits

\* What a response that says more is, if the smaller one is a citation: a citation.
THEOREM CitedStaysCited ==
    ASSUME NEW i \in Identities, NEW t, NEW u, t \subseteq u, IsCited(i, t)
    PROVE  IsCited(i, u)
BY MoreHits DEF IsCited

-------------------------------------------------------------------------------
\* However many things are said of the business one after the other, from the first response
\* that cites it on all do (CitationDetector.detect, whose stages are tried in turn).
THEOREM MoreSaidStaysCitedHolds == DetectionSpec => MoreSaidStaysCited
<1>1. DInv /\ [DetectionNext]_detectionVars
        => [IsCited(identity, text) => IsCited(identity, text)']_detectionVars
  <2> SUFFICES ASSUME DInv, DetectionNext, IsCited(identity, text) PROVE IsCited(identity, text)'
    BY DEF detectionVars, IsCited, Hits, Recognises, PassesGate, Signals, AddressWords
  <2>1. identity' = identity /\ text \subseteq text'
    BY SayKeepsDInv DEF DetectionNext, AllSaid, detectionVars
  <2> QED
    BY <2>1, CitedStaysCited DEF DInv, DetectionTypeOK
<1> QED
  BY <1>1, InitEstablishesDInv, StepKeepsDInv, PTL DEF DetectionSpec, MoreSaidStaysCited

-------------------------------------------------------------------------------
(* Confidence.                                                              *)

\* A set of stages that is not empty has a first one.
LEMMA FirstOfStages ==
    ASSUME NEW H \in SUBSET (1..7), H # {}
    PROVE  \E n \in H : \A m \in H : n <= m
<1>1. CASE 1 \in H
  BY <1>1
<1>2. CASE 1 \notin H /\ 2 \in H
  BY <1>2
<1>3. CASE 1 \notin H /\ 2 \notin H /\ 3 \in H
  BY <1>3
<1>4. CASE 1 \notin H /\ 2 \notin H /\ 3 \notin H /\ 4 \in H
  BY <1>4
<1>5. CASE 1 \notin H /\ 2 \notin H /\ 3 \notin H /\ 4 \notin H /\ 5 \in H
  BY <1>5
<1>6. CASE 1 \notin H /\ 2 \notin H /\ 3 \notin H /\ 4 \notin H /\ 5 \notin H /\ 6 \in H
  BY <1>6
<1>7. CASE 1 \notin H /\ 2 \notin H /\ 3 \notin H /\ 4 \notin H /\ 5 \notin H /\ 6 \notin H
  <2>1. \A m \in H : m = 7
    BY <1>7
  <2>2. 7 \in H
    BY <2>1
  <2> QED
    BY <2>1, <2>2
<1> QED
  BY <1>1, <1>2, <1>3, <1>4, <1>5, <1>6, <1>7

\* n is the first stage that recognises the business in t.
First(n, i, t) == n \in Hits(i, t) /\ \A m \in Hits(i, t) : n <= m

LEMMA MatchIsFirst ==
    ASSUME NEW i \in Identities, NEW t, IsCited(i, t)
    PROVE  \E n \in 1..7 : First(n, i, t) /\ MatchType(i, t) = Stages[n]
<1>1. Hits(i, t) \in SUBSET (1..7) /\ Hits(i, t) # {}
  BY MoreHits DEF IsCited
<1>2. \E n \in Hits(i, t) : \A m \in Hits(i, t) : n <= m
  BY <1>1, FirstOfStages
<1> DEFINE n == CHOOSE n \in Hits(i, t) : \A m \in Hits(i, t) : n <= m
<1>3. n \in Hits(i, t) /\ \A m \in Hits(i, t) : n <= m
  BY <1>2
<1>4. MatchType(i, t) = Stages[n]
  BY DEF MatchType
<1> HIDE DEF n
<1> QED
  BY <1>1, <1>3, <1>4 DEF First

\* A number no greater than 99 for the count of the boosts and the base of a stage.
Capped(base, count) == IF base + 5 * count > 99 THEN 99 ELSE base + 5 * count

\* The signals that boost the confidence of a stage.
Boosts(stage, i, t) == Signals(i, t) \ ({stage} \intersect {"phone", "website"})

LEMMA ConfidenceOfMatch ==
    ASSUME NEW i \in Identities, NEW t, NEW n \in 1..7, MatchType(i, t) = Stages[n]
    PROVE  Confidence(i, t) = Capped(Base[Stages[n]], Cardinality(Boosts(Stages[n], i, t)))
BY StagesInOrder, NothingIsNoStage DEF Confidence, Capped, Boosts


LEMMA NotCitedNotConfident ==
    ASSUME NEW i, NEW t, ~IsCited(i, t)
    PROVE  MatchType(i, t) = Nothing /\ Confidence(i, t) = 0
BY DEF MatchType, Confidence

LEMMA MoreBoosts ==
    ASSUME NEW i \in Identities, NEW t, NEW u, t \subseteq u, NEW stage \in StageNames
    PROVE  /\ Boosts(stage, i, t) \subseteq Boosts(stage, i, u)
           /\ Cardinality(Boosts(stage, i, t)) \in Nat /\ Cardinality(Boosts(stage, i, u)) \in Nat
           /\ Cardinality(Boosts(stage, i, t)) <= Cardinality(Boosts(stage, i, u))
<1>1. Boosts(stage, i, t) \subseteq Boosts(stage, i, u) /\ Boosts(stage, i, u) \subseteq Parts
  BY MoreSignals DEF Boosts
<1> QED
  BY <1>1, PartsCount

LEMMA Bases ==
    /\ Base["exact_name"] = 99 /\ Base["alias"] = 95 /\ Base["phone"] = 99
    /\ Base["website"] = 95 /\ Base["address"] = 80 /\ Base["fuzzy_name"] = 75
    /\ Base["composite"] = 85
BY DEF Base

LEMMA CappedIsMonotone ==
    ASSUME NEW b \in Nat, NEW c \in Nat, NEW k \in Nat, NEW l \in Nat, b <= c, k <= l
    PROVE  /\ Capped(b, k) <= Capped(c, l)
           /\ Capped(b, k) \in 0..99
BY DEF Capped

\* A part that is not there can be counted.
LEMMA OneCounts ==
    ASSUME NEW S, S \subseteq Parts, NEW x \in S
    PROVE  Cardinality(S) >= 1
<1>1. IsFiniteSet(S)
  BY PartsAreFinite, FS_Subset
<1> QED
  BY <1>1, FS_EmptySet, FS_CardinalityType

\* Stages 1 to 3 are sure of themselves; whatever was said of the business before is no more so.
LEMMA FirstThreeAreSure ==
    ASSUME NEW i \in Identities, NEW t, NEW n \in 1..3, First(n, i, t), MatchType(i, t) = Stages[n]
    PROVE  Confidence(i, t) = 99
<1>1. Confidence(i, t) = Capped(Base[Stages[n]], Cardinality(Boosts(Stages[n], i, t)))
  BY ConfidenceOfMatch
<1>2. Cardinality(Boosts(Stages[n], i, t)) \in Nat
  <2>1. n \in 1..7
    OBVIOUS
  <2>2. Stages[n] \in StageNames
    BY <2>1, StagesInOrder
  <2> QED
    BY <2>2, MoreBoosts
<1>3. CASE n \in {1, 3}
  <2>1. Base[Stages[n]] = 99
    BY <1>3, StagesInOrder, Bases
  <2> QED
    BY <1>1, <1>2, <2>1 DEF Capped
<1>4. CASE n = 2
  <2>1. "alias" \in Signals(i, t)
    BY <1>4, StagesInOrder DEF First, Hits, Recognises
  <2>2. "alias" \in Boosts("alias", i, t) /\ Boosts("alias", i, t) \subseteq Parts
    BY <2>1, MoreSignals DEF Boosts
  <2>3. Cardinality(Boosts("alias", i, t)) >= 1
    BY <2>2, OneCounts
  <2> QED
    BY <1>1, <1>2, <1>4, <2>3, StagesInOrder, Bases DEF Capped
<1> QED
  BY <1>3, <1>4

\* What stages 5 to 7 know of the signals: a website would have been recognised before.
LEMMA NoWebsite ==
    ASSUME NEW i \in Identities, NEW t, NEW n \in 5..7, First(n, i, t)
    PROVE  "website" \notin Signals(i, t) /\ "phone" \notin Signals(i, t)
<1>1. 4 \notin Hits(i, t) /\ 3 \notin Hits(i, t)
  BY DEF First
<1> QED
  BY <1>1, HitsByName DEF Recognises

\* A composite match has the locality and the city, and the words of both.
LEMMA CompositeHasPlace ==
    ASSUME NEW i \in Identities, NEW t, Closed(t), First(7, i, t)
    PROVE  {"locality_words", "city_words"} \subseteq t
<1>1. Cardinality(Signals(i, t)) >= 2
  BY StagesInOrder DEF First, Hits, Recognises
<1>2. Signals(i, t) \subseteq Parts /\ Cardinality(Signals(i, t)) \in Nat
  BY MoreSignals
<1>3. "alias" \notin Signals(i, t)
  <2>1. PassesGate(i, t)
    BY <1>1, <1>2 DEF PassesGate
  <2>2. 2 \notin Hits(i, t)
    BY DEF First
  <2> QED
    BY <2>1, <2>2, HitsByName DEF Recognises
<1>4. Signals(i, t) \subseteq {"locality", "city"}
  BY <1>2, <1>3, NoWebsite DEF Parts
<1>5. "locality" \in Signals(i, t)
  <2>1. SUFFICES ASSUME "locality" \notin Signals(i, t) PROVE FALSE
    OBVIOUS
  <2>2. Signals(i, t) \subseteq {"city"}
    BY <1>4, <2>1
  <2>3. Cardinality({"city"}) = 1 /\ IsFiniteSet({"city"})
    BY FS_Singleton
  <2> QED
    BY <1>1, <1>2, <2>2, <2>3, FS_Subset
<1>6. "city" \in Signals(i, t)
  <2>1. SUFFICES ASSUME "city" \notin Signals(i, t) PROVE FALSE
    OBVIOUS
  <2>2. Signals(i, t) \subseteq {"locality"}
    BY <1>4, <2>1
  <2>3. Cardinality({"locality"}) = 1 /\ IsFiniteSet({"locality"})
    BY FS_Singleton
  <2> QED
    BY <1>1, <1>2, <2>2, <2>3, FS_Subset
<1> QED
  BY <1>5, <1>6 DEF Signals, Closed

\* A composite match is not overtaken by the address, whose words it has already.
LEMMA CompositeNotAddress ==
    ASSUME NEW i \in Identities, NEW t, NEW u, Closed(t), t \subseteq u, First(7, i, t)
    PROVE  5 \notin Hits(i, u)
<1>1. {"locality_words", "city_words"} \subseteq t /\ {"locality_words", "city_words"} \subseteq u
  BY CompositeHasPlace
<1>2. AddressWords(i, u) = AddressWords(i, t)
  BY <1>1 DEF AddressWords
<1>3. 5 \notin Hits(i, t)
  BY DEF First
<1> QED
  BY <1>2, <1>3, StagesInOrder DEF Hits, Recognises

LEMMA ConfidenceIsBounded ==
    ASSUME NEW i \in Identities, NEW t
    PROVE  Confidence(i, t) \in 0..99
<1>1. CASE ~IsCited(i, t)
  BY <1>1, NotCitedNotConfident
<1>2. CASE IsCited(i, t)
  <2>1. PICK n \in 1..7 : First(n, i, t) /\ MatchType(i, t) = Stages[n]
    BY <1>2, MatchIsFirst
  <2>2. Confidence(i, t) = Capped(Base[Stages[n]], Cardinality(Boosts(Stages[n], i, t)))
    BY <2>1, ConfidenceOfMatch
  <2>3. Stages[n] \in StageNames
    BY StagesInOrder
  <2>4. Cardinality(Boosts(Stages[n], i, t)) \in Nat
    BY <2>3, MoreBoosts
  <2>5. Base[Stages[n]] \in Nat
    BY <2>3, Bases DEF StageNames
  <2> HIDE DEF Boosts
  <2> QED
    BY <2>2, <2>4, <2>5 DEF Capped
<1> QED
  BY <1>1, <1>2

\* A stage of no smaller base that is boosted by no less is no less confident.
LEMMA NoLessConfident ==
    ASSUME NEW i \in Identities, NEW t, NEW u, NEW n \in 1..7, NEW k \in 1..7,
           MatchType(i, t) = Stages[n], MatchType(i, u) = Stages[k],
           Base[Stages[n]] <= Base[Stages[k]],
           Boosts(Stages[n], i, t) \subseteq Boosts(Stages[k], i, u)
    PROVE  Confidence(i, t) <= Confidence(i, u)
<1>1. Stages[n] \in StageNames /\ Stages[k] \in StageNames
  BY StagesInOrder
<1>2. Base[Stages[n]] \in Nat /\ Base[Stages[k]] \in Nat
  BY <1>1, Bases DEF StageNames
<1>3. Boosts(Stages[k], i, u) \subseteq Parts
  BY MoreSignals DEF Boosts
<1>4. /\ Cardinality(Boosts(Stages[n], i, t)) \in Nat
      /\ Cardinality(Boosts(Stages[k], i, u)) \in Nat
      /\ Cardinality(Boosts(Stages[n], i, t)) <= Cardinality(Boosts(Stages[k], i, u))
  BY <1>3, PartsCount
<1>5. /\ Confidence(i, t) = Capped(Base[Stages[n]], Cardinality(Boosts(Stages[n], i, t)))
      /\ Confidence(i, u) = Capped(Base[Stages[k]], Cardinality(Boosts(Stages[k], i, u)))
  BY ConfidenceOfMatch
<1> HIDE DEF Boosts
<1> QED
  BY <1>2, <1>4, <1>5 DEF Capped

\* The stages after the website's are boosted by every signal, the website not among them.
LEMMA LateBoosts ==
    ASSUME NEW i \in Identities, NEW t, NEW u, t \subseteq u, NEW n \in 5..7, First(n, i, t),
           NEW k \in 4..7
    PROVE  Boosts(Stages[n], i, t) \subseteq Boosts(Stages[k], i, u)
<1>1. Signals(i, t) \subseteq Signals(i, u)
  BY MoreSignals
<1>2. "website" \notin Signals(i, t) /\ "phone" \notin Signals(i, t)
  BY NoWebsite
<1> QED
  BY <1>1, <1>2 DEF Boosts

\* Of a response and a fuller one, the fuller is less confident in one case only.
LEMMA ConfidenceFalls ==
    ASSUME NEW i \in Identities, NEW t, NEW u, Closed(t), t \subseteq u,
           Confidence(i, u) < Confidence(i, t)
    PROVE  MatchType(i, t) = "composite" /\ MatchType(i, u) = "fuzzy_name"
<1>1. Confidence(i, t) \in 0..99 /\ Confidence(i, u) \in 0..99
  BY ConfidenceIsBounded
<1>2. IsCited(i, t)
  <2>1. SUFFICES ASSUME ~IsCited(i, t) PROVE FALSE
    OBVIOUS
  <2> QED
    BY <1>1, <2>1, NotCitedNotConfident
<1>3. IsCited(i, u)
  BY <1>2, CitedStaysCited
<1>4. PICK n \in 1..7 : First(n, i, t) /\ MatchType(i, t) = Stages[n]
  BY <1>2, MatchIsFirst
<1>5. PICK k \in 1..7 : First(k, i, u) /\ MatchType(i, u) = Stages[k]
  BY <1>3, MatchIsFirst
<1>6. k <= n
  BY <1>4, <1>5, MoreHits DEF First
<1>7. k \notin 1..3
  BY <1>1, <1>5, FirstThreeAreSure
<1>8. k \in 4..7 /\ n \in 4..7
  BY <1>6, <1>7
<1>9. Stages[n] \in StageNames
  BY StagesInOrder
<1>10. ~ /\ Base[Stages[n]] <= Base[Stages[k]]
         /\ Boosts(Stages[n], i, t) \subseteq Boosts(Stages[k], i, u)
  BY <1>1, <1>4, <1>5, NoLessConfident
<1>11. n # 4
  <2>1. SUFFICES ASSUME n = 4 PROVE FALSE
    OBVIOUS
  <2>2. k = n
    BY <1>6, <1>8, <2>1
  <2>3. Boosts(Stages[n], i, t) \subseteq Boosts(Stages[k], i, u)
    BY <1>9, <2>2, MoreBoosts
  <2> QED
    BY <1>10, <2>1, <2>2, <2>3, StagesInOrder, Bases
<1>12. Boosts(Stages[n], i, t) \subseteq Boosts(Stages[k], i, u)
  BY <1>4, <1>8, <1>11, LateBoosts
<1>13. ~(Base[Stages[n]] <= Base[Stages[k]])
  BY <1>10, <1>12
<1>14. n = 7 /\ k \in {5, 6}
  BY <1>6, <1>8, <1>11, <1>13, StagesInOrder, Bases
<1>15. k # 5
  BY <1>4, <1>5, <1>14, CompositeNotAddress DEF First
<1> QED
  BY <1>4, <1>5, <1>14, <1>15, StagesInOrder

\* Whatever a response goes on to say, the detector is less confident of it only where words
\* close to the name turn a composite match into a fuzzy one (_boost_confidence, detect).
THEOREM OnlyNearMissesLowerHolds == DetectionSpec => OnlyNearMissesLower
<1>1. DInv /\ [DetectionNext]_detectionVars =>
        [Confidence(identity, text)' < Confidence(identity, text) =>
            /\ MatchType(identity, text) = "composite"
            /\ MatchType(identity, text)' = "fuzzy_name"]_detectionVars
  <2> SUFFICES ASSUME DInv, DetectionNext, Confidence(identity, text)' < Confidence(identity, text)
               PROVE  /\ MatchType(identity, text) = "composite"
                      /\ MatchType(identity, text)' = "fuzzy_name"
    BY DEF detectionVars
  <2>1. identity' = identity /\ text \subseteq text'
    BY SayKeepsDInv DEF DetectionNext, AllSaid, detectionVars
  <2>2. identity \in Identities /\ Closed(text)
    BY DEF DInv, DetectionTypeOK
  <2>3. /\ Confidence(identity, text)' = Confidence(identity, text')
        /\ MatchType(identity, text)' = MatchType(identity, text')
    BY <2>1
  <2> QED
    BY <2>1, <2>2, <2>3, ConfidenceFalls
<1> QED
  BY <1>1, InitEstablishesDInv, StepKeepsDInv, PTL DEF DetectionSpec, OnlyNearMissesLower

\* Identities keep their type and responses say what can be said.
THEOREM DetectionTypeCorrect == DetectionSpec => []DetectionTypeOK
<1>1. DInv => DetectionTypeOK
  BY DEF DInv
<1> QED
  BY <1>1, InitEstablishesDInv, StepKeepsDInv, PTL DEF DetectionSpec
===============================================================================
