------------------------------ MODULE LLMGateway ------------------------------
(***************************************************************************)
(* LLMGateway.complete (app/modules/content/gateway.py) for one business:  *)
(* concurrent calls check the monthly budget, look in the process's cache, *)
(* try the primary, the secondary and the static provider, and add what    *)
(* the answer cost to the month's usage counter.  Every call is part of    *)
(* its caller's database transaction, so the counter a call reads is the   *)
(* committed one, and what it writes is seen only after the commit; the    *)
(* cache is a plain dictionary and knows nothing of transactions.          *)
(* The names differ from those of ContentBriefs, so that ContentProofs can *)
(* prove theorems about both modules.                                      *)
(***************************************************************************)
EXTENDS Integers, FiniteSets, FiniteSetsExt

CONSTANTS
    Callers,        \* the coroutines that call the gateway, one call at a time each
    Keys,           \* cache keys: prompt, version, parameters and locale
    Deterministic,  \* the keys whose prompt version has temperature 0
    Budget,         \* _MONTHLY_BUDGET_INR
    Estimate,       \* the estimated cost of a call
    MaxCost,        \* the most a provider's answer costs
    ProviderCosts,  \* what a provider's answer may cost
    Months,         \* bound: the number of billing periods
    MaxCalls,       \* bound: the number of calls made
    Nothing

Costs == 0..MaxCost

ASSUME GatewayAssumption ==
    /\ IsFiniteSet(Callers)
    /\ Deterministic \subseteq Keys
    /\ Budget \in Nat /\ Estimate \in Nat /\ MaxCost \in Nat
    /\ Estimate <= Budget
    /\ ProviderCosts \subseteq Costs
    /\ Months \in Nat \ {0}
    /\ MaxCalls \in Nat
    /\ Nothing \notin Callers

VARIABLES
    counter,    \* counter[p]: the committed usage_counters row of month p
    rowLock,    \* rowLock[p]: the transaction that has written that row
    cache,      \* cache[k]: the source of the cached text, or "none"
    call,       \* call[c]: the call c is making
    month,      \* the current month
    started,    \* the number of calls made so far
    ledger,     \* history: totals of the committed llm_calls rows of the business
    exempt      \* history: exempt[p], what calls that skip the budget added to p

gatewayVars == <<counter, rowLock, cache, call, month, started, ledger, exempt>>

-------------------------------------------------------------------------------
Periods == 1..Months

MaxRetries == 3

\* A call for a content brief is checked against the budget, one for the purpose
\* audit_quick_wins (which has no caller: the quick wins of a report ask the engines' gateway)
\* is not, and one without a business is neither checked nor counted.
Kinds == {"brief", "quick_wins", "no_business"}

\* Who produced a text.
Sources == {"provider", "static"}

\* The points of an open transaction, and the ones past the budget check.
PastCheck == {"cache", "primary", "secondary", "static", "increment", "commit"}
GatewayOpenPoints == {"check", "insert", "refused"} \union PastCheck

NoRow == [exists |-> FALSE, calls |-> 0, cost |-> 0]

\* inserted and charged are the months whose counter row the transaction inserts and
\* increments (0 for none); source is who wrote the text, and provider who answered,
\* as LLMResult and the LLMCall row name it.
Idle == [pc |-> "idle", kind |-> "brief", key |-> Nothing, attempt |-> 0, inserted |-> 0,
         charged |-> 0, source |-> "provider", provider |-> "provider", cost |-> 0]

Points == {"idle"} \union GatewayOpenPoints
Attempts == 0..(MaxRetries - 1)
NoneOrPeriods == {0} \union Periods

Calls == [pc : Points, kind : Kinds, key : Keys \union {Nothing}, attempt : Attempts,
          inserted : NoneOrPeriods, charged : NoneOrPeriods,
          source : Sources, provider : Sources \union {"cache"}, cost : Costs]

GatewayTypeOK ==
    /\ counter \in [Periods -> [exists : BOOLEAN, calls : Nat, cost : Nat]]
    /\ rowLock \in [Periods -> Callers \union {Nothing}]
    /\ cache \in [Keys -> Sources \union {"none"}]
    /\ call \in [Callers -> Calls]
    /\ month \in Periods
    /\ started \in 0..MaxCalls
    /\ ledger \in [calls : Nat, hits : Nat, cost : Nat]
    /\ exempt \in [Periods -> Nat]

GatewayInit ==
    /\ counter = [p \in Periods |-> NoRow]
    /\ rowLock = [p \in Periods |-> Nothing]
    /\ cache = [k \in Keys |-> "none"]
    /\ call = [c \in Callers |-> Idle]
    /\ month = 1
    /\ started = 0
    /\ ledger = [calls |-> 0, hits |-> 0, cost |-> 0]
    /\ exempt = [p \in Periods |-> 0]

database == <<counter, rowLock, ledger, exempt>>
clock == <<month, started>>

-------------------------------------------------------------------------------
(* The budget check.                                                        *)

\* The prompt version is resolved; only some calls are checked.
Start(c) ==
    /\ call[c].pc = "idle"
    /\ started < MaxCalls
    /\ started' = started + 1
    /\ \E kind \in Kinds, key \in Keys :
        call' = [call EXCEPT ![c] = [Idle EXCEPT
                     !.pc = IF kind = "brief" THEN "check" ELSE "cache",
                     !.kind = kind, !.key = key]]
    /\ UNCHANGED <<database, cache, month>>

\* Faulty variant: the call to come is left out of the comparison.
AlreadySpent(cost) == cost <= Budget
WithinBudget(cost) == cost + Estimate <= Budget

\* _check_budget: get_or_create reads the month's row and takes no lock.
CheckBudget(c) ==
    /\ call[c].pc = "check"
    /\ LET row == counter[month]
           next == IF ~row.exists THEN "insert"
                   ELSE IF WithinBudget(row.cost) THEN "cache" ELSE "refused"
       IN call' = [call EXCEPT ![c].pc = next,
                               ![c].inserted = IF row.exists THEN 0 ELSE month]
    /\ UNCHANGED <<database, cache, clock>>

\* get_or_create did not find the row: its INSERT waits for a transaction that has
\* written the same key, and fails if that one committed.
InsertCounter(c) ==
    LET p == call[c].inserted IN
    /\ call[c].pc = "insert"
    /\ rowLock[p] = Nothing
    /\ IF counter[p].exists
       THEN /\ call' = [call EXCEPT ![c] = Idle]
            /\ UNCHANGED rowLock
       ELSE /\ call' = [call EXCEPT ![c].pc = IF WithinBudget(0) THEN "cache" ELSE "refused"]
            /\ rowLock' = [rowLock EXCEPT ![p] = c]
    /\ UNCHANGED <<counter, ledger, exempt, cache, clock>>

-------------------------------------------------------------------------------
(* The cache and the providers.                                             *)

\* A deterministic prompt is looked up; a hit is answered at no cost, as "cache".
LookUpCache(c) ==
    LET k == call[c].key IN
    /\ call[c].pc = "cache"
    /\ IF k \in Deterministic /\ cache[k] # "none"
       THEN call' = [call EXCEPT ![c].pc = "commit", ![c].provider = "cache",
                                    ![c].source = cache[k]]
       ELSE call' = [call EXCEPT ![c].pc = "primary"]
    /\ UNCHANGED <<database, cache, clock>>

\* The text of an answer is the call's; its LLMCall row is written, and the period to charge
\* is the month it is by then, however long the call goes on to wait for that month's row.
Answered(s, source, cost) ==
    [s EXCEPT !.pc = "increment", !.attempt = 0,
              !.source = source, !.provider = source, !.cost = cost,
              !.charged = IF s.kind = "no_business" THEN 0 ELSE month]

\* Faulty variants: one attempt too many; a retry loop that starts over.
RetryOnceMore(c) ==
    /\ call[c].pc = "primary"
    /\ \/ \E cost \in ProviderCosts :
            call' = [call EXCEPT ![c] = Answered(call[c], "provider", cost)]
       \/ /\ call[c].attempt < MaxRetries
          /\ call' = [call EXCEPT ![c].attempt = @ + 1]
       \/ call' = [call EXCEPT ![c].pc = "secondary", ![c].attempt = 0]
    /\ UNCHANGED <<database, cache, clock>>
RetryForEver(c) ==
    /\ call[c].pc = "primary"
    /\ \/ \E cost \in ProviderCosts :
            call' = [call EXCEPT ![c] = Answered(call[c], "provider", cost)]
       \/ call' = [call EXCEPT ![c].attempt = (@ + 1) % MaxRetries]
       \/ call' = [call EXCEPT ![c].pc = "secondary", ![c].attempt = 0]
    /\ UNCHANGED <<database, cache, clock>>

\* The primary provider answers, is rate limited or times out and is tried again
\* (three times in all), or fails for good.
TryPrimary(c) ==
    /\ call[c].pc = "primary"
    /\ \/ \E cost \in ProviderCosts :
            call' = [call EXCEPT ![c] = Answered(call[c], "provider", cost)]
       \/ /\ call[c].attempt < MaxRetries - 1
          /\ call' = [call EXCEPT ![c].attempt = @ + 1]
       \/ call' = [call EXCEPT ![c].pc = "secondary", ![c].attempt = 0]
    /\ UNCHANGED <<database, cache, clock>>

\* The secondary provider is tried once; whatever it raises is swallowed.
TrySecondary(c) ==
    /\ call[c].pc = "secondary"
    /\ \/ \E cost \in ProviderCosts :
            call' = [call EXCEPT ![c] = Answered(call[c], "provider", cost)]
       \/ call' = [call EXCEPT ![c].pc = "static"]
    /\ UNCHANGED <<database, cache, clock>>

\* The static provider always answers, at no cost.
AnswerFromTemplate(c) ==
    /\ call[c].pc = "static"
    /\ call' = [call EXCEPT ![c] = Answered(call[c], "static", 0)]
    /\ UNCHANGED <<database, cache, clock>>

-------------------------------------------------------------------------------
(* Counting what the answer cost.                                           *)

Store(c) ==
    cache' = IF call[c].key \in Deterministic
             THEN [cache EXCEPT ![call[c].key] = call[c].source] ELSE cache

\* UsageCounterRepository.increment: an upsert on the row of the month the answer came in,
\* which waits for another transaction's lock, perhaps into the next month; then the answer
\* is cached.
Increment(c) ==
    LET p == call[c].charged IN
    /\ call[c].pc = "increment"
    /\ IF p = 0
       THEN UNCHANGED rowLock
       ELSE /\ rowLock[p] \in {Nothing, c}
            /\ rowLock' = [rowLock EXCEPT ![p] = c]
    /\ call' = [call EXCEPT ![c].pc = "commit"]
    /\ Store(c)
    /\ UNCHANGED <<counter, ledger, exempt, clock>>

GatewayRelease(c) == rowLock' = [p \in Periods |-> IF rowLock[p] = c THEN Nothing ELSE rowLock[p]]

\* Faulty variant: the upsert replaces the cost instead of adding to it.
ReplaceInRow(c, p) ==
    [exists |-> TRUE, calls |-> counter[p].calls + 1, cost |-> call[c].cost]
AddToRow(c, p) ==
    [exists |-> TRUE, calls |-> counter[p].calls + 1, cost |-> counter[p].cost + call[c].cost]

\* The caller's transaction commits the llm_calls row and the counter rows.
GatewayCommit(c) ==
    LET s == call[c] IN
    /\ s.pc = "commit"
    /\ counter' = [p \in Periods |->
                      IF p = s.charged THEN AddToRow(c, p)
                      ELSE IF p = s.inserted THEN [NoRow EXCEPT !.exists = TRUE]
                      ELSE counter[p]]
    /\ ledger' = IF s.kind = "no_business" THEN ledger
                 ELSE IF s.provider = "cache" THEN [ledger EXCEPT !.hits = @ + 1]
                 ELSE [ledger EXCEPT !.calls = @ + 1, !.cost = @ + s.cost]
    /\ exempt' = [p \in Periods |->
                     IF p = s.charged /\ s.kind # "brief" THEN exempt[p] + s.cost ELSE exempt[p]]
    /\ GatewayRelease(c)
    /\ call' = [call EXCEPT ![c] = Idle]
    /\ UNCHANGED <<cache, clock>>

\* BudgetExceededError: generate_brief goes on with template text and a prompt version
\* that does not exist, and its transaction is refused.
Refuse(c) ==
    /\ call[c].pc = "refused"
    /\ GatewayRelease(c)
    /\ call' = [call EXCEPT ![c] = Idle]
    /\ UNCHANGED <<counter, ledger, exempt, cache, clock>>

\* An error, a cancelled request or a crashed caller rolls its transaction back; what
\* the call put in the cache stays there.
GatewayRollback(c) ==
    /\ call[c].pc \in GatewayOpenPoints
    /\ GatewayRelease(c)
    /\ call' = [call EXCEPT ![c] = Idle]
    /\ UNCHANGED <<counter, ledger, exempt, cache, clock>>

-------------------------------------------------------------------------------
(* The environment.                                                         *)

NextMonth ==
    /\ month < Months
    /\ month' = month + 1
    /\ UNCHANGED <<database, cache, call, started>>

\* The entry outlives its time, or the process that holds the cache restarts.
Expire(k) ==
    /\ cache[k] # "none"
    /\ cache' = [cache EXCEPT ![k] = "none"]
    /\ UNCHANGED <<database, call, clock>>

\* The bounds are used up.
GatewayFinished ==
    /\ started = MaxCalls /\ month = Months
    /\ \A c \in Callers : call[c].pc = "idle"
    /\ \A k \in Keys : cache[k] = "none"
    /\ UNCHANGED gatewayVars

GatewayAdvance(c) ==
    \/ CheckBudget(c)
    \/ LookUpCache(c)
    \/ TryPrimary(c)
    \/ TrySecondary(c)
    \/ AnswerFromTemplate(c)
    \/ GatewayCommit(c)
    \/ Refuse(c)

GatewayNext ==
    \/ \E c \in Callers :
        \/ Start(c)
        \/ GatewayAdvance(c)
        \/ InsertCounter(c)
        \/ Increment(c)
        \/ GatewayRollback(c)
    \/ NextMonth
    \/ \E k \in Keys : Expire(k)
    \/ GatewayFinished

GatewaySpec == GatewayInit /\ [][GatewayNext]_gatewayVars

\* A coroutine is resumed when what it awaits has returned; provider calls have a
\* time-out.  PostgreSQL grants a row lock in the order it was asked for, so a
\* transaction that waits again and again eventually gets it.
GatewayFairSpec ==
    /\ GatewaySpec
    /\ \A c \in Callers : WF_gatewayVars(GatewayAdvance(c))
    /\ \A c \in Callers : SF_gatewayVars(InsertCounter(c)) /\ SF_gatewayVars(Increment(c))

-------------------------------------------------------------------------------
(* Properties.                                                              *)

SumOver(f) == MapThenSumSet(LAMBDA p : f[p], Periods)

\* The counters and the llm_calls rows tell the same story, whatever calls overlap, fail
\* or wait for a counter's row into another month: no increment is lost and none is made
\* twice.
CounterMatchesLedger ==
    /\ SumOver([p \in Periods |-> counter[p].calls]) = ledger.calls
    /\ SumOver([p \in Periods |-> counter[p].cost]) = ledger.cost

\* What briefs spend in a month: a check looks only at committed spending, so every
\* caller may have one call under way that no check has seen, and no more, the calls
\* included that are charged to a month when it is over.
BudgetBound ==
    \A p \in Periods :
        counter[p].cost - exempt[p] <= (Budget - Estimate) + Cardinality(Callers) * MaxCost

\* Every call is answered, refused or fails: retries end, and no transaction waits for
\* ever for a counter row.
EveryCallEnds == \A c \in Callers : (call[c].pc # "idle") ~> (call[c].pc = "idle")
===============================================================================
