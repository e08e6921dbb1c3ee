----------------------------- MODULE OutboundProofs -----------------------------
(***************************************************************************)
(* Theorems about the two components that implement IdempotentCreate.      *)
(* Publishing under any number of overlapping calls on any number of       *)
(* targets, assets and listings: one attempt for a key, publications that  *)
(* are never forgotten, and the first verification of a listing.           *)
(* Notifications under any number of workers, keys, channels and days: one *)
(* notification for a key, the daily caps, statuses that follow the        *)
(* delivery log, and a recipient's silence.                                *)
(***************************************************************************)
EXTENDS Publishing, Notifications, FiniteSetTheorems, TLAPS

-------------------------------------------------------------------------------
(* Publishing: what holds of its calls and rows.                            *)


TargetOps == {"connect", "authorize", "revoke"}
SeedOps == {"create_seed", "submit_seed", "verify_seed"}

\* What a call that inserts an attempt, records a result or writes a listing is at each of its
\* points, for the attempts at and the listings sd.
Initiating(r, c, at) ==
    /\ c.pc \in {"insert", "commit"} /\ c.thing = r /\ c.key \in Keys
    /\ at[r] = NoAttempt
    /\ c.pc = "commit" => \A i \in Requests : at[i].key # c.key

Recording(c, at) ==
    /\ c.pc \in {"update", "commit"} /\ c.thing \in Requests
    /\ at[c.thing] # NoAttempt
    /\ c.result \in Results

Listing(c, sd) ==
    /\ c.pc \in {"read_seed", "update", "commit"} /\ c.thing \in Seeds
    /\ c.op = "create_seed" => sd[c.thing] = NoSeed
    /\ c.op # "create_seed" /\ c.pc = "commit" => sd[c.thing] # NoSeed

Fit(r, c, at, sd) ==
    /\ c.pc = "new" => at[r] = NoAttempt
    /\ c.pc \in OpenPoints =>
        /\ c.op \in Ops
        /\ c.op \in TargetOps => c.thing \in Targets
        /\ c.op \in SeedOps => Listing(c, sd)
        /\ c.op = "initiate" => Initiating(r, c, at)
        /\ c.op = "record" => Recording(c, at)
        /\ c.pc = "insert" => c.op = "initiate"

\* Those about to insert an attempt differ in their keys, those that create a listing in it.
Apart(s, o) ==
    /\ s.op = "initiate" /\ o.op = "initiate" /\ s.pc = "commit" /\ o.pc = "commit" =>
            s.key # o.key
    /\ s.op = "create_seed" /\ o.op = "create_seed" => s.thing # o.thing

OneAttemptPerKey ==
    \A i, j \in Requests : attempt[i].key # None /\ attempt[i].key = attempt[j].key => i = j

\* What PublicationRemembered says of a row and the objects of its successes.
Named(row, objects) ==
    \/ objects = {} /\ row.object = None /\ row.status # "succeeded"
    \/ objects # {} /\ row.object \in objects

PInv ==
    /\ TypeOK /\ OneAttemptPerKey /\ PublicationRemembered
    /\ \A r \in Requests : Fit(r, req[r], attempt, seed)
    /\ \A r, o \in Requests : r # o => Apart(req[r], req[o])

-------------------------------------------------------------------------------
(* Facts about the operators of Publishing.                                 *)

LEMMA NewCallIsACall ==
    /\ NewCall \in Calls /\ Ended \in Calls
    /\ NewCall.pc = "new" /\ NewCall.op = None /\ ~NewCall.first /\ NewCall.key = None
    /\ Ended.pc = "failed" /\ Ended.op = None /\ ~Ended.first
BY DEF NewCall, Ended, Calls, ProgramCounters

LEMMA NoneIsNoKey == None \notin Keys /\ None \notin Ops
BY PublishingAssumption DEF Keys

LEMMA RowsAreTyped ==
    NoTarget \in TargetRows /\ NoAttempt \in AttemptRows /\ NoSeed \in SeedRows
BY DEF NoTarget, TargetRows, TargetStates, NoAttempt, AttemptRows, NoSeed, SeedRows

LEMMA TargetStaysTyped ==
    ASSUME NEW old \in TargetRows, NEW op \in TargetOps
    PROVE  TargetAfter(old, op) \in TargetRows
<1>1. CASE op = "connect"
  BY <1>1 DEF TargetAfter, TargetRows, TargetStates, NoTarget
<1>2. CASE op = "authorize"
  BY <1>2 DEF TargetAfter, TargetRows, TargetStates
<1>3. CASE op = "revoke"
  BY <1>3 DEF TargetAfter, TargetRows, TargetStates
<1> QED
  BY <1>1, <1>2, <1>3 DEF TargetOps

\* A result keeps the key, and the row names what was published.
LEMMA RecordedAttempt ==
    ASSUME NEW old \in AttemptRows, NEW c \in Calls, c.result \in Results,
           NEW objects, Named(old, objects)
    PROVE  /\ AttemptAfter(old, c) \in AttemptRows
           /\ AttemptAfter(old, c).key = old.key
           /\ AttemptAfter(old, c) # NoAttempt
           /\ c.result = "success" => Named(AttemptAfter(old, c), objects \union {c.object})
           /\ c.result # "success" => Named(AttemptAfter(old, c), objects)
<1>0. c.object \in Objects \union {None}
  BY DEF Calls
<1>1. CASE c.result = "success"
  BY <1>0, <1>1 DEF AttemptAfter, AttemptRows, AttemptStates, NoAttempt, Named
<1>2. CASE c.result = "retryable"
  BY <1>2 DEF AttemptAfter, AttemptRows, AttemptStates, NoAttempt, Named
<1>3. CASE c.result = "terminal"
  BY <1>3 DEF AttemptAfter, AttemptRows, AttemptStates, NoAttempt, Named
<1> QED
  BY <1>1, <1>2, <1>3 DEF Results

LEMMA WrittenListing ==
    ASSUME NEW r \in Requests, NEW old \in SeedRows, req[r].op \in SeedOps
    PROVE  /\ SeedAfter(old, r) \in SeedRows /\ SeedAfter(old, r) # NoSeed
           /\ req[r].op # "create_seed" /\ ~req[r].first => SeedAfter(old, r).first = old.first
<1>1. CASE req[r].op = "create_seed"
  BY <1>1 DEF SeedAfter, SeedRows, SeedStates, NoSeed
<1>2. CASE req[r].op = "submit_seed"
  BY <1>2 DEF SeedAfter, SeedRows, SeedStates, NoSeed
<1>3. CASE req[r].op = "verify_seed"
  BY <1>3 DEF SeedAfter, SeedRows, SeedStates, NoSeed
<1> QED
  BY <1>1, <1>2, <1>3 DEF SeedOps

-------------------------------------------------------------------------------
(* The invariant of Publishing.                                             *)

LEMMA InitEstablishesPInv == Init => PInv
<1> SUFFICES ASSUME Init PROVE PInv
  OBVIOUS
<1>1. TypeOK
  BY RowsAreTyped, NewCallIsACall DEF Init, TypeOK
<1>2. OneAttemptPerKey /\ PublicationRemembered
  BY DEF Init, OneAttemptPerKey, PublicationRemembered, NoAttempt
<1>3. \A r \in Requests : req[r] = NewCall /\ attempt[r] = NoAttempt
  BY DEF Init
<1>4. \A r \in Requests : Fit(r, req[r], attempt, seed)
  BY <1>3, NewCallIsACall DEF Fit, OpenPoints
<1>5. \A r, o \in Requests : r # o => Apart(req[r], req[o])
  BY <1>3, NewCallIsACall, NoneIsNoKey DEF Apart, Ops
<1> QED
  BY <1>1, <1>2, <1>4, <1>5 DEF PInv

\* A step that changes one call's record and no row but, perhaps, what is locked and answered.
LEMMA CallStep ==
    ASSUME PInv, NEW r \in Requests, NEW c \in Calls,
           req' = [req EXCEPT ![r] = c], UNCHANGED <<target, attempt, seed, published>>,
           lock' \in [Things -> Requests \union {None}], answered' \subseteq Keys \X Requests,
           Fit(r, c, attempt, seed), \A o \in Requests \ {r} : Apart(c, req[o])
    PROVE  PInv'
<1>1. TypeOK'
  BY DEF PInv, TypeOK
<1>2. OneAttemptPerKey' /\ PublicationRemembered'
  BY DEF PInv, OneAttemptPerKey, PublicationRemembered
<1>3. \A o \in Requests : req'[o] = IF o = r THEN c ELSE req[o]
  BY DEF PInv, TypeOK
<1>4. \A o \in Requests : Fit(o, req'[o], attempt', seed')
  BY <1>3 DEF PInv
<1>5. \A p, o \in Requests : p # o => Apart(req'[p], req'[o])
  <2> SUFFICES ASSUME NEW p \in Requests, NEW o \in Requests, p # o
               PROVE  Apart(req'[p], req'[o])
    OBVIOUS
  <2>1. \A a, b : Apart(a, b) => Apart(b, a)
    BY DEF Apart
  <2> QED
    BY <1>3, <2>1 DEF PInv
<1> QED
  BY <1>1, <1>2, <1>4, <1>5 DEF PInv

\* The beginning of a call on a target or a listing.
LEMMA BeginStep ==
    ASSUME PInv, NEW r \in Requests, NEW op \in TargetOps \union SeedOps, NEW x \in Things,
           NEW pc \in {"read_seed", "update", "commit"}, Begin(r, op, x, pc),
           op \in TargetOps => x \in Targets, op \in SeedOps => x \in Seeds,
           pc = "commit" => op \in {"connect", "create_seed"},
           op = "create_seed" => seed[x] = NoSeed /\
                \A o \in Requests : req[o].op = "create_seed" => req[o].thing # x
    PROVE  PInv'
<1> DEFINE c == [NewCall EXCEPT !.pc = pc, !.op = op, !.thing = x]
<1>1. c \in Calls
  BY DEF NewCall, Calls, ProgramCounters, OpenPoints, Ops, TargetOps, SeedOps
<1>2. c.pc = pc /\ c.op = op /\ c.thing = x
  BY DEF NewCall
<1>3. op # "initiate" /\ op # "record" /\ op \in Ops
  BY DEF TargetOps, SeedOps, Ops
<1>4. req' = [req EXCEPT ![r] = c] /\ UNCHANGED <<target, attempt, seed, lock, answered, published>>
  BY DEF Begin
<1> HIDE DEF c
<1>5. Fit(r, c, attempt, seed)
  BY <1>2, <1>3 DEF Fit, Listing, TargetOps, SeedOps
<1>6. \A o \in Requests \ {r} : Apart(c, req[o])
  BY <1>2, <1>3 DEF Apart
<1> QED
  BY <1>1, <1>4, <1>5, <1>6, CallStep DEF PInv, TypeOK

LEMMA InitiateStep ==
    ASSUME PInv, NEW r \in Requests, InitiatePublish(r)
    PROVE  PInv'
<1>1. PICK key \in Keys :
        /\ req' = [req EXCEPT ![r] = [NewCall EXCEPT !.op = "initiate", !.thing = r, !.key = key,
                                         !.pc = IF Existing(key) = {} THEN "insert" ELSE "done"]]
        /\ answered' = answered \union {<<key, i>> : i \in Existing(key)}
  BY DEF InitiatePublish
<1> DEFINE pc == IF Existing(key) = {} THEN "insert" ELSE "done"
           c == [NewCall EXCEPT !.op = "initiate", !.thing = r, !.key = key, !.pc = pc]
<1>2. pc \in {"insert", "done"}
  OBVIOUS
<1>3. c \in Calls /\ c.pc = pc /\ c.op = "initiate" /\ c.thing = r /\ c.key = key
  BY <1>2 DEF NewCall, Calls, ProgramCounters, OpenPoints, Ops, Things
<1>4. req' = [req EXCEPT ![r] = c] /\ UNCHANGED <<target, attempt, seed, lock, published>>
  BY <1>1 DEF InitiatePublish
<1> HIDE DEF c, pc
<1>5. attempt[r] = NoAttempt
  BY DEF PInv, Fit, InitiatePublish
<1>6. Fit(r, c, attempt, seed)
  BY <1>2, <1>3, <1>5 DEF Fit, Initiating, OpenPoints, Ops, TargetOps, SeedOps
<1>7. \A o \in Requests \ {r} : Apart(c, req[o])
  BY <1>2, <1>3 DEF Apart
<1>8. answered' \subseteq Keys \X Requests
  BY <1>1 DEF PInv, TypeOK, Existing
<1> QED
  BY <1>3, <1>4, <1>6, <1>7, <1>8, CallStep DEF PInv, TypeOK

LEMMA RecordStep ==
    ASSUME PInv, NEW r \in Requests, RecordResult(r)
    PROVE  PInv'
<1>1. PICK i \in Requests, result \in Results, o \in Objects \union {None} :
        /\ attempt[i] # NoAttempt
        /\ req' = [req EXCEPT ![r] = [NewCall EXCEPT
                      !.pc = "update", !.op = "record", !.thing = i, !.result = result,
                      !.object = IF result = "success" THEN o ELSE None]]
  BY DEF RecordResult
<1> DEFINE c == [NewCall EXCEPT !.pc = "update", !.op = "record", !.thing = i,
                    !.result = result, !.object = IF result = "success" THEN o ELSE None]
<1>2. /\ c \in Calls /\ c.pc = "update" /\ c.op = "record" /\ c.thing = i /\ c.result = result
      /\ result = "success" => c.object = o
  BY DEF NewCall, Calls, ProgramCounters, OpenPoints, Ops, Things
<1>3. req' = [req EXCEPT ![r] = c] /\ UNCHANGED <<target, attempt, seed, lock, answered, published>>
  BY <1>1 DEF RecordResult
<1> HIDE DEF c
<1>4. Fit(r, c, attempt, seed)
  BY <1>1, <1>2 DEF Fit, Recording, Ops, TargetOps, SeedOps
<1>5. \A p \in Requests \ {r} : Apart(c, req[p])
  BY <1>2 DEF Apart
<1> QED
  BY <1>2, <1>3, <1>4, <1>5, CallStep DEF PInv, TypeOK

LEMMA StartKeepsPInv ==
    ASSUME PInv, NEW r \in Requests, Start(r)
    PROVE  PInv'
<1>1. CASE ConnectTarget(r)
  BY <1>1, BeginStep DEF ConnectTarget, TargetOps, SeedOps, Things
<1>2. CASE AuthorizePublish(r)
  BY <1>2, BeginStep DEF AuthorizePublish, TargetOps, SeedOps, Things
<1>3. CASE RevokeTarget(r)
  BY <1>3, BeginStep DEF RevokeTarget, TargetOps, SeedOps, Things
<1>4. CASE CreateEntitySeed(r)
  BY <1>4, BeginStep DEF CreateEntitySeed, TargetOps, SeedOps, Things
<1>5. CASE RecordSeedSubmitted(r)
  BY <1>5, BeginStep DEF RecordSeedSubmitted, TargetOps, SeedOps, Things
<1>6. CASE RecordSeedVerified(r)
  BY <1>6, BeginStep DEF RecordSeedVerified, TargetOps, SeedOps, Things
<1> QED
  BY <1>1, <1>2, <1>3, <1>4, <1>5, <1>6, InitiateStep, RecordStep DEF Start

\* A call that stays what it is but for its point and whether it is a first verification.
LEMMA MovedCall ==
    ASSUME PInv, NEW r \in Requests, NEW pc \in ProgramCounters, NEW f \in BOOLEAN
    PROVE  LET c == [req[r] EXCEPT !.pc = pc, !.first = f] IN
           /\ c \in Calls /\ c.pc = pc /\ c.op = req[r].op /\ c.thing = req[r].thing
           /\ c.key = req[r].key /\ c.result = req[r].result /\ c.object = req[r].object
           /\ c.first = f
BY DEF PInv, TypeOK, Calls

LEMMA ReleasedLock == ASSUME PInv, NEW r \in Requests, Release(r)
                      PROVE  lock' \in [Things -> Requests \union {None}]
BY DEF PInv, TypeOK, Release

LEMMA EndStep ==
    ASSUME PInv, NEW r \in Requests, req[r].pc # "new", req' = [req EXCEPT ![r] = Ended],
           UNCHANGED <<target, attempt, seed, answered, published>>,
           lock' \in [Things -> Requests \union {None}]
    PROVE  PInv'
<1>1. Fit(r, Ended, attempt, seed)
  BY NewCallIsACall DEF Fit, OpenPoints
<1>2. \A o \in Requests \ {r} : Apart(Ended, req[o])
  BY NewCallIsACall, NoneIsNoKey DEF Apart, Ops
<1> QED
  BY <1>1, <1>2, CallStep, NewCallIsACall DEF PInv, TypeOK

LEMMA InsertStep ==
    ASSUME PInv, NEW r \in Requests, InsertAttempt(r)
    PROVE  PInv'
<1> DEFINE key == req[r].key
           c == [req[r] EXCEPT !.pc = "commit"]
<1>1. req[r] \in Calls /\ Fit(r, req[r], attempt, seed) /\ req[r].pc = "insert"
  BY DEF PInv, TypeOK, InsertAttempt
<1>2. req[r].op = "initiate" /\ Initiating(r, req[r], attempt)
  BY <1>1 DEF Fit, OpenPoints
<1>3. CASE ~(Existing(key) = {} /\ target[key[1]] # NoTarget)
  <2>1. req' = [req EXCEPT ![r] = Ended] /\ UNCHANGED <<target, attempt, seed, lock, answered, published>>
    BY <1>3 DEF InsertAttempt
  <2> QED
    BY <1>1, <2>1, EndStep DEF PInv, TypeOK
<1>4. CASE Existing(key) = {} /\ target[key[1]] # NoTarget
  <2>1. req' = [req EXCEPT ![r] = c] /\ UNCHANGED <<target, attempt, seed, lock, answered, published>>
    BY <1>4 DEF InsertAttempt
  <2>2. /\ c \in Calls /\ c.pc = "commit" /\ c.op = "initiate" /\ c.thing = req[r].thing
        /\ c.key = key
    BY <1>1, <1>2 DEF Calls, ProgramCounters, OpenPoints
  <2>3. \A o \in Requests \ {r} : req[o].pc = "commit" => req[o].key # key
    BY DEF InsertAttempt
  <2> HIDE DEF c
  <2>4. Fit(r, c, attempt, seed)
    <3>1. \A i \in Requests : attempt[i].key # key
      BY <1>4 DEF Existing
    <3> QED
      BY <1>2, <2>2, <3>1 DEF Fit, Initiating, Ops, TargetOps, SeedOps
  <2>5. \A o \in Requests \ {r} : Apart(c, req[o])
    BY <2>2, <2>3 DEF Apart
  <2> QED
    BY <2>1, <2>2, <2>4, <2>5, CallStep DEF PInv, TypeOK
<1> QED
  BY <1>3, <1>4

LEMMA ReadSeedStep ==
    ASSUME PInv, NEW r \in Requests, ReadSeed(r)
    PROVE  PInv'
<1> DEFINE f == seed[req[r].thing] # NoSeed /\ seed[req[r].thing].first = None
           c == [req[r] EXCEPT !.pc = "update", !.first = f]
<1>1. req[r] \in Calls /\ Fit(r, req[r], attempt, seed) /\ req[r].pc = "read_seed"
  BY DEF PInv, TypeOK, ReadSeed
<1>2. c \in Calls /\ c.pc = "update" /\ c.op = req[r].op /\ c.thing = req[r].thing
  BY <1>1 DEF Calls, ProgramCounters, OpenPoints
<1>3. req' = [req EXCEPT ![r] = c] /\ UNCHANGED <<target, attempt, seed, lock, answered, published>>
  BY DEF ReadSeed, PInv, TypeOK
<1> HIDE DEF c
<1>4. Fit(r, c, attempt, seed)
  BY <1>1, <1>2 DEF Fit, Initiating, Recording, Listing, OpenPoints
<1>5. \A o \in Requests \ {r} : Apart(c, req[o])
  BY <1>2 DEF Apart, PInv
<1> QED
  BY <1>2, <1>3, <1>4, <1>5, CallStep DEF PInv, TypeOK

LEMMA UpdateStep ==
    ASSUME PInv, NEW r \in Requests, Update(r)
    PROVE  PInv'
<1> DEFINE x == req[r].thing
           pc == IF Missing(x) THEN "done" ELSE "commit"
           c == [req[r] EXCEPT !.pc = pc]
<1>1. req[r] \in Calls /\ Fit(r, req[r], attempt, seed) /\ req[r].pc = "update"
  BY DEF PInv, TypeOK, Update
<1>2. /\ c \in Calls /\ c.pc = pc /\ c.op = req[r].op /\ c.thing = x
      /\ c.result = req[r].result /\ c.object = req[r].object
  BY <1>1 DEF Calls, ProgramCounters, OpenPoints
<1>3. /\ req' = [req EXCEPT ![r] = c] /\ UNCHANGED <<target, attempt, seed, answered, published>>
      /\ lock' = IF Missing(x) THEN lock ELSE [lock EXCEPT ![x] = r]
  BY DEF Update
<1> HIDE DEF c
<1>4. c.op # "initiate"
  BY <1>1, <1>2 DEF Fit, Initiating, OpenPoints
<1>5. Fit(r, c, attempt, seed)
  <2>1. CASE pc = "done"
    BY <1>2, <2>1 DEF Fit, OpenPoints
  <2>2. CASE pc = "commit"
    <3>1. x \in Seeds => seed[x] # NoSeed
      BY <2>2 DEF Missing
    <3>2. c.op \in SeedOps => Listing(c, seed)
      BY <1>1, <1>2, <2>2, <3>1 DEF Fit, Listing, OpenPoints
    <3> QED
      BY <1>1, <1>2, <1>4, <2>2, <3>2 DEF Fit, Recording, OpenPoints
  <2> QED
    BY <2>1, <2>2
<1>6. \A o \in Requests \ {r} : Apart(c, req[o])
  BY <1>2, <1>4 DEF Apart, PInv
<1>7. lock' \in [Things -> Requests \union {None}]
  BY <1>3 DEF PInv, TypeOK
<1> QED
  BY <1>2, <1>3, <1>5, <1>6, <1>7, CallStep DEF PInv, TypeOK

\* What a commit writes, and to which row.
LEMMA CommittedRows ==
    ASSUME PInv, NEW r \in Requests, Commit(r)
    PROVE  LET c == req[r]
               x == c.thing
           IN
           /\ c \in Calls /\ c.pc = "commit" /\ Fit(r, c, attempt, seed) /\ c.op \in Ops
           /\ c.op \in TargetOps => x \in Targets /\ UNCHANGED <<attempt, seed, answered, published>>
           /\ c.op \in SeedOps =>
                /\ x \in Seeds /\ Listing(c, seed) /\ UNCHANGED <<attempt, answered, published>>
                /\ seed' = [seed EXCEPT ![x] = SeedAfter(@, r)]
           /\ c.op = "initiate" =>
                /\ x = r /\ Initiating(r, c, attempt) /\ UNCHANGED seed
                /\ attempt' = [attempt EXCEPT ![r] = [NoAttempt EXCEPT !.key = c.key,
                                                                       !.status = "queued"]]
                /\ answered' = answered \union {<<c.key, r>>} /\ UNCHANGED published
           /\ c.op = "record" =>
                /\ Recording(c, attempt) /\ UNCHANGED <<seed, answered>>
                /\ attempt' = [attempt EXCEPT ![x] = AttemptAfter(@, c)]
                /\ c.result = "success" =>
                        published' = [published EXCEPT ![x] = @ \union {c.object}]
                /\ c.result # "success" => UNCHANGED published
<1> DEFINE c == req[r]
           x == c.thing
<1>1. c \in Calls /\ c.pc = "commit" /\ Fit(r, c, attempt, seed) /\ c.op \in Ops
  BY DEF PInv, TypeOK, Commit, Fit, OpenPoints
<1>2. ASSUME c.op \in TargetOps
      PROVE  x \in Targets /\ UNCHANGED <<attempt, seed, answered, published>>
  <2>1. x \in Targets /\ x \notin Seeds /\ c.op # "initiate" /\ c.op # "record"
    BY <1>1, <1>2, PublishingAssumption DEF Fit, OpenPoints, TargetOps
  <2> QED
    BY <2>1 DEF Commit
<1>3. ASSUME c.op \in SeedOps
      PROVE  /\ x \in Seeds /\ Listing(c, seed) /\ UNCHANGED <<attempt, answered, published>>
             /\ seed' = [seed EXCEPT ![x] = SeedAfter(@, r)]
  <2>1. x \in Seeds /\ Listing(c, seed) /\ c.op # "initiate" /\ c.op # "record"
    BY <1>1, <1>3 DEF Fit, Listing, OpenPoints, SeedOps
  <2> QED
    BY <2>1 DEF Commit
<1>4. ASSUME c.op = "initiate"
      PROVE  /\ x = r /\ Initiating(r, c, attempt) /\ UNCHANGED seed
             /\ attempt' = [attempt EXCEPT ![r] = [NoAttempt EXCEPT !.key = c.key,
                                                                    !.status = "queued"]]
             /\ answered' = answered \union {<<c.key, r>>} /\ UNCHANGED published
  <2>1. x = r /\ x \notin Seeds /\ Initiating(r, c, attempt)
    BY <1>1, <1>4, PublishingAssumption DEF Fit, Initiating, OpenPoints
  <2> QED
    BY <1>4, <2>1 DEF Commit
<1>5. ASSUME c.op = "record"
      PROVE  /\ Recording(c, attempt) /\ UNCHANGED <<seed, answered>>
             /\ attempt' = [attempt EXCEPT ![x] = AttemptAfter(@, c)]
             /\ c.result = "success" =>
                    published' = [published EXCEPT ![x] = @ \union {c.object}]
             /\ c.result # "success" => UNCHANGED published
  <2>1. Recording(c, attempt) /\ x \notin Seeds
    BY <1>1, <1>5, PublishingAssumption DEF Fit, Recording, OpenPoints
  <2> QED
    BY <1>5, <2>1 DEF Commit
<1> QED
  BY <1>1, <1>2, <1>3, <1>4, <1>5

OpsAreSplit == Ops = TargetOps \union SeedOps \union {"initiate", "record"}

LEMMA OpsSplit == OpsAreSplit
BY DEF OpsAreSplit, Ops, TargetOps, SeedOps

\* What other calls know of the rows, a commit leaves true: rows do not vanish, a key is
\* inserted once, and a listing being created is no other's.
LEMMA CommitKeepsRowFacts ==
    ASSUME PInv, NEW r \in Requests, Commit(r)
    PROVE  /\ attempt' \in [Requests -> AttemptRows]
           /\ seed' \in [Seeds -> SeedRows]
           /\ \A i \in Requests : attempt[i] # NoAttempt => attempt'[i] # NoAttempt
           /\ \A i \in Requests \ {r} : attempt[i] = NoAttempt => attempt'[i] = NoAttempt
           /\ \A i \in Requests :
                \/ attempt'[i].key = attempt[i].key
                \/ i = r /\ req[r].op = "initiate" /\ attempt'[i].key = req[r].key
           /\ published' \in [Requests -> SUBSET (Objects \union {None})]
           /\ PublicationRemembered'
           /\ \A s \in Seeds : seed[s] # NoSeed => seed'[s] # NoSeed
           /\ \A s \in Seeds : seed[s] = NoSeed /\ seed'[s] # NoSeed =>
                req[r].op = "create_seed" /\ s = req[r].thing
<1> DEFINE c == req[r]
           x == c.thing
<1>1. c \in Calls /\ c.op \in Ops
  BY CommittedRows
<1>2. /\ attempt \in [Requests -> AttemptRows] /\ seed \in [Seeds -> SeedRows]
      /\ published \in [Requests -> SUBSET (Objects \union {None})]
      /\ \A i \in Requests : Named(attempt[i], published[i])
  BY DEF PInv, TypeOK, PublicationRemembered, Named
<1>3. CASE c.op \in TargetOps
  BY <1>2, <1>3, CommittedRows DEF PublicationRemembered, Named
<1>4. CASE c.op \in SeedOps
  <2>1. /\ x \in Seeds /\ Listing(c, seed) /\ UNCHANGED <<attempt, published>>
        /\ seed' = [seed EXCEPT ![x] = SeedAfter(@, r)]
    BY <1>4, CommittedRows
  <2>2. seed'[x] \in SeedRows /\ seed'[x] # NoSeed
    BY <1>2, <1>4, <2>1, WrittenListing
  <2>3. c.op # "create_seed" => seed[x] # NoSeed
    BY <2>1, CommittedRows DEF Listing
  <2> QED
    BY <1>2, <2>1, <2>2, <2>3 DEF PublicationRemembered, Named
<1>5. CASE c.op = "initiate"
  <2> DEFINE new == [NoAttempt EXCEPT !.key = c.key, !.status = "queued"]
  <2>1. /\ UNCHANGED <<seed, published>> /\ attempt[r] = NoAttempt /\ c.key \in Keys
        /\ attempt' = [attempt EXCEPT ![r] = new]
    BY <1>5, CommittedRows DEF Initiating
  <2>2. new \in AttemptRows /\ new # NoAttempt /\ new.status = "queued" /\ new.key = c.key
    BY <2>1 DEF NoAttempt, AttemptRows, AttemptStates
  <2>3. new.object = None /\ NoAttempt.object = None
    BY DEF NoAttempt
  <2> HIDE DEF new
  <2>4. Named(new, published[r])
    BY <1>2, <2>1, <2>2, <2>3 DEF Named
  <2>5. \A i \in Requests : Named(attempt'[i], published'[i])
    BY <1>2, <2>1, <2>4
  <2>6. PublicationRemembered'
    BY <2>5 DEF PublicationRemembered, Named
  <2> QED
    BY <1>2, <1>5, <2>1, <2>2, <2>3, <2>6
<1>6. CASE c.op = "record"
  <2>1. /\ Recording(c, attempt) /\ UNCHANGED seed
        /\ attempt' = [attempt EXCEPT ![x] = AttemptAfter(@, c)]
    BY <1>6, CommittedRows
  <2>2. x \in Requests /\ attempt[x] \in AttemptRows
    BY <1>2, <2>1 DEF Recording
  <2>3. Named(attempt[x], published[x])
    BY <1>2, <2>2
  <2>4. /\ attempt'[x] \in AttemptRows /\ attempt'[x].key = attempt[x].key
        /\ attempt'[x] # NoAttempt
        /\ c.result = "success" => Named(attempt'[x], published[x] \union {c.object})
        /\ c.result # "success" => Named(attempt'[x], published[x])
    BY <1>1, <1>2, <2>1, <2>2, <2>3, RecordedAttempt DEF Recording
  <2>5. attempt[x] # NoAttempt /\ c.object \in Objects \union {None}
    BY <1>1, <2>1 DEF Recording, Calls
  <2>6. /\ c.result = "success" => published' = [published EXCEPT ![x] = @ \union {c.object}]
        /\ c.result # "success" => UNCHANGED published
    BY <1>6, CommittedRows
  <2>7. published' \in [Requests -> SUBSET (Objects \union {None})]
    BY <1>2, <2>2, <2>5, <2>6
  <2>8. \A i \in Requests : Named(attempt'[i], published'[i])
    BY <1>2, <2>1, <2>2, <2>4, <2>6
  <2>9. PublicationRemembered'
    BY <2>8 DEF PublicationRemembered, Named
  <2> QED
    BY <1>2, <2>1, <2>2, <2>4, <2>5, <2>7, <2>9
<1> QED
  BY <1>1, <1>3, <1>4, <1>5, <1>6, OpsSplit DEF OpsAreSplit

LEMMA CommitKeepsFits ==
    ASSUME PInv, NEW r \in Requests, Commit(r), NEW o \in Requests \ {r}
    PROVE  Fit(o, req[o], attempt', seed')
<1>1. req[o] \in Calls /\ Fit(o, req[o], attempt, seed) /\ Apart(req[o], req[r])
  BY DEF PInv, TypeOK
<1>2. req[r].pc = "commit"
  BY CommittedRows
<1>3. Initiating(o, req[o], attempt) /\ req[o].op = "initiate" => Initiating(o, req[o], attempt')
  BY <1>1, <1>2, CommitKeepsRowFacts DEF Initiating, Apart
<1>4. Recording(req[o], attempt) => Recording(req[o], attempt')
  BY CommitKeepsRowFacts DEF Recording
<1>5. Listing(req[o], seed) => Listing(req[o], seed')
  BY <1>1, CommitKeepsRowFacts DEF Listing, Apart
<1>6. req[o].pc = "new" => attempt'[o] = NoAttempt
  BY <1>1, CommitKeepsRowFacts DEF Fit
<1> QED
  BY <1>1, <1>3, <1>4, <1>5, <1>6 DEF Fit

LEMMA CommitStep ==
    ASSUME PInv, NEW r \in Requests, Commit(r)
    PROVE  PInv'
<1> DEFINE c == [req[r] EXCEPT !.pc = "done"]
<1>1. req[r] \in Calls /\ Fit(r, req[r], attempt, seed) /\ req[r].pc = "commit" /\ req[r].op \in Ops
  BY CommittedRows
<1>2. /\ c \in Calls /\ c.pc = "done" /\ c.op = req[r].op /\ c.thing = req[r].thing
  BY <1>1 DEF Calls, ProgramCounters
<1>3. req' = [req EXCEPT ![r] = c] /\ Release(r)
  BY DEF Commit
<1> HIDE DEF c
<1>4. \A o \in Requests : req'[o] = IF o = r THEN c ELSE req[o]
  BY <1>3 DEF PInv, TypeOK
<1>5. target' \in [Targets -> TargetRows]
  <2>1. CASE req[r].thing \in Targets
    <3>1. req[r].op \in TargetOps
      <4>1. req[r].thing \notin Seeds /\ req[r].thing \notin Requests
        BY <2>1, PublishingAssumption
      <4> QED
        BY <1>1, <4>1, CommittedRows, OpsSplit DEF OpsAreSplit, Recording
    <3>2. target' = [target EXCEPT ![req[r].thing] = TargetAfter(@, req[r].op)]
      BY <2>1 DEF Commit
    <3> QED
      BY <2>1, <3>1, <3>2, TargetStaysTyped DEF PInv, TypeOK
  <2>2. CASE req[r].thing \notin Targets
    BY <2>2 DEF Commit, PInv, TypeOK
  <2> QED
    BY <2>1, <2>2
<1>6. answered' \subseteq Keys \X Requests
  <2>1. CASE req[r].op = "initiate"
    <3>1. answered' = answered \union {<<req[r].key, r>>} /\ req[r].key \in Keys
      BY <2>1, CommittedRows DEF Initiating
    <3> QED
      BY <3>1 DEF PInv, TypeOK
  <2>2. CASE req[r].op # "initiate"
    BY <2>2 DEF Commit, PInv, TypeOK
  <2> QED
    BY <2>1, <2>2
<1>7. TypeOK'
  <2>1. req' \in [Requests -> Calls]
    BY <1>2, <1>3 DEF PInv, TypeOK
  <2> QED
    BY <1>3, <1>5, <1>6, <2>1, CommitKeepsRowFacts, ReleasedLock DEF TypeOK
<1>8. OneAttemptPerKey'
  <2> SUFFICES ASSUME NEW i \in Requests, NEW j \in Requests, i # j,
                      attempt'[i].key # None, attempt'[i].key = attempt'[j].key
               PROVE  FALSE
    BY DEF OneAttemptPerKey
  <2>1. CASE attempt'[i].key = attempt[i].key /\ attempt'[j].key = attempt[j].key
    BY <2>1 DEF PInv, OneAttemptPerKey
  <2>2. \A k \in Requests : req[r].op = "initiate" => attempt[k].key # req[r].key
    BY <1>1, CommittedRows DEF Initiating
  <2> QED
    BY <2>1, <2>2, CommitKeepsRowFacts
<1>9. \A o \in Requests : Fit(o, req'[o], attempt', seed')
  <2>1. Fit(r, c, attempt', seed')
    BY <1>2 DEF Fit, OpenPoints
  <2> QED
    BY <1>4, <2>1, CommitKeepsFits
<1>10. \A p, o \in Requests : p # o => Apart(req'[p], req'[o])
  <2> SUFFICES ASSUME NEW p \in Requests, NEW o \in Requests, p # o
               PROVE  Apart(req'[p], req'[o])
    OBVIOUS
  <2>1. Apart(req[p], req[o])
    BY DEF PInv
  <2> QED
    BY <1>2, <1>4, <2>1 DEF Apart
<1> QED
  BY <1>7, <1>8, <1>9, <1>10, CommitKeepsRowFacts DEF PInv

LEMMA StepKeepsPInv == PInv /\ [Next]_vars => PInv'
<1> SUFFICES ASSUME PInv, [Next]_vars PROVE PInv'
  OBVIOUS
<1>1. CASE UNCHANGED vars
  BY <1>1 DEF vars, PInv, TypeOK, OneAttemptPerKey, PublicationRemembered
<1>2. ASSUME NEW r \in Requests, Rollback(r) PROVE PInv'
  BY <1>2, EndStep, ReleasedLock DEF Rollback, InTransaction, OpenPoints
<1>3. ASSUME NEW r \in Requests, Advance(r) PROVE PInv'
  BY <1>3, InsertStep, ReadSeedStep, UpdateStep, CommitStep DEF Advance
<1>4. CASE AllAnswered
  BY <1>1, <1>4 DEF AllAnswered
<1> QED
  BY <1>1, <1>2, <1>3, <1>4, StartKeepsPInv DEF Next

-------------------------------------------------------------------------------
(* The theorems about publishing.                                           *)

\* Every reachable state is well typed (the rows PublishingRepository can write).
THEOREM PublishingTypeCorrect == Spec => []TypeOK
<1>1. PInv => TypeOK
  BY DEF PInv
<1> QED
  BY <1>1, InitEstablishesPInv, StepKeepsPInv, PTL DEF Spec

\* Only the commit of a call that has begun changes attempts and listings.
LEMMA OnlyCommitsChangeRows ==
    ASSUME Next
    PROVE  UNCHANGED <<attempt, seed>> \/ \E r \in Requests : Commit(r)
<1>1. ASSUME NEW r \in Requests, Start(r) PROVE UNCHANGED <<attempt, seed>>
  BY <1>1 DEF Start, ConnectTarget, AuthorizePublish, RevokeTarget, InitiatePublish,
              RecordResult, CreateEntitySeed, RecordSeedSubmitted, RecordSeedVerified, Begin
<1>2. ASSUME NEW r \in Requests, Advance(r), ~Commit(r) PROVE UNCHANGED <<attempt, seed>>
  BY <1>2 DEF Advance, InsertAttempt, ReadSeed, Update
<1> QED
  BY <1>1, <1>2 DEF Next, Rollback, AllAnswered, vars

\* Once a success has been recorded for an attempt it names what one of them published, in
\* whatever order and however often results are recorded (record_publish_result).
THEOREM PublicationRememberedHolds == Spec => []PublicationRemembered
<1>1. PInv => PublicationRemembered
  BY DEF PInv
<1> QED
  BY <1>1, InitEstablishesPInv, StepKeepsPInv, PTL DEF Spec

\* A verification that began after the first had settled finds it, and leaves it.
LEMMA SettledStaysFirst ==
    ASSUME PInv, Next, NEW s \in Seeds, FirstSettled(s)
    PROVE  FirstSettled(s)' /\ seed'[s].first = seed[s].first
<1>1. seed[s].first # None /\ seed[s] # NoSeed
  BY DEF FirstSettled, NoSeed
<1>2. \A r \in Requests : ~(InTransaction(r) /\ req[r].thing = s /\ req[r].first)
  BY DEF FirstSettled
<1>3. seed'[s].first = seed[s].first
  <2>1. CASE UNCHANGED <<attempt, seed>>
    BY <2>1
  <2>2. ASSUME NEW r \in Requests, Commit(r) PROVE seed'[s].first = seed[s].first
    <3>1. CASE req[r].op \in SeedOps /\ req[r].thing = s
      <4>1. req[r].pc = "commit" /\ req[r] \in Calls /\ Listing(req[r], seed)
            /\ seed' = [seed EXCEPT ![s] = SeedAfter(@, r)]
        BY <2>2, <3>1, CommittedRows
      <4>2. req[r].op # "create_seed" /\ ~req[r].first
        BY <1>1, <1>2, <3>1, <4>1 DEF Listing, InTransaction, OpenPoints
      <4>3. seed[s] \in SeedRows
        BY DEF PInv, TypeOK
      <4>4. SeedAfter(seed[s], r).first = seed[s].first
        BY <3>1, <4>2, <4>3, WrittenListing
      <4> QED
        BY <4>1, <4>4 DEF PInv, TypeOK
    <3>2. CASE req[r].op \in SeedOps /\ req[r].thing # s
      <4>1. seed' = [seed EXCEPT ![req[r].thing] = SeedAfter(@, r)]
        BY <2>2, <3>2, CommittedRows
      <4> QED
        BY <3>2, <4>1 DEF PInv, TypeOK
    <3>3. CASE req[r].op \notin SeedOps
      BY <2>2, <3>3, CommittedRows, OpsSplit DEF OpsAreSplit
    <3> QED
      BY <3>1, <3>2, <3>3
  <2> QED
    BY <2>1, <2>2, OnlyCommitsChangeRows
<1>4. ASSUME NEW r \in Requests PROVE ~(InTransaction(r)' /\ req'[r].thing = s /\ req'[r].first)
  <2>1. CASE req'[r] = req[r]
    BY <1>2, <2>1 DEF InTransaction
  <2>2. CASE Start(r)
    <3>1. ASSUME NEW op, NEW x, NEW pc, Begin(r, op, x, pc) PROVE ~req'[r].first
      BY <3>1 DEF Begin, NewCall, PInv, TypeOK
    <3>2. CASE InitiatePublish(r)
      BY <3>2 DEF InitiatePublish, NewCall, PInv, TypeOK
    <3>3. CASE RecordResult(r)
      BY <3>3 DEF RecordResult, NewCall, PInv, TypeOK
    <3> QED
      BY <2>2, <3>1, <3>2, <3>3 DEF Start, ConnectTarget, AuthorizePublish, RevokeTarget,
            CreateEntitySeed, RecordSeedSubmitted, RecordSeedVerified
  <2>3. CASE InsertAttempt(r) \/ Update(r)
    <3>1. req[r] \in Calls /\ InTransaction(r)
      BY <2>3 DEF PInv, TypeOK, InsertAttempt, Update, InTransaction, OpenPoints
    <3>2. \/ req'[r].thing = req[r].thing /\ req'[r].first = req[r].first
          \/ req'[r] = Ended
      BY <2>3, <3>1 DEF InsertAttempt, Update, PInv, TypeOK, Calls
    <3> QED
      BY <1>2, <3>1, <3>2, NewCallIsACall
  <2>4. CASE ReadSeed(r)
    <3>1. /\ req'[r].thing = req[r].thing
          /\ req'[r].first = (seed[req[r].thing] # NoSeed /\ seed[req[r].thing].first = None)
      BY <2>4 DEF ReadSeed, PInv, TypeOK, Calls
    <3> QED
      BY <1>1, <3>1
  <2>5. CASE Commit(r) \/ Rollback(r)
    <3>1. req'[r].pc \in {"done", "failed"}
      BY <2>5, NewCallIsACall DEF Commit, Rollback, PInv, TypeOK, Calls
    <3> QED
      BY <3>1 DEF InTransaction, OpenPoints
  <2>6. req'[r] = req[r] \/ Start(r) \/ Advance(r) \/ Rollback(r)
    <3>1. ASSUME NEW o \in Requests \ {r}, Start(o) \/ Advance(o) \/ Rollback(o)
          PROVE  req'[r] = req[r]
      BY <3>1 DEF Start, ConnectTarget, AuthorizePublish, RevokeTarget, InitiatePublish,
            RecordResult, CreateEntitySeed, RecordSeedSubmitted, RecordSeedVerified, Begin,
            Advance, InsertAttempt, ReadSeed, Update, Commit, Rollback, PInv, TypeOK
    <3> QED
      BY <3>1 DEF Next, AllAnswered, vars
  <2> QED
    BY <2>1, <2>2, <2>3, <2>4, <2>5, <2>6 DEF Advance
<1> QED
  BY <1>1, <1>3, <1>4 DEF FirstSettled

\* record_seed_verified keeps the first verification of a listing, unless several overlap.
THEOREM FirstVerificationKeptHolds == Spec => FirstVerificationKept
<1> DEFINE Step == \A s \in Seeds :
                      FirstSettled(s) => FirstSettled(s)' /\ seed'[s].first = seed[s].first
<1>1. PInv /\ [Next]_vars => [Step]_vars
  BY SettledStaysFirst
<1> QED
  BY <1>1, InitEstablishesPInv, StepKeepsPInv, PTL DEF Spec, FirstVerificationKept

-------------------------------------------------------------------------------
(* The refinement of IdempotentCreate by initiate_publish.                  *)

\* Existing and attemptFor for the attempts at.
MadeFor(key, at) == {i \in Requests : at[i].key = key}
OneOf(S) == IF S = {} THEN None ELSE CHOOSE i \in S : TRUE

LEMMA OnlyMember == OneOf({}) = None /\ \A i : OneOf({i}) = i
BY DEF OneOf

LEMMA AttemptFor ==
    /\ attemptFor = [key \in Keys |-> OneOf(MadeFor(key, attempt))]
    /\ attemptFor' = [key \in Keys |-> OneOf(MadeFor(key, attempt'))]
BY DEF attemptFor, Existing, MadeFor, OneOf

\* attemptFor names the attempt of a key, as there is no second.
LEMMA AttemptForKey ==
    ASSUME OneAttemptPerKey, attempt \in [Requests -> AttemptRows], NEW key \in Keys
    PROVE  \A i \in Existing(key) : attemptFor[key] = i /\ Existing(key) = {i} /\ i # None
<1> SUFFICES ASSUME NEW i \in Existing(key)
             PROVE  attemptFor[key] = i /\ Existing(key) = {i} /\ i # None
  OBVIOUS
<1>1. Existing(key) = {i} /\ i # None /\ Existing(key) = MadeFor(key, attempt)
  BY NoneIsNoKey, PublishingAssumption DEF Existing, OneAttemptPerKey, MadeFor
<1> QED
  BY <1>1, AttemptFor, OnlyMember

LEMMA RefinementInit == Init => Register!Init
BY NoneIsNoKey DEF Init, Register!Init, attemptFor, Existing, NoAttempt

LEMMA SameKeysSameAttempts ==
    ASSUME \A i \in Requests : attempt'[i].key = attempt[i].key
    PROVE  attemptFor' = attemptFor
<1>1. \A key \in Keys : MadeFor(key, attempt') = MadeFor(key, attempt)
  BY DEF MadeFor
<1> QED
  BY <1>1, AttemptFor

LEMMA InitiateRefines ==
    ASSUME PInv, NEW r \in Requests, InitiatePublish(r)
    PROVE  [Register!Next]_(Register!vars)
<1>1. PICK key \in Keys : answered' = answered \union {<<key, i>> : i \in Existing(key)}
  BY DEF InitiatePublish
<1>2. attemptFor' = attemptFor
  BY SameKeysSameAttempts DEF InitiatePublish
<1>3. CASE Existing(key) = {}
  BY <1>1, <1>2, <1>3 DEF Register!vars
<1>4. CASE Existing(key) # {}
  <2>1. PICK i \in Existing(key) : attemptFor[key] = i /\ Existing(key) = {i} /\ i # None
    BY <1>4, AttemptForKey DEF PInv, TypeOK
  <2>2. answered' = answered \union {<<key, i>>}
    BY <1>1, <2>1
  <2>3. Register!Answer(key)
    BY <1>2, <2>1, <2>2 DEF Register!Answer
  <2> QED
    BY <2>3 DEF Register!Next
<1> QED
  BY <1>3, <1>4

LEMMA CommitRefines ==
    ASSUME PInv, NEW r \in Requests, Commit(r)
    PROVE  [Register!Next]_(Register!vars)
<1>1. CASE req[r].op # "initiate"
  <2>1. answered' = answered
    BY <1>1 DEF Commit
  <2>2. attemptFor' = attemptFor
    BY <1>1, CommitKeepsRowFacts, SameKeysSameAttempts
  <2> QED
    BY <2>1, <2>2 DEF Register!vars
<1>2. CASE req[r].op = "initiate"
  <2>1. PICK key \in Keys :
        /\ answered' = answered \union {<<key, r>>}
        /\ \A i \in Requests : attempt[i].key # key
        /\ attempt'[r].key = key
        /\ \A i \in Requests \ {r} : attempt'[i] = attempt[i]
        /\ attempt[r].key = None
    <3>1. /\ Initiating(r, req[r], attempt) /\ req[r].pc = "commit"
          /\ answered' = answered \union {<<req[r].key, r>>}
          /\ attempt' = [attempt EXCEPT ![r] = [NoAttempt EXCEPT !.key = req[r].key,
                                                                 !.status = "queued"]]
      BY <1>2, CommittedRows
    <3> QED
      BY <3>1 DEF Initiating, NoAttempt, PInv, TypeOK
  <2>2. MadeFor(key, attempt) = {} /\ MadeFor(key, attempt') = {r}
    BY <2>1 DEF MadeFor
  <2>3. \A k \in Keys \ {key} : MadeFor(k, attempt') = MadeFor(k, attempt)
    BY <2>1, NoneIsNoKey DEF MadeFor
  <2>4. attemptFor[key] = None
    BY <2>2, AttemptFor, OnlyMember
  <2>5. attemptFor' = [attemptFor EXCEPT ![key] = r]
    BY <2>2, <2>3, AttemptFor, OnlyMember
  <2>6. Register!Make(key, r)
    BY <2>1, <2>4, <2>5 DEF Register!Make
  <2> QED
    BY <2>1, <2>6 DEF Register!Next
<1> QED
  BY <1>1, <1>2

\* initiate_publish keeps the promise of an idempotency key, for whatever calls overlap.
THEOREM PublishIdempotentHolds == Spec => PublishIdempotent
<1>1. PInv /\ [Next]_vars => [Register!Next]_(Register!vars)
  <2> SUFFICES ASSUME PInv, [Next]_vars PROVE [Register!Next]_(Register!vars)
    OBVIOUS
  <2>1. CASE UNCHANGED <<attempt, answered, published>>
    BY <2>1, SameKeysSameAttempts DEF Register!vars
  <2>2. ASSUME NEW r \in Requests, Start(r) PROVE [Register!Next]_(Register!vars)
    <3>1. CASE InitiatePublish(r)
      BY <3>1, InitiateRefines
    <3>2. CASE ~InitiatePublish(r)
      BY <2>1, <2>2, <3>2 DEF Start, ConnectTarget, AuthorizePublish, RevokeTarget,
              RecordResult, CreateEntitySeed, RecordSeedSubmitted, RecordSeedVerified, Begin
    <3> QED
      BY <3>1, <3>2
  <2>3. ASSUME NEW r \in Requests, Advance(r) PROVE [Register!Next]_(Register!vars)
    BY <2>1, <2>3, CommitRefines DEF Advance, InsertAttempt, ReadSeed, Update
  <2> QED
    BY <2>1, <2>2, <2>3 DEF Next, Rollback, AllAnswered, vars
<1> QED
  BY <1>1, RefinementInit, InitEstablishesPInv, StepKeepsPInv, PTL
     DEF Spec, PublishIdempotent, Register!Spec

-------------------------------------------------------------------------------
(* Notifications: what holds of its calls, rows and caps.                   *)

\* What a call that queues or that records a delivery is at each of its points, for the
\* notifications nt and their locks lk, when n calls have begun and it is day t.
QueueFits(c, nt, n, t) ==
    /\ c.pc \in {"preference", "count", "insert", "commit"}
    /\ c.id \in Ids /\ c.id <= n /\ nt[c.id] = NoNote
    /\ c.row.key \in EventKeys /\ c.row.class \in Classes
    /\ c.row.status \in {"queued", "suppressed"}
    /\ c.pc \in {"preference", "count"} => c.row.status = "queued"
    /\ c.pc \in {"insert", "commit"} => c.row.day >= 1 /\ c.row.day <= t
    /\ c.pc = "commit" => \A i \in Ids : nt[i].key # c.row.key

DeliveryFits(w, c, nt, lk) ==
    /\ c.pc \in {"log", "update", "commit"}
    /\ c.id \in Ids /\ nt[c.id].status \notin {"absent", "suppressed"}
    /\ c.event \in Events
    /\ c.pc = "update" => c.event # "opened"
    /\ c.pc = "commit" /\ c.event # "opened" => lk[c.id] = w

CallFits(w, c, nt, lk, n, t) ==
    c.pc \in NotifyPoints =>
        /\ c.op \in NotifyOps
        /\ c.op = "queue" => QueueFits(c, nt, n, t)
        /\ c.op = "deliver" => DeliveryFits(w, c, nt, lk)
        /\ c.op = "prefer" => c.pc \in {"upsert", "commit"}

\* Those that queue insert different notifications, and under different keys.
Distinct(c, b) ==
    c.pc \in NotifyPoints /\ b.pc \in NotifyPoints /\ c.op = "queue" /\ b.op = "queue" =>
        /\ c.id # b.id
        /\ c.pc = "commit" /\ b.pc = "commit" => c.row.key # b.row.key

\* A call that has row i locked is about to commit a report about i.
Holding(c, i) == c.pc = "commit" /\ c.op = "deliver" /\ c.id = i /\ c.event # "opened"

RowFits(r, events, i, n, t) ==
    /\ i > n => r = NoNote
    /\ r = NoNote => events = <<>>
    /\ r # NoNote => r.status # "absent" /\ r.key \in EventKeys /\ r.class \in Classes
    /\ r.day <= t

OneNotePerKey ==
    \A i, j \in Ids : note[i].key # Null /\ note[i].key = note[j].key => i = j

\* The caps: the notifications of a day in the classes C, and the calls that may still add one.
SentOf(day, C, nt) == {i \in Ids : /\ nt[i].status \notin {"absent", "suppressed"}
                                   /\ nt[i].class \in C /\ nt[i].day = day}
MayAdd(c, day, C) ==
    /\ c.op = "queue" /\ c.row.status = "queued" /\ c.row.class \in C
    /\ \/ c.pc = "insert" /\ c.row.day <= day
       \/ c.pc = "commit" /\ c.row.day = day
Adding(day, C, cl) == {w \in Workers : MayAdd(cl[w], day, C)}
Within(day, C, limit, nt, cl) ==
    Cardinality(SentOf(day, C, nt)) + Cardinality(Adding(day, C, cl))
        <= (limit - 1) + Cardinality(Workers)

Regular == {"regular"}
Limited == {"regular", "urgent"}
Most == IF DailyLimit > UrgentLimit THEN DailyLimit ELSE UrgentLimit
LimitOf(C) == IF C = Regular THEN DailyLimit ELSE Most
Caps(nt, cl) ==
    \A day \in 1..Days, C \in {Regular, Limited} : Within(day, C, LimitOf(C), nt, cl)

NInv ==
    /\ NotifyTypeOK /\ OneNotePerKey /\ StatusFollowsLog
    /\ \A w \in Workers : CallFits(w, call[w], note, noteLock, started, today)
    /\ \A w, v \in Workers : w # v => Distinct(call[w], call[v])
    /\ \A w \in Workers, i \in Ids : noteLock[i] = w => Holding(call[w], i)
    /\ \A i \in Ids : RowFits(note[i], log[i], i, started, today)
    /\ Caps(note, call)

-------------------------------------------------------------------------------
(* Facts about the operators of Notifications.                              *)

LEMMA IdleIsACall == Idle \in NotifyCalls /\ Idle.pc = "idle" /\ Idle.row = NoNote
<1>1. NoNote \in Rows
  BY NotificationAssumption DEF NoNote, Rows
<1>2. NoPreference \in Preferences
  BY DEF NoPreference, Preferences
<1> QED
  BY <1>1, <1>2 DEF Idle, NotifyCalls, NotifyCounters

LEMMA IdleFits ==
    /\ \A w, nt, lk, n, t : CallFits(w, Idle, nt, lk, n, t)
    /\ \A b : Distinct(Idle, b)
    /\ \A day, C : ~MayAdd(Idle, day, C)
BY IdleIsACall DEF CallFits, Distinct, MayAdd, NotifyPoints, NoNote

LEMMA ConstantsAreNat ==
    /\ DailyLimit \in Nat /\ UrgentLimit \in Nat /\ Days \in Nat /\ MaxCalls \in Nat
    /\ DailyLimit >= 1 /\ UrgentLimit >= 1 /\ Most \in Nat
    /\ \A C : LimitOf(C) \in Nat /\ LimitOf(C) >= 1
BY NotificationAssumption DEF Most, LimitOf

LEMMA WorkersAreCounted ==
    ASSUME NEW S, S \subseteq Workers
    PROVE  IsFiniteSet(S) /\ Cardinality(S) \in Nat /\ Cardinality(S) <= Cardinality(Workers)
           /\ Cardinality(Workers) \in Nat
BY NotificationAssumption, FS_Subset, FS_CardinalityType

LEMMA IdsAreCounted ==
    ASSUME NEW S, S \subseteq Ids
    PROVE  IsFiniteSet(S) /\ Cardinality(S) \in Nat
<1>1. IsFiniteSet(Ids)
  BY NotificationAssumption, FS_Interval DEF Ids
<1> QED
  BY <1>1, FS_Subset, FS_CardinalityType

\* When nothing that counts has been added and nobody who may add has joined, the caps hold on.
LEMMA WithinKept ==
    ASSUME NEW day, NEW C, NEW limit \in Nat, NEW nt, NEW cl, NEW ntA, NEW clA,
           Within(day, C, limit, nt, cl),
           SentOf(day, C, ntA) = SentOf(day, C, nt),
           Adding(day, C, clA) \subseteq Adding(day, C, cl)
    PROVE  Within(day, C, limit, ntA, clA)
<1>1. Adding(day, C, cl) \subseteq Workers /\ SentOf(day, C, nt) \subseteq Ids
  BY DEF Adding, SentOf
<1>2. /\ Cardinality(Adding(day, C, clA)) <= Cardinality(Adding(day, C, cl))
      /\ Cardinality(Adding(day, C, clA)) \in Nat
  BY <1>1, WorkersAreCounted, FS_Subset
<1> QED
  BY <1>1, <1>2, WorkersAreCounted, IdsAreCounted DEF Within

\* A call that may add no more than before changes nothing about the caps.
LEMMA CapsKept ==
    ASSUME NInv, NEW w \in Workers, NEW c, call' = [call EXCEPT ![w] = c],
           \A day, C : MayAdd(c, day, C) => MayAdd(call[w], day, C)
    PROVE  Caps(note, call')
<1> SUFFICES ASSUME NEW day \in 1..Days, NEW C \in {Regular, Limited}
             PROVE  Within(day, C, LimitOf(C), note, call')
  BY DEF Caps
<1>1. Within(day, C, LimitOf(C), note, call)
  BY DEF NInv, Caps
<1>2. Adding(day, C, call') \subseteq Adding(day, C, call)
  BY DEF Adding, NInv, NotifyTypeOK
<1> QED
  BY <1>1, <1>2, WithinKept, ConstantsAreNat

-------------------------------------------------------------------------------
(* The invariant of Notifications.                                          *)

LEMMA InitEstablishesNInv == NotifyInit => NInv
<1> SUFFICES ASSUME NotifyInit PROVE NInv
  OBVIOUS
<1>0. /\ note = [i \in Ids |-> NoNote] /\ log = [i \in Ids |-> <<>>]
      /\ call = [w \in Workers |-> Idle]
  BY DEF NotifyInit
<1>1. NotifyTypeOK
  <2>1. NoNote \in Rows /\ NoPreference \in Preferences
    BY NotificationAssumption DEF NoNote, Rows, NoPreference, Preferences
  <2>2. today \in 1..Days /\ started \in 0..MaxCalls
    BY NotificationAssumption, ConstantsAreNat DEF NotifyInit
  <2>3. log \in [Ids -> Seq(Events)]
    BY <1>0
  <2> QED
    BY <1>0, <2>1, <2>2, <2>3, IdleIsACall DEF NotifyInit, NotifyTypeOK
<1>2. OneNotePerKey
  BY <1>0 DEF OneNotePerKey, NoNote
<1>3. StatusFollowsLog
  BY <1>0 DEF StatusFollowsLog, NoNote
<1>4. /\ \A w \in Workers : CallFits(w, call[w], note, noteLock, started, today)
      /\ \A w, v \in Workers : w # v => Distinct(call[w], call[v])
  BY <1>0, IdleFits
<1>5. \A w \in Workers, i \in Ids : noteLock[i] = w => Holding(call[w], i)
  BY NotificationAssumption DEF NotifyInit
<1>6. \A i \in Ids : RowFits(note[i], log[i], i, started, today)
  BY <1>0 DEF RowFits, NoNote, NotifyInit
<1>7. Caps(note, call)
  <2> SUFFICES ASSUME NEW day \in 1..Days, NEW C \in {Regular, Limited}
               PROVE  Within(day, C, LimitOf(C), note, call)
    BY DEF Caps
  <2>1. SentOf(day, C, note) = {} /\ Adding(day, C, call) = {}
    BY <1>0, IdleFits DEF SentOf, Adding, NoNote
  <2> QED
    BY <2>1, FS_EmptySet, WorkersAreCounted, ConstantsAreNat DEF Within
<1> QED
  BY <1>1, <1>2, <1>3, <1>4, <1>5, <1>6, <1>7 DEF NInv

\* A step that changes one call's record and no row.
LEMMA NotifyStep ==
    ASSUME NInv, NEW w \in Workers, NEW c \in NotifyCalls,
           call' = [call EXCEPT ![w] = c], UNCHANGED <<note, log, today>>,
           started' \in 0..MaxCalls, started' >= started,
           pref' \in Preferences, prefLock' \in Workers \union {Null},
           noteLock' \in [Ids -> Workers \union {Null}], replied' \subseteq EventKeys \X Ids,
           CallFits(w, c, note, noteLock', started', today),
           \A v \in Workers \ {w} : Distinct(c, call[v]),
           \A i \in Ids : noteLock'[i] = w => Holding(c, i),
           \A i \in Ids, v \in Workers \ {w} : noteLock'[i] = v <=> noteLock[i] = v,
           Caps(note, call')
    PROVE  NInv'
<1>0. \A v \in Workers : call'[v] = IF v = w THEN c ELSE call[v]
  BY DEF NInv, NotifyTypeOK
<1>1. NotifyTypeOK'
  BY DEF NInv, NotifyTypeOK
<1>2. OneNotePerKey' /\ StatusFollowsLog'
  BY DEF NInv, OneNotePerKey, StatusFollowsLog
<1>3. \A v \in Workers : CallFits(v, call'[v], note', noteLock', started', today')
  <2> SUFFICES ASSUME NEW v \in Workers \ {w}
               PROVE  CallFits(v, call[v], note, noteLock', started', today)
    BY <1>0
  <2>1. CallFits(v, call[v], note, noteLock, started, today)
    BY DEF NInv
  <2>2. started \in Nat /\ started' \in Nat
    BY DEF NInv, NotifyTypeOK
  <2>3. call[v].op = "queue" /\ call[v].pc \in NotifyPoints
            => QueueFits(call[v], note, started', today)
    BY <2>1, <2>2 DEF CallFits, QueueFits, Ids
  <2>4. call[v].op = "deliver" /\ call[v].pc \in NotifyPoints
            => DeliveryFits(v, call[v], note, noteLock')
    BY <2>1 DEF CallFits, DeliveryFits
  <2> QED
    BY <2>1, <2>3, <2>4 DEF CallFits
<1>4. \A u, v \in Workers : u # v => Distinct(call'[u], call'[v])
  <2> SUFFICES ASSUME NEW u \in Workers, NEW v \in Workers, u # v
               PROVE  Distinct(call'[u], call'[v])
    OBVIOUS
  <2>1. \A a, b : Distinct(a, b) => Distinct(b, a)
    BY DEF Distinct
  <2> QED
    BY <1>0, <2>1 DEF NInv
<1>5. \A v \in Workers, i \in Ids : noteLock'[i] = v => Holding(call'[v], i)
  BY <1>0 DEF NInv
<1>6. \A i \in Ids : RowFits(note'[i], log'[i], i, started', today')
  BY DEF NInv, NotifyTypeOK, RowFits, Ids
<1> QED
  BY <1>1, <1>2, <1>3, <1>4, <1>5, <1>6 DEF NInv

\* The same of a step that leaves the locks alone, as all of a call's steps but two.
LEMMA LocklessStep ==
    ASSUME NInv, NEW w \in Workers, NEW c \in NotifyCalls,
           call' = [call EXCEPT ![w] = c],
           UNCHANGED <<note, noteLock, pref, prefLock, log, today>>,
           started' \in 0..MaxCalls, started' >= started, replied' \subseteq EventKeys \X Ids,
           ~(call[w].pc = "commit" /\ call[w].op = "deliver"),
           CallFits(w, c, note, noteLock, started', today),
           \A v \in Workers \ {w} : Distinct(c, call[v]),
           Caps(note, call')
    PROVE  NInv'
<1>1. \A i \in Ids : noteLock[i] # w
  BY DEF NInv, Holding
<1> QED
  BY <1>1, NotifyStep DEF NInv, NotifyTypeOK

\* The end of a call that has changed no row.
LEMMA CallEnds ==
    ASSUME NInv, NEW w \in Workers, call' = [call EXCEPT ![w] = Idle],
           UNCHANGED <<note, log, clock, replied>>, pref' \in Preferences, NotifyRelease(w)
    PROVE  NInv'
<1>1. /\ noteLock' \in [Ids -> Workers \union {Null}] /\ prefLock' \in Workers \union {Null}
      /\ \A i \in Ids : noteLock'[i] # w
      /\ \A i \in Ids, v \in Workers \ {w} : noteLock'[i] = v <=> noteLock[i] = v
  BY NotificationAssumption DEF NInv, NotifyTypeOK, NotifyRelease
<1>2. Caps(note, call')
  BY CapsKept, IdleFits
<1>3. Idle \in NotifyCalls /\ CallFits(w, Idle, note, noteLock', started', today)
      /\ \A v \in Workers \ {w} : Distinct(Idle, call[v])
  BY IdleIsACall, IdleFits
<1>4. started' \in 0..MaxCalls /\ started' >= started /\ UNCHANGED <<note, log, today>>
      /\ replied' \subseteq EventKeys \X Ids
  BY ConstantsAreNat DEF NInv, NotifyTypeOK, clock
<1> QED
  BY <1>1, <1>2, <1>3, <1>4, NotifyStep

LEMMA QueueStep ==
    ASSUME NInv, NEW w \in Workers, Queue(w)
    PROVE  NInv'
<1>1. PICK key \in EventKeys, class \in Classes :
        /\ MakeCall(w, IF QueuedUnder(key) = {}
                       THEN [Idle EXCEPT !.pc = "preference", !.op = "queue", !.id = started + 1,
                               !.row = [NoNote EXCEPT !.status = "queued", !.key = key,
                                                      !.class = class]]
                       ELSE Idle)
        /\ replied' = replied \union {<<key, i>> : i \in QueuedUnder(key)}
  BY DEF Queue
<1>2. PICK row : row = [NoNote EXCEPT !.status = "queued", !.key = key, !.class = class]
  OBVIOUS
<1>3. PICK c : c = IF QueuedUnder(key) = {}
                   THEN [Idle EXCEPT !.pc = "preference", !.op = "queue", !.id = started + 1,
                                     !.row = row]
                   ELSE Idle
  OBVIOUS
<1>4. row \in Rows /\ row.status = "queued" /\ row.key = key /\ row.class = class
  <2>1. 0 \in 0..Days
    BY ConstantsAreNat
  <2> QED
    BY <1>2, <2>1 DEF Rows, NoNote, Statuses
<1>5. /\ call[w].pc = "idle" /\ started \in Nat /\ started < MaxCalls /\ started + 1 \in Ids
      /\ started' = started + 1 /\ started' \in 0..MaxCalls
      /\ call' = [call EXCEPT ![w] = c]
      /\ UNCHANGED <<note, noteLock, pref, prefLock, log, today>>
  BY <1>1, <1>2, <1>3, ConstantsAreNat DEF MakeCall, NInv, NotifyTypeOK, Ids
<1>6. replied' \subseteq EventKeys \X Ids
  BY <1>1 DEF NInv, NotifyTypeOK, QueuedUnder
<1>7. /\ c \in NotifyCalls
      /\ c # Idle => c.pc = "preference" /\ c.op = "queue" /\ c.id = started + 1 /\ c.row = row
  BY <1>3, <1>4, <1>5, IdleIsACall DEF Idle, NotifyCalls, NotifyCounters, NotifyPoints, NotifyOps
<1>8. CallFits(w, c, note, noteLock, started', today)
  <2>1. CASE c = Idle
    BY <2>1, IdleFits
  <2>2. CASE c # Idle
    <3>1. note[started + 1] = NoNote
      BY <1>5 DEF NInv, RowFits
    <3>2. QueueFits(c, note, started', today)
      BY <1>4, <1>5, <1>7, <2>2, <3>1 DEF QueueFits
    <3> QED
      BY <1>7, <2>2, <3>2 DEF CallFits, NotifyOps
  <2> QED
    BY <2>1, <2>2
<1>9. \A v \in Workers \ {w} : Distinct(c, call[v])
  <2> SUFFICES ASSUME NEW v \in Workers \ {w} PROVE Distinct(c, call[v])
    OBVIOUS
  <2>1. call[v].pc \in NotifyPoints /\ call[v].op = "queue"
            => call[v].id <= started /\ call[v].id \in Ids
    BY DEF NInv, CallFits, QueueFits
  <2>2. CASE c = Idle
    BY <2>2, IdleFits
  <2>3. CASE c # Idle
    BY <1>5, <1>7, <2>1, <2>3 DEF Distinct, Ids
  <2> QED
    BY <2>2, <2>3
<1>10. Caps(note, call')
  <2>1. \A day, C : ~MayAdd(c, day, C)
    BY <1>7, IdleFits DEF MayAdd
  <2> QED
    BY <1>5, <2>1, CapsKept
<1> QED
  <2>1. started' >= started /\ call[w].pc # "commit"
    BY <1>5
  <2> QED
    BY <1>5, <1>6, <1>7, <1>8, <1>9, <1>10, <2>1, LocklessStep

\* The beginning of a call that is no queue call.
LEMMA BeginsStep ==
    ASSUME NInv, NEW w \in Workers, NEW c \in NotifyCalls, MakeCall(w, c), UNCHANGED replied,
           CallFits(w, c, note, noteLock, started + 1, today),
           c.op # "queue"
    PROVE  NInv'
<1>1. /\ call[w].pc = "idle" /\ started' = started + 1 /\ started' \in 0..MaxCalls
      /\ started' >= started
      /\ call' = [call EXCEPT ![w] = c]
      /\ UNCHANGED <<note, noteLock, pref, prefLock, log, today>>
      /\ replied' \subseteq EventKeys \X Ids
  BY ConstantsAreNat DEF MakeCall, NInv, NotifyTypeOK
<1>2. \A v \in Workers \ {w} : Distinct(c, call[v])
  BY DEF Distinct
<1>3. Caps(note, call')
  BY <1>1, CapsKept DEF MayAdd
<1> QED
  BY <1>1, <1>2, <1>3, LocklessStep

LEMMA RecordDeliveryStep ==
    ASSUME NInv, NEW w \in Workers, RecordDelivery(w)
    PROVE  NInv'
<1>1. PICK i \in Ids, event \in Events :
        /\ note[i].status \notin {"absent", "suppressed"}
        /\ MakeCall(w, [Idle EXCEPT !.pc = "log", !.op = "deliver", !.id = i, !.event = event])
  BY DEF RecordDelivery
<1>2. PICK c : c = [Idle EXCEPT !.pc = "log", !.op = "deliver", !.id = i, !.event = event]
  OBVIOUS
<1>3. c \in NotifyCalls /\ c.pc = "log" /\ c.op = "deliver" /\ c.id = i /\ c.event = event
  BY <1>2, IdleIsACall DEF Idle, NotifyCalls, NotifyCounters, NotifyPoints, NotifyOps
<1>4. CallFits(w, c, note, noteLock, started + 1, today)
  BY <1>1, <1>3 DEF CallFits, DeliveryFits, NotifyOps
<1> QED
  BY <1>1, <1>2, <1>3, <1>4, BeginsStep DEF RecordDelivery

LEMMA UpdatePreferenceStep ==
    ASSUME NInv, NEW w \in Workers, UpdatePreference(w)
    PROVE  NInv'
<1>1. PICK p \in Preferences :
        MakeCall(w, [Idle EXCEPT !.pc = "upsert", !.op = "prefer", !.pref = p])
  BY DEF UpdatePreference
<1>2. PICK c : c = [Idle EXCEPT !.pc = "upsert", !.op = "prefer", !.pref = p]
  OBVIOUS
<1>3. c \in NotifyCalls /\ c.pc = "upsert" /\ c.op = "prefer"
  BY <1>2, IdleIsACall DEF Idle, NotifyCalls, NotifyCounters, NotifyPoints, NotifyOps
<1>4. CallFits(w, c, note, noteLock, started + 1, today)
  BY <1>3 DEF CallFits, NotifyOps
<1> QED
  BY <1>1, <1>2, <1>3, <1>4, BeginsStep DEF UpdatePreference

\* A step of a call that changes its record only, and is not the call's last.
LEMMA GoesOn ==
    ASSUME NInv, NEW w \in Workers, NEW c \in NotifyCalls, Go(w, c), UNCHANGED <<database, clock>>,
           call[w].pc # "commit",
           CallFits(w, c, note, noteLock, started, today),
           \A v \in Workers \ {w} : Distinct(c, call[v]),
           Caps(note, call')
    PROVE  NInv'
<1>1. /\ call' = [call EXCEPT ![w] = c]
      /\ UNCHANGED <<note, noteLock, pref, prefLock, log, today>>
      /\ started' = started /\ replied' = replied
  BY DEF Go, database, clock
<1>2. started' \in 0..MaxCalls /\ started' >= started /\ replied' \subseteq EventKeys \X Ids
  BY <1>1, ConstantsAreNat DEF NInv, NotifyTypeOK
<1>3. CallFits(w, c, note, noteLock, started', today)
  BY <1>1
<1> QED
  BY <1>1, <1>2, <1>3, LocklessStep

\* A queue call that goes on with the notification it began with.
LEMMA QueueGoesOn ==
    ASSUME NInv, NEW w \in Workers, NEW c \in NotifyCalls, Go(w, c), UNCHANGED <<database, clock>>,
           call[w].pc \in {"preference", "count"},
           c.pc \in {"count", "insert"}, c.op = "queue", c.id = call[w].id,
           c.row.key = call[w].row.key, c.row.class = call[w].row.class,
           c.row.status \in {"queued", "suppressed"}, c.pc = "count" => c.row.status = "queued",
           c.pc = "insert" => c.row.day = today,
           Caps(note, call')
    PROVE  NInv'
<1>1. call[w].op = "queue" /\ QueueFits(call[w], note, started, today)
  BY DEF NInv, CallFits, DeliveryFits, NotifyPoints, NotifyOps
<1>2. CallFits(w, c, note, noteLock, started, today)
  <2>1. today >= 1 /\ today <= today
    BY ConstantsAreNat DEF NInv, NotifyTypeOK
  <2> QED
    BY <1>1, <2>1 DEF CallFits, QueueFits, NotifyOps
<1>3. \A v \in Workers \ {w} : Distinct(c, call[v])
  <2>1. \A v \in Workers \ {w} : Distinct(call[w], call[v])
    BY DEF NInv
  <2> QED
    BY <1>1, <2>1 DEF Distinct, NotifyPoints
<1> QED
  BY <1>2, <1>3, GoesOn

LEMMA EndsEarly ==
    ASSUME NInv, NEW w \in Workers, Go(w, Idle), UNCHANGED <<database, clock>>,
           call[w].pc # "commit"
    PROVE  NInv'
<1>1. Caps(note, call')
  BY CapsKept, IdleFits DEF Go
<1> QED
  BY <1>1, IdleIsACall, IdleFits, GoesOn

LEMMA ReadPreferenceStep ==
    ASSUME NInv, NEW w \in Workers, ReadPreference(w)
    PROVE  NInv'
<1>1. call[w].pc = "preference" /\ call[w] \in NotifyCalls /\ UNCHANGED <<database, clock>>
      /\ pref \in Preferences
  BY DEF ReadPreference, NInv, NotifyTypeOK
<1>2. call[w].op = "queue" /\ QueueFits(call[w], note, started, today)
  BY <1>1 DEF NInv, CallFits, DeliveryFits, NotifyPoints, NotifyOps
<1>3. CASE pref.cadence = "on"
  <2>1. PICK c : c = [call[w] EXCEPT !.pref = pref, !.pc = "count"]
    OBVIOUS
  <2>2. /\ c \in NotifyCalls /\ c.pc = "count" /\ c.op = call[w].op /\ c.id = call[w].id
        /\ c.row = call[w].row
    BY <1>1, <2>1 DEF NotifyCalls, NotifyCounters, NotifyPoints
  <2>3. Go(w, c)
    BY <1>1, <1>3, <2>1 DEF ReadPreference, NotifyCalls
  <2>4. Caps(note, call')
    BY <2>2, <2>3, CapsKept DEF Go, MayAdd
  <2> QED
    BY <1>1, <1>2, <2>2, <2>3, <2>4, QueueGoesOn DEF QueueFits
<1>4. CASE pref.cadence = "off"
  <2>1. PICK c : c = [call[w] EXCEPT !.pref = pref, !.pc = "insert",
                                     !.row.status = "suppressed", !.row.day = today]
    OBVIOUS
  <2>0. today \in 0..Days
    BY ConstantsAreNat DEF NInv, NotifyTypeOK
  <2>2. /\ c \in NotifyCalls /\ c.pc = "insert" /\ c.op = call[w].op /\ c.id = call[w].id
        /\ c.row.key = call[w].row.key /\ c.row.class = call[w].row.class
        /\ c.row.status = "suppressed" /\ c.row.day = today
    BY <1>1, <2>0, <2>1 DEF NotifyCalls, NotifyCounters, NotifyPoints, Rows, Statuses
  <2>3. Go(w, c)
    BY <1>1, <1>4, <2>1 DEF ReadPreference, NotifyCalls
  <2>4. Caps(note, call')
    BY <2>2, <2>3, CapsKept DEF Go, MayAdd
  <2> QED
    BY <1>1, <1>2, <2>2, <2>3, <2>4, QueueGoesOn
<1>5. CASE pref.cadence = "unknown"
  <2>1. Go(w, Idle)
    BY <1>5 DEF ReadPreference
  <2> QED
    BY <1>1, <2>1, EndsEarly
<1> QED
  BY <1>1, <1>3, <1>4, <1>5 DEF Preferences

\* A count on one day is followed by the insertion on that or a later one: of the day it
\* was made on it has seen less than the limit, of a later day there is nothing yet.
LEMMA CountedWithin ==
    ASSUME NInv, NEW day \in 1..Days, NEW C \in {Regular, Limited}, NEW cl,
           day = today => Cardinality(SentOn(today)) < LimitOf(C), day >= today
    PROVE  Within(day, C, LimitOf(C), note, cl)
<1>1. \A i \in Ids : note[i] # NoNote => note[i].class \in Classes /\ note[i].day <= today
  BY DEF NInv, RowFits
<1>2. Adding(day, C, cl) \subseteq Workers /\ SentOf(day, C, note) \subseteq Ids
  BY DEF Adding, SentOf
<1>3. CASE day = today
  <2>1. SentOf(day, C, note) \subseteq SentOn(today) /\ SentOn(today) \subseteq Ids
    BY <1>3 DEF SentOf, SentOn, Regular, Limited
  <2>2. Cardinality(SentOf(day, C, note)) <= Cardinality(SentOn(today))
    BY <2>1, IdsAreCounted, FS_Subset
  <2>3. Cardinality(SentOf(day, C, note)) <= LimitOf(C) - 1
    BY <1>2, <1>3, <2>1, <2>2, IdsAreCounted, ConstantsAreNat
  <2> QED
    BY <1>2, <2>3, WorkersAreCounted, IdsAreCounted, ConstantsAreNat DEF Within
<1>4. CASE day # today
  <2>1. \A i \in Ids : note[i].day < day \/ note[i] = NoNote
    BY <1>1, <1>4, ConstantsAreNat DEF NInv, NotifyTypeOK, Rows
  <2>2. SentOf(day, C, note) = {}
    BY <2>1, ConstantsAreNat DEF SentOf, NoNote, NInv, NotifyTypeOK, Rows
  <2> QED
    BY <1>2, <2>2, WorkersAreCounted, ConstantsAreNat, FS_EmptySet DEF Within
<1> QED
  BY <1>3, <1>4

LEMMA CountSentStep ==
    ASSUME NInv, NEW w \in Workers, CountSent(w)
    PROVE  NInv'
<1>1. PICK status : status = IF LimitReached(call[w].row.class, Cardinality(SentOn(today)))
                             THEN "suppressed" ELSE "queued"
  OBVIOUS
<1>2. PICK c : c = [call[w] EXCEPT !.pc = "insert", !.row.day = today, !.row.status = status]
  OBVIOUS
<1>0. today \in 0..Days
  BY ConstantsAreNat DEF NInv, NotifyTypeOK
<1>3. call[w].pc = "count" /\ call[w] \in NotifyCalls /\ UNCHANGED <<database, clock>> /\ Go(w, c)
  BY <1>1, <1>2 DEF CountSent, NInv, NotifyTypeOK
<1>4. call[w].op = "queue" /\ QueueFits(call[w], note, started, today)
  BY <1>3 DEF NInv, CallFits, DeliveryFits, NotifyPoints, NotifyOps
<1>5. status \in {"suppressed", "queued"}
  BY <1>1
<1>6. /\ c \in NotifyCalls /\ c.pc = "insert" /\ c.op = call[w].op /\ c.id = call[w].id
      /\ c.row.key = call[w].row.key /\ c.row.class = call[w].row.class /\ c.row.status = status
      /\ c.row.day = today
  <2>1. call[w].row \in Rows
    BY <1>3 DEF NotifyCalls
  <2>2. PICK r : r = [call[w].row EXCEPT !.day = today, !.status = status]
    OBVIOUS
  <2>3. /\ r \in Rows /\ r.key = call[w].row.key /\ r.class = call[w].row.class
        /\ r.status = status /\ r.day = today
    BY <1>0, <1>5, <2>1, <2>2 DEF Rows, Statuses
  <2>4. c = [call[w] EXCEPT !.pc = "insert", !.row = r]
    BY <1>2, <1>3, <2>2 DEF NotifyCalls
  <2> QED
    BY <1>3, <2>3, <2>4 DEF NotifyCalls, NotifyCounters, NotifyPoints
<1>7. ASSUME NEW C \in {Regular, Limited}, c.row.class \in C, status = "queued"
      PROVE  Cardinality(SentOn(today)) < LimitOf(C)
  <2>1. Cardinality(SentOn(today)) \in Nat
    BY IdsAreCounted DEF SentOn
  <2>2. ~LimitReached(c.row.class, Cardinality(SentOn(today)))
    BY <1>1, <1>6, <1>7
  <2>3. Regular # Limited
    BY DEF Regular, Limited
  <2> QED
    BY <1>7, <2>1, <2>2, <2>3, ConstantsAreNat
       DEF LimitReached, LimitOf, Most, Regular, Limited
<1>8. Caps(note, call')
  <2> SUFFICES ASSUME NEW day \in 1..Days, NEW C \in {Regular, Limited}
               PROVE  Within(day, C, LimitOf(C), note, call')
    BY DEF Caps
  <2>1. CASE MayAdd(c, day, C)
    <3>1. day >= today /\ c.row.class \in C /\ status = "queued"
      BY <1>6, <2>1, ConstantsAreNat DEF MayAdd, NInv, NotifyTypeOK
    <3> QED
      BY <1>7, <3>1, CountedWithin
  <2>2. CASE ~MayAdd(c, day, C)
    <3>1. Adding(day, C, call') \subseteq Adding(day, C, call)
      BY <1>3, <2>2 DEF Adding, Go, NInv, NotifyTypeOK
    <3>2. Within(day, C, LimitOf(C), note, call)
      BY DEF NInv, Caps
    <3> QED
      BY <3>1, <3>2, WithinKept, ConstantsAreNat
  <2> QED
    BY <2>1, <2>2
<1> QED
  BY <1>3, <1>4, <1>5, <1>6, <1>8, QueueGoesOn

LEMMA InsertNotificationStep ==
    ASSUME NInv, NEW w \in Workers, InsertNotification(w)
    PROVE  NInv'
<1>1. call[w].pc = "insert" /\ call[w] \in NotifyCalls /\ UNCHANGED <<database, clock>>
  BY DEF InsertNotification, NInv, NotifyTypeOK
<1>2. call[w].op = "queue" /\ QueueFits(call[w], note, started, today)
  BY <1>1 DEF NInv, CallFits, DeliveryFits, NotifyPoints, NotifyOps
<1>3. CASE Cardinality(ToInsert(call[w])) = 1 /\ QueuedUnder(call[w].row.key) = {}
  <2>0. PICK d \in call[w].row.day..today : Go(w, [call[w] EXCEPT !.pc = "commit", !.row.day = d])
    BY <1>3 DEF InsertNotification
  <2>1. PICK c : c = [call[w] EXCEPT !.pc = "commit", !.row.day = d]
    OBVIOUS
  <2>2. Go(w, c)
    BY <2>0, <2>1
  <2>3. d \in 0..Days /\ d \in Nat /\ d >= 1 /\ d >= call[w].row.day /\ d <= today
    <3>1. today \in Nat /\ today <= Days /\ call[w].row.day \in Nat
      BY <1>1, ConstantsAreNat DEF NInv, NotifyTypeOK, NotifyCalls, Rows
    <3>2. call[w].row.day >= 1
      BY <1>1, <1>2 DEF QueueFits
    <3> QED
      BY <2>0, <3>1, <3>2, ConstantsAreNat
  <2>4. /\ c \in NotifyCalls /\ c.pc = "commit" /\ c.op = call[w].op /\ c.id = call[w].id
        /\ c.row.key = call[w].row.key /\ c.row.class = call[w].row.class
        /\ c.row.status = call[w].row.status /\ c.row.day = d
    BY <1>1, <2>1, <2>3 DEF NotifyCalls, NotifyCounters, NotifyPoints, Rows
  <2>5. CallFits(w, c, note, noteLock, started, today)
    BY <1>2, <1>3, <2>3, <2>4 DEF CallFits, QueueFits, NotifyOps, QueuedUnder
  <2>6. \A v \in Workers \ {w} : Distinct(c, call[v])
    <3>1. ToInsert(call[w]) # {}
      BY <1>3, FS_EmptySet
    <3>2. \A v \in Workers \ {w} : call[v].pc = "commit" /\ call[v].op = "queue"
                                        => call[v].row.key # call[w].row.key
      BY <3>1 DEF InsertNotification
    <3>3. \A v \in Workers \ {w} : Distinct(call[w], call[v])
      BY DEF NInv
    <3> QED
      BY <1>1, <1>2, <2>4, <3>2, <3>3 DEF Distinct, NotifyPoints
  <2>7. Caps(note, call')
    <3>1. \A day, C : MayAdd(c, day, C) => MayAdd(call[w], day, C)
      BY <1>1, <2>3, <2>4 DEF MayAdd
    <3> QED
      BY <2>2, <3>1, CapsKept DEF Go
  <2> QED
    BY <1>1, <2>2, <2>4, <2>5, <2>6, <2>7, GoesOn
<1>4. CASE ~(Cardinality(ToInsert(call[w])) = 1 /\ QueuedUnder(call[w].row.key) = {})
  <2>1. Go(w, Idle)
    BY <1>4 DEF InsertNotification
  <2> QED
    BY <1>1, <2>1, EndsEarly
<1> QED
  BY <1>3, <1>4

LEMMA InsertLogStep ==
    ASSUME NInv, NEW w \in Workers, InsertLog(w)
    PROVE  NInv'
<1>1. PICK c : c = [call[w] EXCEPT !.pc = IF call[w].event = "opened" THEN "commit" ELSE "update"]
  OBVIOUS
<1>2. call[w].pc = "log" /\ call[w] \in NotifyCalls /\ UNCHANGED <<database, clock>> /\ Go(w, c)
  BY <1>1 DEF InsertLog, NInv, NotifyTypeOK
<1>3. call[w].op = "deliver" /\ DeliveryFits(w, call[w], note, noteLock)
  BY <1>2 DEF NInv, CallFits, QueueFits, NotifyPoints, NotifyOps
<1>4. /\ c \in NotifyCalls /\ c.pc = (IF call[w].event = "opened" THEN "commit" ELSE "update")
      /\ c.op = "deliver" /\ c.id = call[w].id /\ c.event = call[w].event
  BY <1>1, <1>2, <1>3 DEF NotifyCalls, NotifyCounters, NotifyPoints
<1>5. CallFits(w, c, note, noteLock, started, today)
  BY <1>3, <1>4 DEF CallFits, DeliveryFits, NotifyOps
<1>6. \A v \in Workers \ {w} : Distinct(c, call[v])
  BY <1>4 DEF Distinct
<1>7. Caps(note, call')
  BY <1>2, <1>4, CapsKept DEF Go, MayAdd
<1> QED
  BY <1>2, <1>4, <1>5, <1>6, <1>7, GoesOn

LEMMA UpdateStatusStep ==
    ASSUME NInv, NEW w \in Workers, UpdateStatus(w)
    PROVE  NInv'
<1>1. PICK c : c = [call[w] EXCEPT !.pc = "commit"]
  OBVIOUS
<1>2. /\ call[w].pc = "update" /\ call[w] \in NotifyCalls /\ noteLock[call[w].id] = Null
      /\ noteLock' = [noteLock EXCEPT ![call[w].id] = w] /\ call' = [call EXCEPT ![w] = c]
      /\ UNCHANGED <<note, pref, prefLock, log, replied, started, today>>
  BY <1>1 DEF UpdateStatus, Go, clock, NInv, NotifyTypeOK
<1>3. call[w].op = "deliver" /\ DeliveryFits(w, call[w], note, noteLock)
  BY <1>2 DEF NInv, CallFits, QueueFits, NotifyPoints, NotifyOps
<1>4. /\ c \in NotifyCalls /\ c.pc = "commit" /\ c.op = "deliver" /\ c.id = call[w].id
      /\ c.event = call[w].event
  BY <1>1, <1>2, <1>3 DEF NotifyCalls, NotifyCounters, NotifyPoints
<1>5. /\ noteLock' \in [Ids -> Workers \union {Null}] /\ noteLock'[c.id] = w
      /\ \A i \in Ids : noteLock'[i] = IF i = c.id THEN w ELSE noteLock[i]
  BY <1>2, <1>3, <1>4 DEF NInv, NotifyTypeOK, DeliveryFits
<1>6. CallFits(w, c, note, noteLock', started', today)
  BY <1>2, <1>3, <1>4, <1>5 DEF CallFits, DeliveryFits, NotifyOps
<1>7. \A v \in Workers \ {w} : Distinct(c, call[v])
  BY <1>4 DEF Distinct
<1>8. \A i \in Ids : noteLock'[i] = w => Holding(c, i)
  BY <1>2, <1>3, <1>4, <1>5 DEF Holding, NInv, DeliveryFits
<1>9. \A i \in Ids, v \in Workers \ {w} : noteLock'[i] = v <=> noteLock[i] = v
  BY <1>2, <1>4, <1>5, NotificationAssumption
<1>10. Caps(note, call')
  BY <1>2, <1>4, CapsKept DEF MayAdd
<1>11. started' \in 0..MaxCalls /\ started' >= started
  BY <1>2, ConstantsAreNat DEF NInv, NotifyTypeOK
<1> QED
  BY <1>2, <1>4, <1>5, <1>6, <1>7, <1>8, <1>9, <1>10, <1>11, NotifyStep DEF NInv, NotifyTypeOK

LEMMA UpsertPreferenceStep ==
    ASSUME NInv, NEW w \in Workers, UpsertPreference(w)
    PROVE  NInv'
<1>1. PICK c : c = [call[w] EXCEPT !.pc = "commit"]
  OBVIOUS
<1>2. /\ call[w].pc = "upsert" /\ call[w] \in NotifyCalls /\ prefLock' = w
      /\ call' = [call EXCEPT ![w] = c]
      /\ UNCHANGED <<note, noteLock, pref, log, replied, started, today>>
  BY <1>1 DEF UpsertPreference, Go, clock, NInv, NotifyTypeOK
<1>3. call[w].op = "prefer"
  BY <1>2 DEF NInv, CallFits, QueueFits, DeliveryFits, NotifyPoints, NotifyOps
<1>4. c \in NotifyCalls /\ c.pc = "commit" /\ c.op = "prefer"
  BY <1>1, <1>2, <1>3 DEF NotifyCalls, NotifyCounters, NotifyPoints
<1>5. CallFits(w, c, note, noteLock, started', today)
  BY <1>4 DEF CallFits, NotifyOps
<1>6. \A v \in Workers \ {w} : Distinct(c, call[v])
  BY <1>4 DEF Distinct
<1>7. /\ \A i \in Ids : noteLock'[i] = w => Holding(c, i)
      /\ \A i \in Ids, v \in Workers \ {w} : noteLock'[i] = v <=> noteLock[i] = v
      /\ noteLock' \in [Ids -> Workers \union {Null}]
  BY <1>2 DEF NInv, NotifyTypeOK, Holding
<1>8. Caps(note, call')
  BY <1>2, <1>4, CapsKept DEF MayAdd
<1>9. started' \in 0..MaxCalls /\ started' >= started
  BY <1>2, ConstantsAreNat DEF NInv, NotifyTypeOK
<1>10. /\ pref' \in Preferences /\ prefLock' \in Workers \union {Null}
       /\ replied' \subseteq EventKeys \X Ids
  BY <1>2 DEF NInv, NotifyTypeOK
<1> QED
  BY <1>2, <1>4, <1>5, <1>6, <1>7, <1>8, <1>9, <1>10, NotifyStep DEF NInv, NotifyTypeOK

-------------------------------------------------------------------------------
(* Commits.                                                                 *)

\* What commits: a notification, what a provider reported, or a preference.
LEMMA NotificationCommits ==
    ASSUME NInv, NEW w \in Workers, NotifyCommit(w), call[w].op = "queue"
    PROVE  /\ QueueFits(call[w], note, started, today) /\ call[w].row \in Rows
           /\ note' = [note EXCEPT ![call[w].id] = call[w].row]
           /\ replied' = replied \union {<<call[w].row.key, call[w].id>>}
           /\ UNCHANGED <<log, pref>>
<1>1. call[w].pc = "commit" /\ call[w] \in NotifyCalls
  BY DEF NotifyCommit, NInv, NotifyTypeOK
<1>2. QueueFits(call[w], note, started, today)
  BY <1>1 DEF NInv, CallFits, NotifyPoints
<1> QED
  BY <1>1, <1>2 DEF NotifyCommit, NotifyCalls

LEMMA DeliveryCommits ==
    ASSUME NInv, NEW w \in Workers, NotifyCommit(w), call[w].op = "deliver"
    PROVE  /\ DeliveryFits(w, call[w], note, noteLock)
           /\ note' = IF call[w].event = "opened" THEN note
                      ELSE [note EXCEPT ![call[w].id].status = call[w].event]
           /\ log' = [log EXCEPT ![call[w].id] = Append(@, call[w].event)]
           /\ UNCHANGED <<replied, pref>>
<1>1. call[w].pc = "commit"
  BY DEF NotifyCommit
<1>2. DeliveryFits(w, call[w], note, noteLock)
  BY <1>1 DEF NInv, CallFits, NotifyPoints
<1>3. call[w].event = "opened" <=> noteLock[call[w].id] # w
  BY <1>1, <1>2 DEF NInv, DeliveryFits, Holding
<1> QED
  BY <1>2, <1>3 DEF NotifyCommit

\* The calls of others fit the rows that w's commit leaves.
LEMMA OthersStillFit ==
    ASSUME NInv, NEW w \in Workers, NotifyCommit(w), call[w].op \in {"queue", "deliver"},
           NEW v \in Workers \ {w}
    PROVE  CallFits(v, call[v], note', noteLock', started', today')
<1>1. CallFits(v, call[v], note, noteLock, started, today) /\ Distinct(call[v], call[w])
  BY DEF NInv
<1>2. /\ started' = started /\ today' = today /\ call[w].pc = "commit"
      /\ \A i \in Ids : noteLock[i] = v => noteLock'[i] = v
  BY DEF NotifyCommit, clock, NotifyRelease
<1>3. CASE call[w].op = "queue"
  <2>1. /\ QueueFits(call[w], note, started, today)
        /\ \A i \in Ids : note'[i] = IF i = call[w].id THEN call[w].row ELSE note[i]
    BY <1>3, NotificationCommits DEF NInv, NotifyTypeOK
  <2>2. call[v].pc \in NotifyPoints /\ call[v].op = "queue"
            => QueueFits(call[v], note', started, today)
    BY <1>1, <1>2, <1>3, <2>1 DEF CallFits, QueueFits, Distinct, NotifyPoints
  <2>3. call[v].pc \in NotifyPoints /\ call[v].op = "deliver"
            => DeliveryFits(v, call[v], note', noteLock')
    BY <1>1, <1>2, <2>1 DEF CallFits, QueueFits, DeliveryFits, NoNote
  <2> QED
    BY <1>1, <1>2, <2>2, <2>3 DEF CallFits
<1>4. CASE call[w].op = "deliver"
  <2>1. DeliveryFits(w, call[w], note, noteLock)
    BY <1>4, DeliveryCommits
  <2>2. \A i \in Ids : /\ note'[i].key = note[i].key
                       /\ i # call[w].id => note'[i] = note[i]
                       /\ i = call[w].id => note'[i].status \notin {"absent", "suppressed"}
    <3>1. CASE call[w].event = "opened"
      BY <1>4, <2>1, <3>1, DeliveryCommits DEF DeliveryFits
    <3>2. CASE call[w].event # "opened"
      <4>1. note' = [note EXCEPT ![call[w].id].status = call[w].event]
        BY <1>4, <3>2, DeliveryCommits
      <4>2. note \in [Ids -> Rows] /\ call[w].event \in {"delivered", "bounced"}
        BY <2>1, <3>2 DEF NInv, NotifyTypeOK, DeliveryFits, Events
      <4> QED
        BY <2>1, <4>1, <4>2 DEF DeliveryFits, Rows
    <3> QED
      BY <3>1, <3>2
  <2>3. call[v].pc \in NotifyPoints /\ call[v].op = "queue"
            => QueueFits(call[v], note', started, today)
    BY <1>1, <2>1, <2>2 DEF CallFits, QueueFits, DeliveryFits, NoNote
  <2>4. call[v].pc \in NotifyPoints /\ call[v].op = "deliver"
            => DeliveryFits(v, call[v], note', noteLock')
    BY <1>1, <1>2, <2>2 DEF CallFits, DeliveryFits
  <2> QED
    BY <1>1, <1>2, <2>3, <2>4 DEF CallFits
<1> QED
  BY <1>3, <1>4

\* The parts of the invariant about the calls, after a commit.
LEMMA CommitKeepsCalls ==
    ASSUME NInv, NEW w \in Workers, NotifyCommit(w), call[w].op \in {"queue", "deliver"}
    PROVE  /\ \A v \in Workers : call'[v] = IF v = w THEN Idle ELSE call[v]
           /\ call' \in [Workers -> NotifyCalls]
           /\ \A v \in Workers : CallFits(v, call'[v], note', noteLock', started', today')
           /\ \A u, v \in Workers : u # v => Distinct(call'[u], call'[v])
           /\ \A v \in Workers, i \in Ids : noteLock'[i] = v => Holding(call'[v], i)
           /\ noteLock' \in [Ids -> Workers \union {Null}] /\ prefLock' \in Workers \union {Null}
           /\ UNCHANGED <<started, today>>
<1>1. \A v \in Workers : call'[v] = IF v = w THEN Idle ELSE call[v]
  BY DEF NotifyCommit, Go, NInv, NotifyTypeOK
<1>2. call' \in [Workers -> NotifyCalls]
  BY IdleIsACall DEF NotifyCommit, Go, NInv, NotifyTypeOK
<1>3. \A v \in Workers : CallFits(v, call'[v], note', noteLock', started', today')
  BY <1>1, IdleFits, OthersStillFit
<1>4. \A u, v \in Workers : u # v => Distinct(call'[u], call'[v])
  <2>1. \A a, b : Distinct(a, b) => Distinct(b, a)
    BY DEF Distinct
  <2> QED
    BY <1>1, <2>1, IdleFits DEF NInv
<1>5. \A v \in Workers, i \in Ids : noteLock'[i] = v => noteLock[i] = v /\ v # w
  BY NotificationAssumption DEF NotifyCommit, NotifyRelease
<1>6. noteLock' \in [Ids -> Workers \union {Null}] /\ prefLock' \in Workers \union {Null}
  BY DEF NotifyCommit, NotifyRelease, NInv, NotifyTypeOK
<1> QED
  BY <1>1, <1>2, <1>3, <1>4, <1>5, <1>6 DEF NInv, NotifyCommit, clock

LEMMA QueueCommitStep ==
    ASSUME NInv, NEW w \in Workers, NotifyCommit(w), call[w].op = "queue"
    PROVE  NInv'
<1> DEFINE c == call[w]
<1>1. /\ QueueFits(c, note, started, today) /\ c.row \in Rows
      /\ note' = [note EXCEPT ![c.id] = c.row] /\ replied' = replied \union {<<c.row.key, c.id>>}
      /\ UNCHANGED <<log, pref>>
  BY NotificationCommits
<1>2. \A i \in Ids : note'[i] = IF i = c.id THEN c.row ELSE note[i]
  BY <1>1 DEF NInv, NotifyTypeOK
<1>3. NotifyTypeOK'
  BY <1>1, CommitKeepsCalls DEF NInv, NotifyTypeOK, QueueFits
<1>4. OneNotePerKey'
  <2> SUFFICES ASSUME NEW i \in Ids, NEW j \in Ids, i # j,
                      note'[i].key # Null, note'[i].key = note'[j].key
               PROVE  FALSE
    BY DEF OneNotePerKey
  <2>1. CASE i # c.id /\ j # c.id
    BY <1>2, <2>1 DEF NInv, OneNotePerKey
  <2>2. CASE i = c.id \/ j = c.id
    BY <1>1, <1>2, <2>2 DEF QueueFits, NotifyCommit
  <2> QED
    BY <2>1, <2>2
<1>5. \A i \in Ids : RowFits(note'[i], log'[i], i, started', today')
  <2> SUFFICES ASSUME NEW i \in Ids PROVE RowFits(note'[i], log'[i], i, started', today')
    OBVIOUS
  <2>1. RowFits(note[i], log[i], i, started, today) /\ UNCHANGED <<log, started, today>>
    BY <1>1, CommitKeepsCalls DEF NInv
  <2>2. CASE i # c.id
    BY <1>2, <2>1, <2>2
  <2>3. CASE i = c.id
    <3>1. log[i] = <<>> /\ ~(i > started)
      BY <1>1, <2>1, <2>3, ConstantsAreNat DEF QueueFits, RowFits, Ids, NInv, NotifyTypeOK
    <3>2. c.row.day <= today /\ c.row # NoNote /\ c.row.status # "absent"
      BY <1>1 DEF QueueFits, NoNote, NotifyCommit
    <3> QED
      BY <1>1, <1>2, <2>1, <2>3, <3>1, <3>2 DEF RowFits, QueueFits
  <2> QED
    BY <2>2, <2>3
<1>6. StatusFollowsLog'
  <2> SUFFICES ASSUME NEW i \in Ids
               PROVE  LET reports == {n \in 1..Len(log[i]) : log[i][n] \in {"delivered", "bounced"}}
                      IN  /\ reports = {} => note'[i].status \in {"absent", "queued", "suppressed"}
                          /\ \A n \in reports : (\A m \in reports : m <= n)
                                                    => note'[i].status = log[i][n]
    BY <1>1 DEF StatusFollowsLog
  <2>1. CASE i # c.id
    BY <1>2, <2>1 DEF NInv, StatusFollowsLog
  <2>2. CASE i = c.id
    <3>1. log[i] = <<>> /\ c.row.status \in {"queued", "suppressed"}
      BY <1>1, <2>2 DEF NInv, RowFits, QueueFits
    <3> QED
      BY <1>2, <2>2, <3>1
  <2> QED
    BY <2>1, <2>2
<1>7. Caps(note', call')
  <2> SUFFICES ASSUME NEW day \in 1..Days, NEW C \in {Regular, Limited}
               PROVE  Within(day, C, LimitOf(C), note', call')
    BY CommitKeepsCalls DEF Caps
  <2>0. /\ \A v \in Workers : call'[v] = IF v = w THEN Idle ELSE call[v]
        /\ Within(day, C, LimitOf(C), note, call)
    BY CommitKeepsCalls DEF NInv, Caps
  <2>1. /\ Adding(day, C, call') = Adding(day, C, call) \ {w}
        /\ Adding(day, C, call) \subseteq Workers
        /\ SentOf(day, C, note) \subseteq Ids /\ c.id \notin SentOf(day, C, note)
    BY <1>1, <2>0, IdleFits DEF Adding, SentOf, QueueFits, NoNote
  <2>2. CASE MayAdd(c, day, C)
    <3>1. w \in Adding(day, C, call)
      BY <2>2 DEF Adding
    <3>2. SentOf(day, C, note') = SentOf(day, C, note) \union {c.id}
      BY <1>1, <1>2, <2>2 DEF SentOf, MayAdd, QueueFits, NotifyCommit
    <3>3. Cardinality(SentOf(day, C, note')) = Cardinality(SentOf(day, C, note)) + 1
      BY <2>1, <3>2, IdsAreCounted, FS_AddElement
    <3>4. Cardinality(Adding(day, C, call')) = Cardinality(Adding(day, C, call)) - 1
      BY <2>1, <3>1, WorkersAreCounted, FS_RemoveElement
    <3> QED
      BY <2>0, <2>1, <3>3, <3>4, IdsAreCounted, WorkersAreCounted, ConstantsAreNat DEF Within
  <2>3. CASE ~MayAdd(c, day, C)
    <3>1. SentOf(day, C, note') = SentOf(day, C, note)
      BY <1>1, <1>2, <2>3 DEF SentOf, MayAdd, QueueFits, NotifyCommit, NoNote
    <3> QED
      BY <2>0, <2>1, <3>1, WithinKept, ConstantsAreNat
  <2> QED
    BY <2>2, <2>3
<1> QED
  BY <1>3, <1>4, <1>5, <1>6, <1>7, CommitKeepsCalls DEF NInv

LEMMA DeliverCommitStep ==
    ASSUME NInv, NEW w \in Workers, NotifyCommit(w), call[w].op = "deliver"
    PROVE  NInv'
<1> DEFINE k == call[w].id
           e == call[w].event
<1>1. /\ DeliveryFits(w, call[w], note, noteLock) /\ k \in Ids /\ e \in Events
      /\ note' = IF e = "opened" THEN note ELSE [note EXCEPT ![k].status = e]
      /\ log' = [log EXCEPT ![k] = Append(@, e)]
      /\ UNCHANGED <<replied, pref>>
  BY DeliveryCommits DEF DeliveryFits
<1> HIDE DEF k, e
<1>2. \A i \in Ids : /\ log[i] \in Seq(Events)
                     /\ log'[i] = IF i = k THEN Append(log[i], e) ELSE log[i]
  BY <1>1 DEF NInv, NotifyTypeOK
<1>3. /\ note' \in [Ids -> Rows]
      /\ \A i \in Ids : /\ note'[i].key = note[i].key /\ note'[i].class = note[i].class
                        /\ note'[i].day = note[i].day
                        /\ note'[i].status = IF i = k /\ e # "opened" THEN e ELSE note[i].status
                        /\ i # k => note'[i] = note[i]
  <2>1. CASE e = "opened"
    BY <1>1, <2>1 DEF NInv, NotifyTypeOK
  <2>2. CASE e # "opened"
    <3>1. note' = [note EXCEPT ![k].status = e] /\ note \in [Ids -> Rows] /\ e \in Statuses
      BY <1>1, <2>2 DEF NInv, NotifyTypeOK, Events, Statuses
    <3> QED
      BY <1>1, <2>2, <3>1 DEF Rows
  <2> QED
    BY <2>1, <2>2
<1>4. note[k].status \notin {"absent", "suppressed"}
  BY <1>1 DEF DeliveryFits, k
<1>5. NotifyTypeOK'
  <2>1. log' \in [Ids -> Seq(Events)]
    BY <1>1, <1>2 DEF NInv, NotifyTypeOK
  <2> QED
    BY <1>1, <1>3, <2>1, CommitKeepsCalls DEF NInv, NotifyTypeOK
<1>6. OneNotePerKey'
  BY <1>3 DEF NInv, OneNotePerKey
<1>7. \A i \in Ids : RowFits(note'[i], log'[i], i, started', today')
  <2> SUFFICES ASSUME NEW i \in Ids PROVE RowFits(note'[i], log'[i], i, started', today')
    OBVIOUS
  <2>1. RowFits(note[i], log[i], i, started, today) /\ UNCHANGED <<started, today>>
    BY CommitKeepsCalls DEF NInv
  <2>2. CASE i # k
    BY <1>2, <1>3, <2>1, <2>2
  <2>3. CASE i = k
    <3>1. note[i] # NoNote /\ note'[i] # NoNote /\ note'[i].status # "absent"
      BY <1>1, <1>3, <1>4, <2>3 DEF NoNote, Events
    <3> QED
      BY <1>3, <2>1, <3>1 DEF RowFits
  <2> QED
    BY <2>2, <2>3
<1>8. StatusFollowsLog'
  <2> DEFINE Reports(events) == {n \in 1..Len(events) : events[n] \in {"delivered", "bounced"}}
  <2> SUFFICES ASSUME NEW i \in Ids
               PROVE  /\ Reports(log'[i]) = {}
                            => note'[i].status \in {"absent", "queued", "suppressed"}
                      /\ \A n \in Reports(log'[i]) : (\A m \in Reports(log'[i]) : m <= n)
                                                    => note'[i].status = log'[i][n]
    BY DEF StatusFollowsLog
  <2>0. /\ Reports(log[i]) = {} => note[i].status \in {"absent", "queued", "suppressed"}
        /\ \A n \in Reports(log[i]) : (\A m \in Reports(log[i]) : m <= n)
                                          => note[i].status = log[i][n]
    BY DEF NInv, StatusFollowsLog
  <2>1. CASE i # k
    BY <1>2, <1>3, <2>0, <2>1
  <2>2. CASE i = k
    <3>1. /\ Len(log'[i]) = Len(log[i]) + 1 /\ Len(log[i]) \in Nat
          /\ log'[i][Len(log[i]) + 1] = e
          /\ \A n \in 1..Len(log[i]) : log'[i][n] = log[i][n]
      <4>1. log[i] \in Seq(Events) /\ e \in Events /\ log'[i] = Append(log[i], e)
        BY <1>1, <1>2, <2>2
      <4> QED
        BY <4>1
    <3>2. CASE e = "opened"
      <4>1. Reports(log'[i]) = Reports(log[i])
        BY <3>1, <3>2
      <4> QED
        BY <1>3, <2>0, <3>1, <3>2, <4>1
    <3>3. CASE e # "opened"
      <4>1. Len(log[i]) + 1 \in Reports(log'[i])
        BY <1>1, <3>1, <3>3 DEF Events
      <4>2. \A n \in Reports(log'[i]) : n \in 1..(Len(log[i]) + 1)
        BY <3>1
      <4> QED
        BY <1>3, <2>2, <3>1, <3>3, <4>1, <4>2
    <3> QED
      BY <3>2, <3>3
  <2> QED
    BY <2>1, <2>2
<1>9. Caps(note', call')
  <2> SUFFICES ASSUME NEW day \in 1..Days, NEW C \in {Regular, Limited}
               PROVE  Within(day, C, LimitOf(C), note', call')
    BY CommitKeepsCalls DEF Caps
  <2>1. Within(day, C, LimitOf(C), note, call)
    BY DEF NInv, Caps
  <2>2. SentOf(day, C, note') = SentOf(day, C, note)
    BY <1>1, <1>3, <1>4 DEF SentOf, Events
  <2>3. Adding(day, C, call') \subseteq Adding(day, C, call)
    BY IdleFits, CommitKeepsCalls DEF Adding
  <2> QED
    BY <2>1, <2>2, <2>3, WithinKept, ConstantsAreNat
<1> QED
  BY <1>5, <1>6, <1>7, <1>8, <1>9, CommitKeepsCalls DEF NInv

LEMMA NotifyCommitStep ==
    ASSUME NInv, NEW w \in Workers, NotifyCommit(w)
    PROVE  NInv'
<1>1. call[w] \in NotifyCalls /\ call[w].pc = "commit" /\ call[w].op \in NotifyOps
  BY DEF NotifyCommit, NInv, NotifyTypeOK, CallFits, NotifyPoints
<1>2. CASE call[w].op = "prefer"
  <2>1. /\ call' = [call EXCEPT ![w] = Idle] /\ NotifyRelease(w)
        /\ UNCHANGED <<note, log, clock, replied>> /\ pref' = call[w].pref
    BY <1>2 DEF NotifyCommit, Go
  <2>2. call[w].pref \in Preferences
    BY <1>1 DEF NotifyCalls
  <2> QED
    BY <2>1, <2>2, CallEnds
<1> QED
  BY <1>1, <1>2, QueueCommitStep, DeliverCommitStep DEF NotifyOps

\* A day that begins changes no row and no call, and the rows and calls fit the later day too.
LEMMA NextDayStep == ASSUME NInv, NextDay PROVE NInv'
<1>1. /\ today' = today + 1 /\ today < Days /\ today \in 1..Days /\ today \in Nat
      /\ UNCHANGED <<note, noteLock, pref, prefLock, log, replied, call, started>>
  BY ConstantsAreNat DEF NextDay, database, NInv, NotifyTypeOK
<1>2. NotifyTypeOK'
  BY <1>1, ConstantsAreNat DEF NInv, NotifyTypeOK
<1>3. OneNotePerKey' /\ StatusFollowsLog'
  BY <1>1 DEF NInv, OneNotePerKey, StatusFollowsLog
<1>4. ASSUME NEW w \in Workers PROVE CallFits(w, call[w], note, noteLock, started, today')
  <2>1. call[w].row.day \in Nat
    BY ConstantsAreNat DEF NInv, NotifyTypeOK, NotifyCalls, Rows
  <2> QED
    BY <1>1, <2>1 DEF NInv, CallFits, QueueFits
<1>5. ASSUME NEW i \in Ids PROVE RowFits(note[i], log[i], i, started, today')
  <2>1. note[i].day \in Nat
    BY ConstantsAreNat DEF NInv, NotifyTypeOK, Rows
  <2> QED
    BY <1>1, <2>1 DEF NInv, RowFits
<1>6. Caps(note', call')
  BY <1>1 DEF NInv
<1> QED
  BY <1>1, <1>2, <1>3, <1>4, <1>5, <1>6 DEF NInv

LEMMA StepKeepsNInv == NInv /\ [NotifyNext]_notifyVars => NInv'
<1> SUFFICES ASSUME NInv, [NotifyNext]_notifyVars PROVE NInv'
  OBVIOUS
<1>1. CASE UNCHANGED notifyVars
  BY <1>1 DEF notifyVars, NInv, NotifyTypeOK, OneNotePerKey, StatusFollowsLog
<1>2. ASSUME NEW w \in Workers, NotifyRollback(w) PROVE NInv'
  <2>1. pref' \in Preferences
    BY <1>2 DEF NotifyRollback, NInv, NotifyTypeOK
  <2> QED
    BY <1>2, <2>1, CallEnds DEF NotifyRollback, Go
<1>3. ASSUME NEW w \in Workers, NotifyAdvance(w) PROVE NInv'
  BY <1>3, ReadPreferenceStep, CountSentStep, InsertNotificationStep, InsertLogStep,
     UpdateStatusStep, UpsertPreferenceStep, NotifyCommitStep DEF NotifyAdvance
<1>4. CASE AllDone
  BY <1>1, <1>4 DEF AllDone
<1> QED
  BY <1>1, <1>2, <1>3, <1>4, QueueStep, RecordDeliveryStep, UpdatePreferenceStep, NextDayStep
     DEF NotifyNext

-------------------------------------------------------------------------------
(* The theorems about notifications.                                        *)

LEMMA NInvHolds == NotifySpec => []NInv
BY InitEstablishesNInv, StepKeepsNInv, PTL DEF NotifySpec

\* Every reachable state is well typed (the rows NotificationRepository can write).
THEOREM NotificationsTypeCorrect == NotifySpec => []NotifyTypeOK
<1>1. NInv => NotifyTypeOK
  BY DEF NInv
<1> QED
  BY <1>1, NInvHolds, PTL

\* queue passes the daily caps by less than one notification per worker, however calls overlap
\* with each other and with midnight (service.py, the comparison with count_sent_today).
THEOREM CapBoundHolds == NotifySpec => []CapBound
<1>1. NInv => CapBound
  <2> SUFFICES ASSUME NInv, NEW day \in 1..Days
               PROVE  /\ Cardinality({i \in SentOn(day) : note[i].class = "regular"})
                            <= (DailyLimit - 1) + Cardinality(Workers)
                      /\ Cardinality(SentOn(day)) <= (Most - 1) + Cardinality(Workers)
    BY DEF CapBound, Most
  <2>1. \A i \in Ids : note[i].status # "absent" => note[i].class \in Classes
    BY DEF NInv, RowFits, NoNote
  <2>2. /\ SentOn(day) = SentOf(day, Limited, note)
        /\ {i \in SentOn(day) : note[i].class = "regular"} = SentOf(day, Regular, note)
    BY <2>1 DEF SentOn, SentOf, Regular, Limited, Classes
  <2>3. /\ Within(day, Regular, DailyLimit, note, call)
        /\ Within(day, Limited, Most, note, call)
    <3>1. LimitOf(Regular) = DailyLimit /\ LimitOf(Limited) = Most
      <4>1. Regular # Limited
        BY DEF Regular, Limited
      <4> QED
        BY <4>1 DEF LimitOf
    <3> QED
      BY <3>1 DEF NInv, Caps
  <2>4. \A C : Adding(day, C, call) \subseteq Workers /\ SentOf(day, C, note) \subseteq Ids
    BY DEF Adding, SentOf
  <2>5. \A C : /\ Cardinality(Adding(day, C, call)) \in Nat
               /\ Cardinality(SentOf(day, C, note)) \in Nat
    BY <2>4, WorkersAreCounted, IdsAreCounted
  <2>6. Cardinality(Workers) \in Nat /\ DailyLimit \in Nat /\ Most \in Nat
    BY WorkersAreCounted, ConstantsAreNat
  <2>7. /\ Cardinality(SentOf(day, Regular, note)) <= (DailyLimit - 1) + Cardinality(Workers)
        /\ Cardinality(SentOf(day, Limited, note)) <= (Most - 1) + Cardinality(Workers)
    BY <2>3, <2>5, <2>6 DEF Within
  <2> QED
    BY <2>2, <2>7
<1> QED
  BY <1>1, NInvHolds, PTL

\* A notification is in the state of the last committed report about its delivery, in
\* whatever order record_delivery is called, overlaps and repeats.
THEOREM StatusFollowsLogHolds == NotifySpec => []StatusFollowsLog
<1>1. NInv => StatusFollowsLog
  BY DEF NInv
<1> QED
  BY <1>1, NInvHolds, PTL

\* Only a commit changes notifications and preferences.
LEMMA OnlyCommitsNotify ==
    ASSUME NotifyNext
    PROVE  UNCHANGED <<note, pref>> \/ \E w \in Workers : NotifyCommit(w)
<1>1. ASSUME NEW w \in Workers, NotifyAdvance(w), ~NotifyCommit(w) PROVE UNCHANGED <<note, pref>>
  BY <1>1 DEF NotifyAdvance, ReadPreference, CountSent, InsertNotification, InsertLog,
              UpdateStatus, UpsertPreference, database
<1> QED
  BY <1>1 DEF NotifyNext, Queue, RecordDelivery, UpdatePreference, MakeCall, NotifyRollback,
              NextDay, AllDone, notifyVars, database

\* A queue call that passes the preference when notifications are off is on its way to
\* insert a suppressed notification.
LEMMA SilencedCall ==
    ASSUME NInv, Silenced, NotifyNext, pref' = pref, NEW w \in Workers,
           call'[w].op = "queue", call'[w].row.status = "queued"
    PROVE  call'[w].pc = "preference"
<1>1. call[w].op = "queue" /\ call[w].row.status = "queued" => call[w].pc = "preference"
  BY DEF Silenced
<1>2. Idle.row.status # "queued"
  BY IdleIsACall DEF NoNote
<1>3. CASE call'[w] = call[w]
  BY <1>1, <1>3
<1>4. ASSUME NEW c, MakeCall(w, c) PROVE call'[w] = c
  BY <1>4 DEF MakeCall, NInv, NotifyTypeOK
<1>5. CASE Queue(w)
  <2>1. PICK row : call'[w] = [Idle EXCEPT !.pc = "preference", !.op = "queue",
                                           !.id = started + 1, !.row = row]
                   \/ call'[w] = Idle
    BY <1>4, <1>5 DEF Queue
  <2> QED
    BY <1>2, <2>1 DEF Idle
<1>6. CASE RecordDelivery(w) \/ UpdatePreference(w)
  <2>1. call'[w].row.status = Idle.row.status
    BY <1>4, <1>6 DEF RecordDelivery, UpdatePreference, Idle
  <2> QED
    BY <1>2, <2>1
<1>7. ASSUME NEW c, Go(w, c) PROVE call'[w] = c
  BY <1>7 DEF Go, NInv, NotifyTypeOK
<1>8. CASE ReadPreference(w)
  <2>1. call[w] \in NotifyCalls /\ pref.cadence \in {"off", "unknown"}
    BY DEF NInv, NotifyTypeOK, Silenced, Preferences
  <2>2. \/ call'[w] = Idle
        \/ call'[w] = [call[w] EXCEPT !.pref = pref, !.pc = "insert",
                                      !.row.status = "suppressed", !.row.day = today]
    BY <1>7, <1>8, <2>1 DEF ReadPreference, NotifyCalls
  <2>3. [call[w] EXCEPT !.pref = pref, !.pc = "insert",
                        !.row.status = "suppressed", !.row.day = today].row.status = "suppressed"
    BY <2>1 DEF NotifyCalls, Rows
  <2> QED
    BY <1>2, <2>2, <2>3
<1>9. CASE CountSent(w)
  <2>1. call[w].op = "queue" /\ call[w].row.status = "queued"
    BY <1>9 DEF CountSent, NInv, CallFits, QueueFits, DeliveryFits, NotifyPoints, NotifyOps
  <2> QED
    BY <1>1, <1>9, <2>1 DEF CountSent
<1>10. CASE InsertNotification(w) \/ InsertLog(w) \/ UpdateStatus(w) \/ UpsertPreference(w)
  <2>0. call[w] \in NotifyCalls
    BY DEF NInv, NotifyTypeOK
  <2>1. ASSUME InsertNotification(w)
        PROVE  call[w].op = "queue" /\ call[w].row.status = "queued"
    <3>0. PICK d : Go(w, [call[w] EXCEPT !.pc = "commit", !.row.day = d]) \/ Go(w, Idle)
      BY <2>1 DEF InsertNotification
    <3>1. PICK c : c = [call[w] EXCEPT !.pc = "commit", !.row.day = d]
      OBVIOUS
    <3>2. c.op = call[w].op /\ c.row.status = call[w].row.status
      BY <2>0, <3>1 DEF NotifyCalls, Rows
    <3>3. call'[w] = Idle \/ call'[w] = c
      BY <1>7, <3>0, <3>1
    <3> QED
      BY <1>2, <3>2, <3>3
  <2>2. ASSUME InsertLog(w) \/ UpdateStatus(w) \/ UpsertPreference(w)
        PROVE  call[w].op = "queue" /\ call[w].row.status = "queued"
    <3>1. PICK pc : Go(w, [call[w] EXCEPT !.pc = pc])
      BY <2>2 DEF InsertLog, UpdateStatus, UpsertPreference
    <3> QED
      BY <1>7, <2>0, <3>1 DEF NotifyCalls
  <2>3. call[w].pc # "preference"
    BY <1>10 DEF InsertNotification, InsertLog, UpdateStatus, UpsertPreference
  <2> QED
    BY <1>1, <1>10, <2>1, <2>2, <2>3
<1>11. CASE NotifyCommit(w) \/ NotifyRollback(w)
  BY <1>2, <1>7, <1>11 DEF NotifyCommit, NotifyRollback
<1>12. ASSUME NEW v \in Workers \ {w},
              Queue(v) \/ RecordDelivery(v) \/ UpdatePreference(v) \/ NotifyAdvance(v)
                  \/ NotifyRollback(v)
       PROVE  call'[w] = call[w]
  <2>1. PICK c : call' = [call EXCEPT ![v] = c]
    BY <1>12 DEF Queue, RecordDelivery, UpdatePreference, MakeCall, NotifyAdvance, ReadPreference,
          CountSent, InsertNotification, InsertLog, UpdateStatus, UpsertPreference, NotifyCommit,
          NotifyRollback, Go
  <2> QED
    BY <1>12, <2>1 DEF NInv, NotifyTypeOK
<1>13. CASE NextDay \/ AllDone
  BY <1>3, <1>13 DEF NextDay, AllDone, notifyVars
<1> QED
  BY <1>3, <1>5, <1>6, <1>8, <1>9, <1>10, <1>11, <1>12, <1>13 DEF NotifyNext, NotifyAdvance

\* Once a recipient's "off" has committed and no call has read anything older, nothing is
\* queued for them until the preference is changed (queue, update_preference).
THEOREM SilenceKeptHolds == NotifySpec => SilenceKept
<1> DEFINE Step == Silenced => /\ \A i \in Ids : note[i] = NoNote => note'[i].status # "queued"
                               /\ Silenced' \/ pref' # pref
<1>1. NInv /\ [NotifyNext]_notifyVars => [Step]_notifyVars
  <2> SUFFICES ASSUME NInv, NotifyNext, Silenced PROVE Step
    BY DEF notifyVars
  <2>1. \A i \in Ids : note[i] = NoNote => note'[i].status # "queued"
    <3>1. CASE UNCHANGED <<note, pref>>
      BY <3>1 DEF NoNote
    <3>2. ASSUME NEW w \in Workers, NotifyCommit(w), NEW i \in Ids, note[i] = NoNote
          PROVE  note'[i].status # "queued"
      <4>0. note[i].status # "queued" /\ note[i].status = "absent"
        BY <3>2 DEF NoNote
      <4>1. CASE call[w].op = "queue"
        <5>1. note' = [note EXCEPT ![call[w].id] = call[w].row] /\ call[w].row.status # "queued"
          BY <3>2, <4>1, NotificationCommits DEF Silenced, NotifyCommit
        <5> QED
          BY <3>2, <4>0, <5>1 DEF NInv, NotifyTypeOK
      <4>2. CASE call[w].op = "deliver"
        <5>1. call[w].id # i
          BY <3>2, <4>0, <4>2, DeliveryCommits DEF DeliveryFits
        <5>2. note'[i] = note[i]
          BY <3>2, <4>2, <5>1, DeliveryCommits DEF NInv, NotifyTypeOK
        <5> QED
          BY <4>0, <5>2
      <4>3. CASE call[w].op \notin {"queue", "deliver"}
        BY <3>2, <4>0, <4>3 DEF NotifyCommit
      <4> QED
        BY <4>1, <4>2, <4>3
    <3> QED
      BY <3>1, <3>2, OnlyCommitsNotify
  <2>2. Silenced' \/ pref' # pref
    BY SilencedCall DEF Silenced
  <2> QED
    BY <2>1, <2>2
<1> QED
  BY <1>1, NInvHolds, PTL DEF NotifySpec, SilenceKept

-------------------------------------------------------------------------------
(* The refinement of IdempotentCreate by queue.                             *)

\* QueuedUnder and noteFor for the notifications nt.
Under(key, nt) == {i \in Ids : nt[i].key = key}
NoteOf(S) == IF S = {} THEN Null ELSE CHOOSE i \in S : TRUE

LEMMA OnlyNote == NoteOf({}) = Null /\ \A i : NoteOf({i}) = i
BY DEF NoteOf

LEMMA NoteFor ==
    /\ noteFor = [key \in EventKeys |-> NoteOf(Under(key, note))]
    /\ noteFor' = [key \in EventKeys |-> NoteOf(Under(key, note'))]
BY DEF noteFor, QueuedUnder, Under, NoteOf

LEMMA SameKeysSameNotes ==
    ASSUME \A i \in Ids : note'[i].key = note[i].key
    PROVE  noteFor' = noteFor
<1>1. \A key \in EventKeys : Under(key, note') = Under(key, note)
  BY DEF Under
<1> QED
  BY <1>1, NoteFor

LEMMA QueueingInit == NotifyInit => Queueing!Init
<1> SUFFICES ASSUME NotifyInit PROVE Queueing!Init
  OBVIOUS
<1>1. \A key \in EventKeys : Under(key, note) = {}
  BY NotificationAssumption DEF NotifyInit, Under, NoNote
<1>2. noteFor = [key \in EventKeys |-> Null]
  BY <1>1, NoteFor, OnlyNote
<1> QED
  BY <1>2 DEF NotifyInit, Queueing!Init

\* The notification found under a key is the one made for it, as there is no second.
LEMMA QueueRefines ==
    ASSUME NInv, NEW w \in Workers, Queue(w)
    PROVE  [Queueing!Next]_(Queueing!vars)
<1>1. PICK key \in EventKeys : replied' = replied \union {<<key, i>> : i \in QueuedUnder(key)}
  BY DEF Queue
<1>2. noteFor' = noteFor
  BY SameKeysSameNotes DEF Queue, MakeCall
<1>3. CASE QueuedUnder(key) = {}
  BY <1>1, <1>2, <1>3 DEF Queueing!vars
<1>4. CASE QueuedUnder(key) # {}
  <2>1. PICK i : i \in QueuedUnder(key)
    BY <1>4
  <2>2. QueuedUnder(key) = {i} /\ QueuedUnder(key) = Under(key, note) /\ i # Null
    BY <2>1, NotificationAssumption DEF QueuedUnder, Under, NInv, OneNotePerKey, Ids
  <2>3. noteFor[key] = i
    BY <2>2, NoteFor, OnlyNote
  <2>4. replied' = replied \union {<<key, i>>}
    BY <1>1, <2>2
  <2>5. Queueing!Answer(key)
    BY <1>2, <2>2, <2>3, <2>4 DEF Queueing!Answer
  <2> QED
    BY <2>5 DEF Queueing!Next
<1> QED
  BY <1>3, <1>4

LEMMA NotifyCommitRefines ==
    ASSUME NInv, NEW w \in Workers, NotifyCommit(w)
    PROVE  [Queueing!Next]_(Queueing!vars)
<1>1. CASE call[w].op = "queue"
  <2>1. PICK key \in EventKeys, k \in Ids :
        /\ replied' = replied \union {<<key, k>>}
        /\ \A i \in Ids : note[i].key # key
        /\ note'[k].key = key /\ note[k].key = Null
        /\ \A i \in Ids \ {k} : note'[i] = note[i]
    <3>1. /\ QueueFits(call[w], note, started, today) /\ call[w].pc = "commit"
          /\ note' = [note EXCEPT ![call[w].id] = call[w].row]
          /\ replied' = replied \union {<<call[w].row.key, call[w].id>>}
      BY <1>1, NotificationCommits DEF NotifyCommit
    <3>2. /\ call[w].id \in Ids /\ call[w].row.key \in EventKeys /\ note[call[w].id].key = Null
          /\ \A i \in Ids : note[i].key # call[w].row.key
      BY <3>1 DEF QueueFits, NoNote
    <3>3. \A i \in Ids : note'[i] = IF i = call[w].id THEN call[w].row ELSE note[i]
      BY <3>1 DEF NInv, NotifyTypeOK
    <3> QED
      BY <3>1, <3>2, <3>3
  <2>2. Under(key, note) = {} /\ Under(key, note') = {k}
    BY <2>1 DEF Under
  <2>3. \A q \in EventKeys \ {key} : Under(q, note') = Under(q, note)
    BY <2>1, NotificationAssumption DEF Under
  <2>4. noteFor[key] = Null
    BY <2>2, NoteFor, OnlyNote
  <2>5. noteFor' = [noteFor EXCEPT ![key] = k]
    BY <2>2, <2>3, NoteFor, OnlyNote
  <2>6. Queueing!Make(key, k)
    BY <2>1, <2>4, <2>5 DEF Queueing!Make
  <2> QED
    BY <2>1, <2>6 DEF Queueing!Next
<1>2. CASE call[w].op # "queue"
  <2>1. replied' = replied
    BY <1>2 DEF NotifyCommit
  <2>2. \A i \in Ids : note'[i].key = note[i].key
    <3>1. CASE call[w].op = "deliver"
      <4>1. \/ note' = note
            \/ note' = [note EXCEPT ![call[w].id].status = call[w].event]
        BY <3>1, DeliveryCommits
      <4>2. note \in [Ids -> Rows]
        BY DEF NInv, NotifyTypeOK
      <4>3. CASE note' = [note EXCEPT ![call[w].id].status = call[w].event]
        BY <4>2, <4>3 DEF Rows
      <4> QED
        BY <4>1, <4>3
    <3>2. CASE call[w].op # "deliver"
      BY <1>2, <3>2 DEF NotifyCommit
    <3> QED
      BY <3>1, <3>2
  <2> QED
    BY <2>1, <2>2, SameKeysSameNotes DEF Queueing!vars
<1> QED
  BY <1>1, <1>2

\* queue keeps the promise of an idempotency key, for whatever calls overlap.
THEOREM QueuedOnceHolds == NotifySpec => QueuedOnce
<1>1. NInv /\ [NotifyNext]_notifyVars => [Queueing!Next]_(Queueing!vars)
  <2> SUFFICES ASSUME NInv, [NotifyNext]_notifyVars PROVE [Queueing!Next]_(Queueing!vars)
    OBVIOUS
  <2>1. CASE UNCHANGED <<note, replied>>
    BY <2>1, SameKeysSameNotes DEF Queueing!vars
  <2>2. ASSUME NEW w \in Workers, NotifyAdvance(w) PROVE [Queueing!Next]_(Queueing!vars)
    BY <2>1, <2>2, NotifyCommitRefines DEF NotifyAdvance, ReadPreference, CountSent,
          InsertNotification, InsertLog, UpdateStatus, UpsertPreference, database
  <2>3. ASSUME NEW w \in Workers, RecordDelivery(w) \/ UpdatePreference(w) \/ NotifyRollback(w)
        PROVE  [Queueing!Next]_(Queueing!vars)
    BY <2>1, <2>3 DEF RecordDelivery, UpdatePreference, MakeCall, NotifyRollback
  <2> QED
    BY <2>1, <2>2, <2>3, QueueRefines DEF NotifyNext, NextDay, AllDone, notifyVars, database
<1> QED
  BY <1>1, QueueingInit, NInvHolds, PTL DEF NotifySpec, QueuedOnce, Queueing!Spec
===============================================================================
