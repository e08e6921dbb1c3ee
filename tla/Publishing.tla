------------------------------- MODULE Publishing -------------------------------
(***************************************************************************)
(* Publishing targets, publish attempts and directory listings, as         *)
(* PublishService (app/modules/publishing/service.py) keeps them for one   *)
(* business.  Requests and workers are transactions that overlap: an       *)
(* UPDATE waits for the row's lock and then applies to the newest row,     *)
(* whatever state that is in, for none of them has a condition; what makes *)
(* a publish idempotent is a look-up by key and the key's unique index.    *)
(***************************************************************************)
EXTENDS FiniteSets

CONSTANTS
    Requests,   \* the calls of the service that may be made, each made once
    Targets,
    Assets,
    Objects,    \* the identifiers a channel gives to what was published
    Seeds,      \* the listings of the business in directories
    None

Ops == {"connect", "authorize", "revoke", "initiate", "record",
        "create_seed", "submit_seed", "verify_seed"}

\* Identifiers of different tables differ, and None is none of them and no key.
ASSUME PublishingAssumption ==
    /\ None \notin Requests \union Targets \union Assets \union Objects \union Seeds \union Ops
    /\ None \notin Targets \X Assets
    /\ Targets \intersect Requests = {}
    /\ Seeds \intersect (Targets \union Requests) = {}

VARIABLES
    target,     \* target[t]: the committed publish_targets row
    attempt,    \* attempt[i]: the publish_attempts row that request i inserted
    seed,       \* seed[s]: the committed entity_seeds row
    lock,       \* lock[x]: the transaction that has written row x
    req,        \* req[r]: the call's program counter and arguments
    answered,   \* history: the <<key, attempt>> pairs initiate_publish has returned
    published   \* history: published[i]: the objects of the successes recorded for attempt i

vars == <<target, attempt, seed, lock, req, answered, published>>

-------------------------------------------------------------------------------
TargetStates == {"pending_oauth", "connected", "revoked"}

\* authorized and revoked say whether publish_authorized_at and revoked_at are set.
TargetRows == [status : TargetStates \union {"absent"}, authorized : BOOLEAN, revoked : BOOLEAN]
NoTarget == [status |-> "absent", authorized |-> FALSE, revoked |-> FALSE]

\* The idempotency key: sha256 of the target and the asset.
Keys == Targets \X Assets

AttemptStates == {"queued", "succeeded", "failed_retryable", "failed_terminal"}

AttemptRows == [key : Keys \union {None}, status : AttemptStates \union {"absent"},
                object : Objects \union {None}]
NoAttempt == [key |-> None, status |-> "absent", object |-> None]

\* first names the verification that set first_verified_at.
SeedStates == {"pending_submission", "submitted", "verified"}
SeedRows == [status : SeedStates \union {"absent"}, first : Requests \union {None}]
NoSeed == [status |-> "absent", first |-> None]

Things == Targets \union Requests \union Seeds

OpenPoints == {"insert", "read_seed", "update", "commit"}
ProgramCounters == {"new", "done", "failed"} \union OpenPoints

Results == {"success", "retryable", "terminal"}

\* thing is the row the call is about; first whether it sets first_verified_at.
Calls == [pc : ProgramCounters, op : Ops \union {None}, thing : Things \union {None},
          key : Keys \union {None}, result : Results \union {None},
          object : Objects \union {None}, first : BOOLEAN]

NewCall == [pc |-> "new", op |-> None, thing |-> None, key |-> None,
            result |-> None, object |-> None, first |-> FALSE]

Ended == [NewCall EXCEPT !.pc = "failed"]

TypeOK ==
    /\ target \in [Targets -> TargetRows]
    /\ attempt \in [Requests -> AttemptRows]
    /\ seed \in [Seeds -> SeedRows]
    /\ lock \in [Things -> Requests \union {None}]
    /\ req \in [Requests -> Calls]
    /\ answered \subseteq Keys \X Requests
    /\ published \in [Requests -> SUBSET (Objects \union {None})]

Init ==
    /\ target = [t \in Targets |-> NoTarget]
    /\ attempt = [i \in Requests |-> NoAttempt]
    /\ seed = [s \in Seeds |-> NoSeed]
    /\ lock = [x \in Things |-> None]
    /\ req = [r \in Requests |-> NewCall]
    /\ answered = {}
    /\ published = [i \in Requests |-> {}]

InTransaction(r) == req[r].pc \in OpenPoints

\* A call begins by naming the row it is about.
Begin(r, op, x, pc) ==
    /\ req[r].pc = "new"
    /\ req' = [req EXCEPT ![r] = [NewCall EXCEPT !.pc = pc, !.op = op, !.thing = x]]
    /\ UNCHANGED <<target, attempt, seed, lock, answered, published>>

-------------------------------------------------------------------------------
(* Targets.                                                                 *)

\* connect_target inserts a row; no index looks for another of the same channel.
ConnectTarget(r) ==
    \E t \in Targets :
        /\ target[t] = NoTarget
        /\ \A o \in Requests : req[o].op = "connect" => req[o].thing # t
        /\ Begin(r, "connect", t, "commit")

\* authorize_publish and revoke_target: an UPDATE of the status whatever it is, and for
\* the former one of publish_authorized_at on the row just locked.
AuthorizePublish(r) == \E t \in Targets : Begin(r, "authorize", t, "update")
RevokeTarget(r) == \E t \in Targets : Begin(r, "revoke", t, "update")

TargetAfter(old, op) ==
    CASE op = "connect" -> [NoTarget EXCEPT !.status = "pending_oauth"]
      [] op = "authorize" -> [old EXCEPT !.status = "connected", !.authorized = TRUE]
      [] op = "revoke" -> [old EXCEPT !.status = "revoked", !.revoked = TRUE]

-------------------------------------------------------------------------------
(* Attempts.                                                                *)

Existing(key) == {i \in Requests : attempt[i].key = key}

\* initiate_publish: an attempt found under the key is the answer.
InitiatePublish(r) ==
    /\ req[r].pc = "new"
    /\ \E key \in Keys :
        LET found == Existing(key)
            call == [NewCall EXCEPT !.op = "initiate", !.thing = r, !.key = key]
        IN /\ req' = [req EXCEPT ![r] =
                         [call EXCEPT !.pc = IF found = {} THEN "insert" ELSE "done"]]
           /\ answered' = answered \union {<<key, i>> : i \in found}
    /\ UNCHANGED <<target, attempt, seed, lock, published>>

\* Faulty variant: there is no unique index.
InsertAnyway(r) ==
    /\ req[r].pc = "insert"
    /\ req' = [req EXCEPT ![r] = IF target[req[r].key[1]] # NoTarget
                                 THEN [req[r] EXCEPT !.pc = "commit"] ELSE Ended]
    /\ UNCHANGED <<target, attempt, seed, lock, answered, published>>

\* The INSERT waits for an open transaction with the same key; the unique index refuses a
\* second row and the foreign key an unknown target.
InsertAttempt(r) ==
    LET key == req[r].key IN
    /\ req[r].pc = "insert"
    /\ \A o \in Requests \ {r} : req[o].pc = "commit" => req[o].key # key
    /\ req' = [req EXCEPT ![r] = IF Existing(key) = {} /\ target[key[1]] # NoTarget
                                 THEN [req[r] EXCEPT !.pc = "commit"] ELSE Ended]
    /\ UNCHANGED <<target, attempt, seed, lock, answered, published>>

\* record_publish_result, for an attempt that is there: what the channel answered, as
\* often and as late as the worker that published says so.  A channel may report a success
\* without an identifier, which is None.
RecordResult(r) ==
    /\ req[r].pc = "new"
    /\ \E i \in Requests, result \in Results, o \in Objects \union {None} :
        /\ attempt[i] # NoAttempt
        /\ req' = [req EXCEPT ![r] = [NewCall EXCEPT
                      !.pc = "update", !.op = "record", !.thing = i, !.result = result,
                      !.object = IF result = "success" THEN o ELSE None]]
    /\ UNCHANGED <<target, attempt, seed, lock, answered, published>>

\* Faulty variants: a failure forgets what was published; the result is the status.
ForgetObject(old, call) ==
    [old EXCEPT !.status = CASE call.result = "success" -> "succeeded"
                             [] call.result = "retryable" -> "failed_retryable"
                             [] call.result = "terminal" -> "failed_terminal",
                !.object = call.object]
StoreResult(old, call) ==
    [old EXCEPT !.status = call.result,
                !.object = IF call.result = "success" THEN call.object ELSE @]

\* Only a success writes the external_object_id, the one it reports or none.
AttemptAfter(old, call) ==
    [old EXCEPT !.status = CASE call.result = "success" -> "succeeded"
                             [] call.result = "retryable" -> "failed_retryable"
                             [] call.result = "terminal" -> "failed_terminal",
                !.object = IF call.result = "success" THEN call.object ELSE @]

-------------------------------------------------------------------------------
(* Listings.                                                                *)

CreateEntitySeed(r) ==
    \E s \in Seeds :
        /\ seed[s] = NoSeed
        /\ \A o \in Requests : req[o].op = "create_seed" => req[o].thing # s
        /\ Begin(r, "create_seed", s, "commit")

RecordSeedSubmitted(r) == \E s \in Seeds : Begin(r, "submit_seed", s, "update")
RecordSeedVerified(r) == \E s \in Seeds : Begin(r, "verify_seed", s, "read_seed")

\* Faulty variant: every verification counts as the first.
AlwaysFirst(r) ==
    /\ req[r].pc = "read_seed"
    /\ req' = [req EXCEPT ![r].pc = "update", ![r].first = seed[req[r].thing] # NoSeed]
    /\ UNCHANGED <<target, attempt, seed, lock, answered, published>>

\* record_seed_verified reads the row before it updates it.
ReadSeed(r) ==
    LET row == seed[req[r].thing] IN
    /\ req[r].pc = "read_seed"
    /\ req' = [req EXCEPT ![r].pc = "update", ![r].first = row # NoSeed /\ row.first = None]
    /\ UNCHANGED <<target, attempt, seed, lock, answered, published>>

SeedAfter(old, r) ==
    CASE req[r].op = "create_seed" -> [NoSeed EXCEPT !.status = "pending_submission"]
      [] req[r].op = "submit_seed" -> [old EXCEPT !.status = "submitted"]
      [] req[r].op = "verify_seed" ->
            [old EXCEPT !.status = "verified", !.first = IF req[r].first THEN r ELSE @]

-------------------------------------------------------------------------------
(* Writing and committing.                                                  *)

\* Whether the row is there; an UPDATE of one that is not changes nothing.
Missing(x) ==
    \/ x \in Targets /\ target[x] = NoTarget
    \/ x \in Seeds /\ seed[x] = NoSeed

Update(r) ==
    LET x == req[r].thing IN
    /\ req[r].pc = "update"
    /\ lock[x] = None
    /\ lock' = IF Missing(x) THEN lock ELSE [lock EXCEPT ![x] = r]
    /\ req' = [req EXCEPT ![r].pc = IF Missing(x) THEN "done" ELSE "commit"]
    /\ UNCHANGED <<target, attempt, seed, answered, published>>

Release(r) == lock' = [x \in Things |-> IF lock[x] = r THEN None ELSE lock[x]]

\* The row the transaction has written becomes visible; initiate_publish answers.
Commit(r) ==
    LET call == req[r]
        x == call.thing
    IN
    /\ call.pc = "commit"
    /\ IF x \in Targets
       THEN target' = [target EXCEPT ![x] = TargetAfter(@, call.op)] ELSE UNCHANGED target
    /\ IF x \in Seeds
       THEN seed' = [seed EXCEPT ![x] = SeedAfter(@, r)] ELSE UNCHANGED seed
    /\ CASE call.op = "initiate" ->
                attempt' = [attempt EXCEPT ![x] = [NoAttempt EXCEPT !.key = call.key,
                                                                    !.status = "queued"]]
         [] call.op = "record" -> attempt' = [attempt EXCEPT ![x] = AttemptAfter(@, call)]
         [] OTHER -> UNCHANGED attempt
    /\ answered' = IF call.op = "initiate" THEN answered \union {<<call.key, x>>} ELSE answered
    /\ published' = IF call.op = "record" /\ call.result = "success"
                    THEN [published EXCEPT ![x] = @ \union {call.object}] ELSE published
    /\ Release(r)
    /\ req' = [req EXCEPT ![r].pc = "done"]

\* A database error, a cancelled request or a crashed worker.
Rollback(r) ==
    /\ InTransaction(r)
    /\ Release(r)
    /\ req' = [req EXCEPT ![r] = Ended]
    /\ UNCHANGED <<target, attempt, seed, answered, published>>

-------------------------------------------------------------------------------
Start(r) ==
    \/ ConnectTarget(r)
    \/ AuthorizePublish(r)
    \/ RevokeTarget(r)
    \/ InitiatePublish(r)
    \/ RecordResult(r)
    \/ CreateEntitySeed(r)
    \/ RecordSeedSubmitted(r)
    \/ RecordSeedVerified(r)

Advance(r) ==
    \/ InsertAttempt(r)
    \/ ReadSeed(r)
    \/ Update(r)
    \/ Commit(r)

AllAnswered ==
    /\ \A r \in Requests : req[r].pc \in {"done", "failed"}
    /\ UNCHANGED vars

Next ==
    \/ \E r \in Requests : Start(r) \/ Advance(r) \/ Rollback(r)
    \/ AllAnswered

Spec == Init /\ [][Next]_vars

-------------------------------------------------------------------------------
(* Properties.                                                              *)

\* Publishing an asset to a target twice, at once or later, gives one attempt, and whoever
\* is answered gets that one.
attemptFor ==
    [key \in Keys |-> IF Existing(key) = {} THEN None ELSE CHOOSE i \in Existing(key) : TRUE]
Register == INSTANCE IdempotentCreate WITH
    Things <- Requests, Nothing <- None, made <- attemptFor
PublishIdempotent == Register!Spec

\* What was published stays known, whatever results are recorded late or twice: once a success
\* has been recorded the attempt names an object that one reported, and none only if one
\* reported none; until then it names none and has not succeeded.
PublicationRemembered ==
    \A i \in Requests :
        LET known == attempt[i].object IN
        \/ published[i] = {} /\ known = None /\ attempt[i].status # "succeeded"
        \/ published[i] # {} /\ known \in published[i]

\* s has been verified, and no verification under way read it before that.
FirstSettled(s) ==
    /\ seed[s].first # None
    /\ \A r \in Requests : ~(InTransaction(r) /\ req[r].thing = s /\ req[r].first)

\* The first verification of a listing is remembered as the first; only verifications
\* that overlap it can take its place.
FirstVerificationKept ==
    [][\A s \in Seeds :
        FirstSettled(s) => FirstSettled(s)' /\ seed'[s].first = seed[s].first]_vars
===============================================================================
