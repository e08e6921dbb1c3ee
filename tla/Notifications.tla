----------------------------- MODULE Notifications -----------------------------
(***************************************************************************)
(* NotificationService (app/modules/notifications/service.py) for one      *)
(* recipient, tenant and type of notification: calls queue notifications   *)
(* under an idempotency key, record what providers report about them, and  *)
(* change the recipient's preference.  Each call is a transaction of its   *)
(* caller's, several workers call at once, and READ COMMITTED lets a call  *)
(* act on a look-up, a preference or a count that no longer holds.         *)
(* The other implementation of an idempotency key is module Publishing,    *)
(* which has no name in common with this one.                              *)
(***************************************************************************)
EXTENDS Integers, Sequences, FiniteSets

CONSTANTS
    Workers,        \* the callers, one call at a time each
    EventKeys,      \* idempotency keys
    Channels,
    Default,        \* the channel of a recipient without a preference: email
    Templates,      \* the channels that have an active template for the type
    Choices,        \* the sets of channels a recipient may ask for
    DailyLimit,     \* _DAILY_LIMIT_DIGESTIBLE
    UrgentLimit,    \* _DAILY_LIMIT_URGENT
    Days,           \* bound: the number of days
    MaxCalls,       \* bound: the number of calls made
    Null

ASSUME NotificationAssumption ==
    /\ IsFiniteSet(Workers)
    /\ Default \in Channels /\ Templates \subseteq Channels
    /\ Choices \subseteq SUBSET Channels
    /\ DailyLimit \in Nat \ {0} /\ UrgentLimit \in Nat \ {0}
    /\ Days \in Nat \ {0} /\ MaxCalls \in Nat
    /\ Null \notin Workers \union EventKeys \union (1..MaxCalls)

\* A notification is named by the number of the call that inserted it.
Ids == 1..MaxCalls

VARIABLES
    note,       \* note[i]: the committed notifications row i
    noteLock,   \* noteLock[i]: the transaction that has updated that row
    pref,       \* the committed preference
    prefLock,   \* the transaction that has written it
    log,        \* log[i]: the events of the committed outbound_delivery_log rows of i, in order
    call,       \* call[w]: the call w is making
    today, started,
    replied     \* history: the <<key, notification>> pairs queue has returned

notifyVars == <<note, noteLock, pref, prefLock, log, call, today, started, replied>>
database == <<note, noteLock, pref, prefLock, log, replied>>
clock == <<today, started>>

-------------------------------------------------------------------------------
(* Rows and calls.                                                          *)

Statuses == {"queued", "delivered", "bounced", "suppressed"}

\* Which limit a notification is under: without a business it is under none.
Classes == {"regular", "urgent", "unlimited"}

\* day is the day of created_at; of a row still to be inserted, the earliest it can be.
NoNote == [status |-> "absent", key |-> Null, class |-> Null, day |-> 0]
Rows == [status : Statuses \union {"absent"}, key : EventKeys \union {Null},
         class : Classes \union {Null}, day : 0..Days]

\* update_preference stores whatever cadence it is given, NotificationCadence or not; the
\* channels are looked at only under one that lets notifications through.
Preferences == [cadence : {"on"}, channels : Choices \union {{Default}}]
                  \union [cadence : {"off", "unknown"}, channels : {{}}]

Events == {"delivered", "bounced", "opened"}

NotifyPoints == {"preference", "count", "insert", "log", "update", "upsert", "commit"}
NotifyCounters == {"idle"} \union NotifyPoints
NotifyOps == {"queue", "deliver", "prefer"}

\* row is the notification to insert and id its number, or that of the one to update;
\* pref is what a queue call has read or a prefer call brings.
NotifyCalls == [pc : NotifyCounters, op : NotifyOps \union {Null}, id : Ids \union {Null},
                row : Rows, pref : Preferences, event : Events \union {Null}]

NoPreference == [cadence |-> "on", channels |-> {Default}]
Idle == [pc |-> "idle", op |-> Null, id |-> Null, row |-> NoNote,
         pref |-> NoPreference, event |-> Null]

NotifyTypeOK ==
    /\ note \in [Ids -> Rows]
    /\ noteLock \in [Ids -> Workers \union {Null}]
    /\ pref \in Preferences
    /\ prefLock \in Workers \union {Null}
    /\ log \in [Ids -> Seq(Events)]
    /\ call \in [Workers -> NotifyCalls]
    /\ today \in 1..Days
    /\ started \in 0..MaxCalls
    /\ replied \subseteq EventKeys \X Ids

NotifyInit ==
    /\ note = [i \in Ids |-> NoNote]
    /\ noteLock = [i \in Ids |-> Null]
    /\ pref = NoPreference
    /\ prefLock = Null
    /\ log = [i \in Ids |-> <<>>]
    /\ call = [w \in Workers |-> Idle]
    /\ today = 1
    /\ started = 0
    /\ replied = {}

Notifying(w) == call[w].pc \in NotifyPoints

MakeCall(w, c) ==
    /\ call[w].pc = "idle"
    /\ started < MaxCalls
    /\ started' = started + 1
    /\ call' = [call EXCEPT ![w] = c]
    /\ UNCHANGED <<note, noteLock, pref, prefLock, log, today>>

Go(w, c) == call' = [call EXCEPT ![w] = c]

-------------------------------------------------------------------------------
(* queue                                                                    *)

QueuedUnder(key) == {i \in Ids : note[i].key = key}

\* A notification found under the key is the answer.
Queue(w) ==
    \E key \in EventKeys, class \in Classes :
        LET found == QueuedUnder(key)
            row == [NoNote EXCEPT !.status = "queued", !.key = key, !.class = class]
            c == [Idle EXCEPT !.pc = "preference", !.op = "queue",
                              !.id = started + 1, !.row = row]
        IN /\ MakeCall(w, IF found = {} THEN c ELSE Idle)
           /\ replied' = replied \union {<<key, i>> : i \in found}

\* Faulty variant: the cadence is not looked at.
IgnoreCadence(w) ==
    /\ call[w].pc = "preference"
    /\ Go(w, [call[w] EXCEPT !.pc = "count", !.pref = pref])
    /\ UNCHANGED <<database, clock>>

\* A cadence "off" suppresses; one that is no NotificationCadence raises.
ReadPreference(w) ==
    LET c == [call[w] EXCEPT !.pref = pref] IN
    /\ call[w].pc = "preference"
    /\ Go(w, CASE pref.cadence = "on" -> [c EXCEPT !.pc = "count"]
               [] pref.cadence = "off" -> [c EXCEPT !.pc = "insert", !.row.status = "suppressed",
                                                    !.row.day = today]
               [] pref.cadence = "unknown" -> Idle)
    /\ UNCHANGED <<database, clock>>

SentOn(day) == {i \in Ids : /\ note[i].status \notin {"absent", "suppressed"}
                            /\ note[i].class # "unlimited" /\ note[i].day = day}

\* Faulty variant: the limit itself is let through.
PastLimit(class, sent) ==
    class # "unlimited" /\ sent > (IF class = "urgent" THEN UrgentLimit ELSE DailyLimit)
LimitReached(class, sent) ==
    class # "unlimited" /\ sent >= (IF class = "urgent" THEN UrgentLimit ELSE DailyLimit)

\* count_sent_today, which is not asked when there is no business.
CountSent(w) ==
    LET full == LimitReached(call[w].row.class, Cardinality(SentOn(today))) IN
    /\ call[w].pc = "count"
    /\ Go(w, [call[w] EXCEPT !.pc = "insert", !.row.day = today,
                             !.row.status = IF full THEN "suppressed" ELSE "queued"])
    /\ UNCHANGED <<database, clock>>

\* The rows to insert: one if suppressed, else one for every channel with a template.
ToInsert(c) == IF c.row.status = "suppressed" THEN {Null} ELSE c.pref.channels \intersect Templates

\* Faulty variant: there is no unique index.
InsertUnindexed(w) ==
    LET c == call[w] IN
    /\ c.pc = "insert"
    /\ Go(w, IF ToInsert(c) = {} THEN Idle ELSE [c EXCEPT !.pc = "commit"])
    /\ UNCHANGED <<database, clock>>

\* All rows carry the same key.  The first INSERT waits for an open transaction with that
\* key and fails if it committed; a second one fails on the first.  created_at is the time
\* the row was made at, before it was sent: the wait may last into a later day.
InsertNotification(w) ==
    LET c == call[w]
        rows == ToInsert(c)
    IN
    /\ c.pc = "insert"
    /\ rows # {} => \A v \in Workers \ {w} :
           call[v].pc = "commit" /\ call[v].op = "queue" => call[v].row.key # c.row.key
    /\ \E day \in c.row.day..today :
           Go(w, IF Cardinality(rows) = 1 /\ QueuedUnder(c.row.key) = {}
                 THEN [c EXCEPT !.pc = "commit", !.row.day = day] ELSE Idle)
    /\ UNCHANGED <<database, clock>>

-------------------------------------------------------------------------------
(* record_delivery and update_preference                                    *)

\* A provider reports on what was sent, as often and as late as it likes.
RecordDelivery(w) ==
    /\ \E i \in Ids, event \in Events :
        /\ note[i].status \notin {"absent", "suppressed"}
        /\ MakeCall(w, [Idle EXCEPT !.pc = "log", !.op = "deliver", !.id = i, !.event = event])
    /\ UNCHANGED replied

\* Faulty variants: every event becomes the status; a notification is updated but once.
UpdateAlways(w) ==
    /\ call[w].pc = "log"
    /\ Go(w, [call[w] EXCEPT !.pc = "update"])
    /\ UNCHANGED <<database, clock>>
UpdateOnce(w) ==
    LET i == call[w].id IN
    /\ call[w].pc = "log"
    /\ Go(w, [call[w] EXCEPT !.pc = IF call[w].event = "opened" \/ note[i].status # "queued"
                                    THEN "commit" ELSE "update"])
    /\ UNCHANGED <<database, clock>>

\* The log entry is inserted; only some events change the notification's status.
InsertLog(w) ==
    /\ call[w].pc = "log"
    /\ Go(w, [call[w] EXCEPT !.pc = IF call[w].event = "opened" THEN "commit" ELSE "update"])
    /\ UNCHANGED <<database, clock>>

\* The UPDATE of the status, whatever it is, waits for the row's lock.
UpdateStatus(w) ==
    LET i == call[w].id IN
    /\ call[w].pc = "update"
    /\ noteLock[i] = Null
    /\ noteLock' = [noteLock EXCEPT ![i] = w]
    /\ Go(w, [call[w] EXCEPT !.pc = "commit"])
    /\ UNCHANGED <<note, pref, prefLock, log, replied, clock>>

UpdatePreference(w) ==
    /\ \E p \in Preferences :
        MakeCall(w, [Idle EXCEPT !.pc = "upsert", !.op = "prefer", !.pref = p])
    /\ UNCHANGED replied

\* INSERT ... ON CONFLICT DO UPDATE waits for an open transaction on the same key.
UpsertPreference(w) ==
    /\ call[w].pc = "upsert"
    /\ prefLock = Null
    /\ prefLock' = w
    /\ Go(w, [call[w] EXCEPT !.pc = "commit"])
    /\ UNCHANGED <<note, noteLock, pref, log, replied, clock>>

-------------------------------------------------------------------------------
(* The end of a transaction.                                                *)

NotifyRelease(w) ==
    /\ noteLock' = [i \in Ids |-> IF noteLock[i] = w THEN Null ELSE noteLock[i]]
    /\ prefLock' = IF prefLock = w THEN Null ELSE prefLock

NotifyCommit(w) ==
    LET c == call[w] IN
    /\ c.pc = "commit"
    /\ note' = CASE c.op = "queue" -> [note EXCEPT ![c.id] = c.row]
                 [] c.op = "deliver" /\ noteLock[c.id] = w ->
                        [note EXCEPT ![c.id].status = c.event]
                 [] OTHER -> note
    /\ log' = IF c.op = "deliver" THEN [log EXCEPT ![c.id] = Append(@, c.event)] ELSE log
    /\ pref' = IF c.op = "prefer" THEN c.pref ELSE pref
    /\ replied' = IF c.op = "queue" THEN replied \union {<<c.row.key, c.id>>} ELSE replied
    /\ NotifyRelease(w)
    /\ Go(w, Idle)
    /\ UNCHANGED clock

\* A database error, a cancelled request or a crashed worker.
NotifyRollback(w) ==
    /\ Notifying(w)
    /\ NotifyRelease(w)
    /\ Go(w, Idle)
    /\ UNCHANGED <<note, pref, log, replied, clock>>

NextDay ==
    /\ today < Days
    /\ today' = today + 1
    /\ UNCHANGED <<database, call, started>>

-------------------------------------------------------------------------------
NotifyAdvance(w) ==
    \/ ReadPreference(w)
    \/ CountSent(w)
    \/ InsertNotification(w)
    \/ InsertLog(w)
    \/ UpdateStatus(w)
    \/ UpsertPreference(w)
    \/ NotifyCommit(w)

\* The bounds are used up.
AllDone ==
    /\ started = MaxCalls /\ today = Days
    /\ \A w \in Workers : ~Notifying(w)
    /\ UNCHANGED notifyVars

NotifyNext ==
    \/ \E w \in Workers :
        \/ Queue(w)
        \/ RecordDelivery(w)
        \/ UpdatePreference(w)
        \/ NotifyAdvance(w)
        \/ NotifyRollback(w)
    \/ NextDay
    \/ AllDone

NotifySpec == NotifyInit /\ [][NotifyNext]_notifyVars

-------------------------------------------------------------------------------
(* Properties.                                                              *)

\* The daily caps: a count sees only committed notifications, so every worker may have one
\* under way that no count has seen, and no more, also around midnight.
CapBound ==
    \A day \in 1..Days :
        LET sent == SentOn(day)
            regular == {i \in sent : note[i].class = "regular"}
            most == IF DailyLimit > UrgentLimit THEN DailyLimit ELSE UrgentLimit
        IN /\ Cardinality(regular) <= (DailyLimit - 1) + Cardinality(Workers)
           /\ Cardinality(sent) <= (most - 1) + Cardinality(Workers)

\* However often an event is queued, at once or later, there is one notification of it and
\* everybody who gets an answer gets that one.
noteFor == [key \in EventKeys |-> IF QueuedUnder(key) = {} THEN Null
                                  ELSE CHOOSE i \in QueuedUnder(key) : TRUE]
Queueing == INSTANCE IdempotentCreate WITH
                Keys <- EventKeys, Things <- Ids, Nothing <- Null,
                made <- noteFor, answered <- replied
QueuedOnce == Queueing!Spec

\* The log and the statuses tell the same story however reports overlap or are repeated:
\* a notification is in the state of the last committed report about its delivery.
StatusFollowsLog ==
    \A i \in Ids :
        LET reports == {n \in 1..Len(log[i]) : log[i][n] \in {"delivered", "bounced"}} IN
        /\ reports = {} => note[i].status \in {"absent", "queued", "suppressed"}
        /\ \A n \in reports : (\A m \in reports : m <= n) => note[i].status = log[i][n]

\* The recipient has switched the notifications off, and no call read an older preference.
Silenced ==
    /\ pref.cadence # "on"
    /\ \A w \in Workers : call[w].op = "queue" /\ call[w].row.status = "queued"
                                => call[w].pc = "preference"

\* From then on nothing is queued for the recipient, until the preference is changed.
SilenceKept ==
    [][Silenced => /\ \A i \in Ids : note[i] = NoNote => note'[i].status # "queued"
                   /\ Silenced' \/ pref' # pref]_notifyVars
===============================================================================
