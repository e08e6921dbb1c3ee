------------------------------- MODULE Whitelabel -------------------------------
(***************************************************************************)
(* The portal of agencies: a tenant's whitelabel configuration, its domain *)
(* mappings and its bulk imports, as WhitelabelService, DomainService and  *)
(* BulkImportService (app/modules/whitelabel/service.py) keep them for the *)
(* routes of api/v1/routers/agency.py.  Each request is a transaction of   *)
(* its own under READ COMMITTED, for one tenant.  The policies of          *)
(* migration 007, which do not bind the tables' owner, are left out.       *)
(***************************************************************************)
EXTENDS Naturals, FiniteSets, SequencesExt

CONSTANTS
    Requests,   \* the requests that may arrive, each made once
    Tenants, Domains,
    Columns,    \* the columns of a configuration that update_config may set
    Keys,       \* the names and localities of the rows of an import that are valid
    Bad,        \* a row of an import that is not
    MaxRows,    \* the most rows an import is taken to have
    None

ASSUME WhitelabelAssumption ==
    /\ Bad \notin Keys
    /\ MaxRows \in Nat
    /\ None \notin Requests \union Tenants \union Domains

VARIABLES
    config,     \* config[r]: the committed whitelabel_configs row that request r inserted
    mapping,    \* mapping[r]: the committed domain_mappings row that r inserted
    job,        \* job[r]: the committed bulk_import_jobs row that r inserted
    lock,       \* lock[i]: the transaction that has written row i
    call,       \* call[r]: the request's program counter and uncommitted writes
    latest      \* history: latest[t][c] is the last request to set column c for tenant t

vars == <<config, mapping, job, lock, call, latest>>

-------------------------------------------------------------------------------
\* The rows of an import, each by its idempotency key.
Imports == UNION {[1..n -> Keys \union {Bad}] : n \in 0..MaxRows}

\* A value is named by the request that set it; the defaults are None's.
NoConfig == [tenant |-> None, value |-> None]
Configs == [tenant : Tenants, value : [Columns -> Requests \union {None}]]

\* verified names the request that set verified_at, and with it the status.
NoMapping == [tenant |-> None, domain |-> None, verified |-> None, revoked |-> FALSE]
Mappings == [tenant : Tenants, domain : Domains, verified : Requests \union {None},
             revoked : BOOLEAN]

\* rows is what was to be imported, of which a job keeps only the counts.
NoJob == [tenant |-> None, rows |-> <<>>, completed |-> FALSE, total |-> 0,
          succeeded |-> 0, failed |-> 0]
Jobs == [tenant : Tenants, rows : Imports, completed : BOOLEAN, total : 0..MaxRows,
         succeeded : 0..MaxRows, failed : 0..MaxRows]

OpenPoints == {"look", "insert", "write", "commit"}

\* id is the row that is written, inserted whether the transaction has made it; row is the
\* mapping that is added or that verify_domain has found.
Calls == [pc : {"new", "done"} \union OpenPoints,
          op : {"get", "put", "add", "verify", "revoke", "import", None},
          tenant : Tenants \union {None}, id : Requests \union {None}, inserted : BOOLEAN,
          columns : SUBSET Columns, row : Mappings \union {NoMapping}, rows : Imports]

NewCall == [pc |-> "new", op |-> None, tenant |-> None, id |-> None, inserted |-> FALSE,
            columns |-> {}, row |-> NoMapping, rows |-> <<>>]
Over == [NewCall EXCEPT !.pc = "done"]

TypeOK ==
    /\ config \in [Requests -> Configs \union {NoConfig}]
    /\ mapping \in [Requests -> Mappings \union {NoMapping}]
    /\ job \in [Requests -> Jobs \union {NoJob}]
    /\ lock \in [Requests -> Requests \union {None}]
    /\ call \in [Requests -> Calls]
    /\ latest \in [Tenants -> [Columns -> Requests \union {None}]]

Init ==
    /\ config = [r \in Requests |-> NoConfig]
    /\ mapping = [r \in Requests |-> NoMapping]
    /\ job = [r \in Requests |-> NoJob]
    /\ lock = [i \in Requests |-> None]
    /\ call = [r \in Requests |-> NewCall]
    /\ latest = [t \in Tenants |-> [c \in Columns |-> None]]

rows == <<config, mapping, job>>

InTransaction(r) == call[r].pc \in OpenPoints

\* A request for tenant t, whose caller is an agency_admin there.
Begin(r, c) ==
    /\ call[r].pc = "new"
    /\ call' = [call EXCEPT ![r] = c]
    /\ UNCHANGED <<rows, lock, latest>>

Advance(r, c) ==
    /\ call' = [call EXCEPT ![r] = c]
    /\ UNCHANGED <<rows, lock, latest>>

-------------------------------------------------------------------------------
(* The configuration.                                                       *)

GetConfig(r) ==
    \E t \in Tenants : Begin(r, [NewCall EXCEPT !.pc = "look", !.op = "get", !.tenant = t])

\* The columns given, those that are null left out.
PutConfig(r) ==
    \E t \in Tenants, s \in SUBSET Columns :
        Begin(r, [NewCall EXCEPT !.pc = "look", !.op = "put", !.tenant = t, !.columns = s])

ConfigsOf(t) == {i \in Requests : config[i].tenant = t}

\* get_or_create_config: a row that is there is all get_config wants, and what update_config
\* will write; otherwise one is to be inserted.
LookUpConfig(r) ==
    /\ call[r].pc = "look"
    /\ IF ConfigsOf(call[r].tenant) = {}
       THEN Advance(r, [call[r] EXCEPT !.pc = "insert", !.id = r])
       ELSE \E i \in ConfigsOf(call[r].tenant) :
                Advance(r, IF call[r].op = "get" THEN Over
                           ELSE [call[r] EXCEPT !.pc = "write", !.id = i])

\* Who else has inserted a row of this request's table that has the same unique value.
Rivals(r) ==
    {o \in Requests \ {r} :
        /\ call[o].inserted
        /\ IF call[r].op = "add" THEN call[o].row.domain = call[r].row.domain
                                 ELSE call[o].op \in {"get", "put"} /\ call[o].tenant = call[r].tenant}

\* Faulty variant: a tenant may have several configurations.
OnlyDomainsTaken(r) ==
    call[r].op = "add" /\ \E m \in Requests : mapping[m].domain = call[r].row.domain
\* Faulty variant: the index on domains leaves out revoked mappings.
FreedByRevocation(r) ==
    IF call[r].op = "add"
    THEN \E m \in Requests : mapping[m].domain = call[r].row.domain /\ ~mapping[m].revoked
    ELSE ConfigsOf(call[r].tenant) # {}
\* The unique value is taken: a tenant's configuration, or a domain, be it another tenant's or
\* a revoked mapping's.
Taken(r) ==
    IF call[r].op = "add"
    THEN \E m \in Requests : mapping[m].domain = call[r].row.domain
    ELSE ConfigsOf(call[r].tenant) # {}

\* An INSERT waits for an uncommitted one of the same value, and fails if there is a row of it.
Insert(r) ==
    /\ call[r].pc = "insert"
    /\ Rivals(r) = {}
    /\ Advance(r, IF Taken(r) THEN Over
                  ELSE [call[r] EXCEPT !.inserted = TRUE,
                                       !.pc = IF call[r].op = "put" THEN "write" ELSE "commit"])

\* The UPDATE sets the columns that were given.
WriteColumns(r, old) == [c \in Columns |-> IF c \in call[r].columns THEN r ELSE old[c]]

-------------------------------------------------------------------------------
(* Domains.                                                                 *)

\* add_domain: a platform subdomain is verified from the start.
AddDomain(r) ==
    \E t \in Tenants, d \in Domains, v \in {None, r} :
        Begin(r, [NewCall EXCEPT !.pc = "insert", !.op = "add", !.tenant = t, !.id = r,
                     !.row = [tenant |-> t, domain |-> d, verified |-> v, revoked |-> FALSE]])

\* What verify_domain finds and does not answer with already_verified; a mapping that has
\* been revoked is among them.
Unverified(t) == {m \in Requests : mapping[m].tenant = t /\ mapping[m].verified = None}

VerifyDomain(r) ==
    \E t \in Tenants : \E m \in Unverified(t) :
        Begin(r, [NewCall EXCEPT !.pc = "write", !.op = "verify", !.tenant = t, !.id = m,
                                 !.row = mapping[m]])

\* revoke_domain is given an identifier and looks nothing up.
RevokeDomain(r) ==
    \E t \in Tenants, m \in Requests :
        Begin(r, [NewCall EXCEPT !.pc = "write", !.op = "revoke", !.tenant = t, !.id = m])

-------------------------------------------------------------------------------
(* Imports.                                                                 *)

\* Faulty variant: the key of a row is not remembered.
ForgetKey(tally, row) ==
    CASE row = Bad -> [tally EXCEPT !.failed = @ + 1]
      [] row \in tally.seen -> tally
      [] OTHER -> [tally EXCEPT !.succeeded = @ + 1]
\* One round of the loop of process_csv_rows: a row fails, is skipped or succeeds.
CountRow(tally, row) ==
    CASE row = Bad -> [tally EXCEPT !.failed = @ + 1]
      [] row \in tally.seen -> tally
      [] OTHER -> [tally EXCEPT !.succeeded = @ + 1, !.seen = @ \union {row}]

ProcessRows(s) == FoldLeft(CountRow, [succeeded |-> 0, failed |-> 0, seen |-> {}], s)

\* create_bulk_import: the job is inserted and, unless there are no rows, completed.
ImportRows(r) ==
    \E t \in Tenants, s \in Imports :
        Begin(r, [NewCall EXCEPT !.pc = "commit", !.op = "import", !.tenant = t, !.id = r,
                                 !.rows = s])

Job(t, s) ==
    LET tally == ProcessRows(s) IN
    IF s = <<>> THEN [NoJob EXCEPT !.tenant = t]
    ELSE [tenant |-> t, rows |-> s, completed |-> TRUE, total |-> Len(s),
          succeeded |-> tally.succeeded, failed |-> tally.failed]

-------------------------------------------------------------------------------
(* Writing and committing.                                                  *)

\* An UPDATE waits for the lock of its row, unless the transaction has inserted it; that of a
\* mapping has no condition but the identifier, and writes nothing if there is no such row.
Update(r) ==
    LET c == call[r]
        finds == c.op = "put" \/ mapping[c.id] # NoMapping
    IN
    /\ c.pc = "write"
    /\ finds /\ ~c.inserted => lock[c.id] = None
    /\ lock' = IF finds /\ ~c.inserted THEN [lock EXCEPT ![c.id] = r] ELSE lock
    /\ call' = [call EXCEPT ![r].pc = "commit", ![r].id = IF finds THEN @ ELSE None]
    /\ UNCHANGED <<rows, latest>>

Commit(r) ==
    LET c == call[r] IN
    /\ c.pc = "commit"
    /\ config' = IF c.op \in {"get", "put"}
                 THEN [config EXCEPT ![c.id] = [tenant |-> c.tenant,
                          value |-> WriteColumns(r, IF c.inserted THEN [x \in Columns |-> None]
                                                                  ELSE @.value)]]
                 ELSE config
    /\ mapping' = CASE c.op = "add" -> [mapping EXCEPT ![r] = c.row]
                    [] c.op = "verify" /\ c.id # None -> [mapping EXCEPT ![c.id].verified = r]
                    [] c.op = "revoke" /\ c.id # None -> [mapping EXCEPT ![c.id].revoked = TRUE]
                    [] OTHER -> mapping
    /\ job' = IF c.op = "import" THEN [job EXCEPT ![r] = Job(c.tenant, c.rows)] ELSE job
    /\ latest' = IF c.op = "put"
                 THEN [latest EXCEPT ![c.tenant] = [x \in Columns |->
                          IF x \in c.columns THEN r ELSE @[x]]]
                 ELSE latest
    /\ lock' = [i \in Requests |-> IF lock[i] = r THEN None ELSE lock[i]]
    /\ call' = [call EXCEPT ![r] = Over]

\* A value that update_config refuses, by then perhaps with a configuration inserted, a
\* database error or a crashed worker.
Rollback(r) ==
    /\ InTransaction(r)
    /\ lock' = [i \in Requests |-> IF lock[i] = r THEN None ELSE lock[i]]
    /\ call' = [call EXCEPT ![r] = Over]
    /\ UNCHANGED <<rows, latest>>

-------------------------------------------------------------------------------
Start(r) ==
    \/ GetConfig(r)
    \/ PutConfig(r)
    \/ AddDomain(r)
    \/ VerifyDomain(r)
    \/ RevokeDomain(r)
    \/ ImportRows(r)

Step(r) ==
    \/ LookUpConfig(r)
    \/ Insert(r)
    \/ Update(r)
    \/ Commit(r)

AllOver ==
    /\ \A r \in Requests : call[r].pc = "done"
    /\ UNCHANGED vars

Next ==
    \/ \E r \in Requests : Start(r) \/ Step(r) \/ Rollback(r)
    \/ AllOver

Spec == Init /\ [][Next]_vars

-------------------------------------------------------------------------------
(* Properties.                                                              *)

\* A tenant's configuration has, in every column, what the last committed update to give that
\* column gave, however first requests, updates of other columns and refused ones overlap.
NoChangeLost ==
    \A i \in Requests, t \in Tenants : config[i].tenant = t => config[i].value = latest[t]

\* A domain is mapped once and for ever, by the first of the requests that add it to commit,
\* for whichever tenant they are: no mapping is replaced, not even a revoked one.
MappingsOf(d) == {m \in Requests : mapping[m].domain = d}
mappingFor ==
    [d \in Domains |-> IF MappingsOf(d) = {} THEN None ELSE CHOOSE m \in MappingsOf(d) : TRUE]
added == {<<mapping[m].domain, m>> : m \in {n \in Requests : mapping[n] # NoMapping}}
Register == INSTANCE IdempotentCreate WITH
    Keys <- Domains, Things <- Requests, Nothing <- None, made <- mappingFor, answered <- added
DomainMappedOnce == Register!Spec

\* A completed import counts every distinct valid row once as succeeded and every invalid one
\* as failed; what is missing from the total are repetitions.
CountsAddUp ==
    \A i \in Requests :
        LET s == job[i].rows IN
        /\ job[i].completed <=> s # <<>>
        /\ job[i].succeeded = Cardinality({s[n] : n \in DOMAIN s} \ {Bad})
        /\ job[i].failed = Cardinality({n \in DOMAIN s : s[n] = Bad})
        /\ job[i].total = Len(s) /\ job[i].succeeded + job[i].failed <= job[i].total
===============================================================================
