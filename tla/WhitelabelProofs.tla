---------------------------- MODULE WhitelabelProofs ----------------------------
(***************************************************************************)
(* The configurations and domains of any number of tenants under any       *)
(* number of overlapping requests.                                         *)
(***************************************************************************)
EXTENDS Whitelabel, FoldTheorems, FiniteSetTheorems, TLAPS

ConfigOps == {"get", "put"}

\* A request about a configuration that has inserted it finds no other of its tenant; one that
\* has not is going to change one that is there.
Configuring(r, c, cf) ==
    /\ c.pc \in {"look", "insert", "write", "commit"}
    /\ cf[r] = NoConfig
    /\ c.op = "get" => c.columns = {} /\ c.pc # "write"
    /\ c.pc \in {"look", "insert"} => ~c.inserted
    /\ c.pc = "insert" => c.id = r
    /\ c.inserted => c.id = r /\ \A i \in Requests : cf[i].tenant # c.tenant
    /\ c.pc \in {"write", "commit"} /\ ~c.inserted =>
        c.op = "put" /\ c.id \in Requests /\ cf[c.id].tenant = c.tenant

\* A request that has inserted a domain finds it nowhere else.
Adding(r, c, mp) ==
    /\ c.pc \in {"insert", "commit"} /\ c.id = r /\ mp[r] = NoMapping
    /\ c.row \in Mappings /\ c.row.tenant = c.tenant
    /\ c.pc = "commit" <=> c.inserted
    /\ c.inserted => \A m \in Requests : mp[m].domain # c.row.domain

Changing(c, mp) ==
    /\ c.pc \in {"write", "commit"} /\ ~c.inserted
    /\ c.pc = "write" => c.id \in Requests
    /\ c.pc = "commit" /\ c.id # None => mp[c.id] # NoMapping

Fit(r, c, cf, mp) ==
    /\ c.pc = "new" => cf[r] = NoConfig /\ mp[r] = NoMapping
    /\ c.inserted => c.pc \in OpenPoints
    /\ c.pc \in OpenPoints =>
        /\ c.tenant \in Tenants
        /\ c.op \in ConfigOps \union {"add", "verify", "revoke", "import"}
        /\ c.op \in ConfigOps => Configuring(r, c, cf)
        /\ c.op = "add" => Adding(r, c, mp)
        /\ c.op \in {"verify", "revoke"} => Changing(c, mp)
        /\ c.op = "import" => c.pc = "commit" /\ ~c.inserted

\* Two that have inserted differ in what has to be unique.
Apart(c, d) ==
    c.inserted /\ d.inserted =>
        /\ ~(c.op = "add" /\ d.op = "add" /\ c.row.domain = d.row.domain)
        /\ ~(c.op \in ConfigOps /\ d.op \in ConfigOps /\ c.tenant = d.tenant)

Types ==
    /\ config \in [Requests -> Configs \union {NoConfig}]
    /\ mapping \in [Requests -> Mappings \union {NoMapping}]
    /\ call \in [Requests -> Calls]
    /\ latest \in [Tenants -> [Columns -> Requests \union {None}]]

OneConfig ==
    \A i, j \in Requests : config[i] # NoConfig /\ config[i].tenant = config[j].tenant => i = j

OneMapping ==
    \A m, n \in Requests : mapping[m] # NoMapping /\ mapping[m].domain = mapping[n].domain => m = n

\* A tenant without a configuration has not been given any column.
NothingLatest ==
    \A t \in Tenants :
        (\A i \in Requests : config[i].tenant # t) => latest[t] = [c \in Columns |-> None]

WInv ==
    /\ Types /\ OneConfig /\ OneMapping /\ NothingLatest /\ NoChangeLost
    /\ \A r \in Requests : Fit(r, call[r], config, mapping)
    /\ \A r, o \in Requests : r # o => Apart(call[r], call[o])

-------------------------------------------------------------------------------
LEMMA CallsAreTyped == NewCall \in Calls /\ Over \in Calls
<1>1. <<>> \in Imports
  <2>1. 0 \in 0..MaxRows /\ <<>> \in [1..0 -> Keys \union {Bad}]
    BY WhitelabelAssumption
  <2> QED
    BY <2>1 DEF Imports
<1> QED
  BY <1>1 DEF NewCall, Over, Calls, OpenPoints

LEMMA OverFits ==
    ASSUME NEW r, NEW cf, NEW mp
    PROVE  Fit(r, Over, cf, mp) /\ \A o : Apart(Over, o) /\ Apart(o, Over)
BY DEF Fit, Apart, Over, NewCall, OpenPoints

LEMMA InitEstablishesWInv == Init => WInv
<1> SUFFICES ASSUME Init PROVE WInv
  OBVIOUS
<1>1. Types
  BY CallsAreTyped DEF Init, Types
<1>2. OneConfig /\ OneMapping
  BY DEF Init, OneConfig, OneMapping
<1>3. NothingLatest
  BY DEF Init, NothingLatest
<1>4. NoChangeLost
  BY WhitelabelAssumption DEF Init, NoChangeLost, NoConfig
<1>5. \A r \in Requests : Fit(r, call[r], config, mapping)
  BY DEF Init, Fit, NewCall, OpenPoints
<1>6. \A r, o \in Requests : r # o => Apart(call[r], call[o])
  BY DEF Init, Apart, NewCall
<1> QED
  BY <1>1, <1>2, <1>3, <1>4, <1>5, <1>6 DEF WInv

\* A step that changes the call of one request, and no row.
LEMMA CallStep ==
    ASSUME WInv, NEW r \in Requests, NEW c \in Calls, call' = [call EXCEPT ![r] = c],
           UNCHANGED <<config, mapping, latest>>,
           Fit(r, c, config, mapping),
           \A o \in Requests \ {r} : Apart(c, call[o]) /\ Apart(call[o], c)
    PROVE  WInv'
<1>1. Types' /\ OneConfig' /\ OneMapping' /\ NothingLatest' /\ NoChangeLost'
  BY DEF WInv, Types, OneConfig, OneMapping, NothingLatest, NoChangeLost
<1>2. \A o \in Requests : call'[o] = IF o = r THEN c ELSE call[o]
  BY DEF WInv, Types
<1>3. \A o \in Requests : Fit(o, call'[o], config', mapping')
  BY <1>2 DEF WInv
<1>4. \A o, p \in Requests : o # p => Apart(call'[o], call'[p])
  BY <1>2 DEF WInv
<1> QED
  BY <1>1, <1>3, <1>4 DEF WInv

LEMMA NotInserted ==
    ASSUME NEW c, ~c.inserted
    PROVE  \A o : Apart(c, o) /\ Apart(o, c)
BY DEF Apart

LEMMA EndKeepsWInv ==
    ASSUME WInv, NEW r \in Requests, call' = [call EXCEPT ![r] = Over],
           UNCHANGED <<config, mapping, latest>>
    PROVE  WInv'
BY CallStep, OverFits, CallsAreTyped

-------------------------------------------------------------------------------
(* Beginnings.                                                              *)

\* A request begins as c, having written nothing.
LEMMA BeginKeepsWInv ==
    ASSUME WInv, NEW r \in Requests, NEW c \in Calls, Begin(r, c), ~c.inserted,
           config[r] = NoConfig /\ mapping[r] = NoMapping => Fit(r, c, config, mapping)
    PROVE  WInv'
<1>1. config[r] = NoConfig /\ mapping[r] = NoMapping
  BY DEF Begin, WInv, Fit
<1>2. call' = [call EXCEPT ![r] = c] /\ UNCHANGED <<config, mapping, latest>>
  BY DEF Begin, rows
<1> QED
  BY <1>1, <1>2, CallStep, NotInserted

LEMMA StartKeepsWInv ==
    ASSUME WInv, NEW r \in Requests, Start(r)
    PROVE  WInv'
<1>0. NewCall \in Calls
  BY CallsAreTyped
<1>1. CASE GetConfig(r)
  <2>1. PICK t \in Tenants : Begin(r, [NewCall EXCEPT !.pc = "look", !.op = "get", !.tenant = t])
    BY <1>1 DEF GetConfig
  <2> DEFINE c == [NewCall EXCEPT !.pc = "look", !.op = "get", !.tenant = t]
  <2>2. c \in Calls
    BY <1>0 DEF Calls, OpenPoints
  <2>3. c.pc = "look" /\ c.op = "get" /\ c.tenant = t /\ ~c.inserted /\ c.columns = {}
    BY DEF NewCall
  <2>4. Begin(r, c)
    BY <2>1
  <2> HIDE DEF c
  <2>5. config[r] = NoConfig /\ mapping[r] = NoMapping => Fit(r, c, config, mapping)
    BY <2>3 DEF Fit, Configuring, ConfigOps
  <2> QED
    BY <2>2, <2>3, <2>4, <2>5, BeginKeepsWInv
<1>2. CASE PutConfig(r)
  <2>1. PICK t \in Tenants, s \in SUBSET Columns :
          Begin(r, [NewCall EXCEPT !.pc = "look", !.op = "put", !.tenant = t, !.columns = s])
    BY <1>2 DEF PutConfig
  <2> DEFINE c == [NewCall EXCEPT !.pc = "look", !.op = "put", !.tenant = t, !.columns = s]
  <2>2. c \in Calls
    BY <1>0 DEF Calls, OpenPoints
  <2>3. c.pc = "look" /\ c.op = "put" /\ c.tenant = t /\ ~c.inserted
    BY DEF NewCall
  <2>4. Begin(r, c)
    BY <2>1
  <2> HIDE DEF c
  <2>5. config[r] = NoConfig /\ mapping[r] = NoMapping => Fit(r, c, config, mapping)
    BY <2>3 DEF Fit, Configuring, ConfigOps
  <2> QED
    BY <2>2, <2>3, <2>4, <2>5, BeginKeepsWInv
<1>3. CASE AddDomain(r)
  <2>1. PICK t \in Tenants, d \in Domains, v \in {None, r} :
          Begin(r, [NewCall EXCEPT !.pc = "insert", !.op = "add", !.tenant = t, !.id = r,
                     !.row = [tenant |-> t, domain |-> d, verified |-> v, revoked |-> FALSE]])
    BY <1>3 DEF AddDomain
  <2> DEFINE m == [tenant |-> t, domain |-> d, verified |-> v, revoked |-> FALSE]
             c == [NewCall EXCEPT !.pc = "insert", !.op = "add", !.tenant = t, !.id = r, !.row = m]
  <2>2. m \in Mappings /\ m.tenant = t
    BY DEF Mappings
  <2>3. Begin(r, c)
    BY <2>1
  <2> HIDE DEF m
  <2>4. c \in Calls
    BY <1>0, <2>2 DEF Calls, OpenPoints
  <2>5. c.pc = "insert" /\ c.op = "add" /\ c.tenant = t /\ ~c.inserted /\ c.id = r /\ c.row = m
    BY DEF NewCall
  <2> HIDE DEF c
  <2>6. config[r] = NoConfig /\ mapping[r] = NoMapping => Fit(r, c, config, mapping)
    BY <2>2, <2>5 DEF Fit, Adding, ConfigOps
  <2> QED
    BY <2>3, <2>4, <2>5, <2>6, BeginKeepsWInv
<1>4. CASE VerifyDomain(r)
  <2>1. PICK t \in Tenants : \E m \in Unverified(t) :
          Begin(r, [NewCall EXCEPT !.pc = "write", !.op = "verify", !.tenant = t, !.id = m,
                                   !.row = mapping[m]])
    BY <1>4 DEF VerifyDomain
  <2>2. PICK m \in Requests :
          Begin(r, [NewCall EXCEPT !.pc = "write", !.op = "verify", !.tenant = t, !.id = m,
                                   !.row = mapping[m]])
    BY <2>1 DEF Unverified
  <2> DEFINE c == [NewCall EXCEPT !.pc = "write", !.op = "verify", !.tenant = t, !.id = m,
                                  !.row = mapping[m]]
  <2>3. mapping[m] \in Mappings \union {NoMapping}
    BY DEF WInv, Types
  <2>4. c \in Calls
    BY <1>0, <2>3 DEF Calls, OpenPoints
  <2>5. c.pc = "write" /\ c.op = "verify" /\ c.tenant = t /\ ~c.inserted /\ c.id = m
    BY DEF NewCall
  <2>6. Begin(r, c)
    BY <2>2
  <2> HIDE DEF c
  <2>7. config[r] = NoConfig /\ mapping[r] = NoMapping => Fit(r, c, config, mapping)
    BY <2>5 DEF Fit, Changing, ConfigOps
  <2> QED
    BY <2>4, <2>5, <2>6, <2>7, BeginKeepsWInv
<1>5. CASE RevokeDomain(r)
  <2>1. PICK t \in Tenants, m \in Requests :
          Begin(r, [NewCall EXCEPT !.pc = "write", !.op = "revoke", !.tenant = t, !.id = m])
    BY <1>5 DEF RevokeDomain
  <2> DEFINE c == [NewCall EXCEPT !.pc = "write", !.op = "revoke", !.tenant = t, !.id = m]
  <2>2. c \in Calls
    BY <1>0 DEF Calls, OpenPoints
  <2>3. c.pc = "write" /\ c.op = "revoke" /\ c.tenant = t /\ ~c.inserted /\ c.id = m
    BY DEF NewCall
  <2>4. Begin(r, c)
    BY <2>1
  <2> HIDE DEF c
  <2>5. config[r] = NoConfig /\ mapping[r] = NoMapping => Fit(r, c, config, mapping)
    BY <2>3 DEF Fit, Changing, ConfigOps
  <2> QED
    BY <2>2, <2>3, <2>4, <2>5, BeginKeepsWInv
<1>6. CASE ImportRows(r)
  <2>1. PICK t \in Tenants, s \in Imports :
          Begin(r, [NewCall EXCEPT !.pc = "commit", !.op = "import", !.tenant = t, !.id = r,
                                   !.rows = s])
    BY <1>6 DEF ImportRows
  <2> DEFINE c == [NewCall EXCEPT !.pc = "commit", !.op = "import", !.tenant = t, !.id = r,
                                  !.rows = s]
  <2>2. c \in Calls
    BY <1>0 DEF Calls, OpenPoints
  <2>3. c.pc = "commit" /\ c.op = "import" /\ c.tenant = t /\ ~c.inserted
    BY DEF NewCall
  <2>4. Begin(r, c)
    BY <2>1
  <2> HIDE DEF c
  <2>5. config[r] = NoConfig /\ mapping[r] = NoMapping => Fit(r, c, config, mapping)
    BY <2>3 DEF Fit, ConfigOps
  <2> QED
    BY <2>2, <2>3, <2>4, <2>5, BeginKeepsWInv
<1> QED
  BY <1>1, <1>2, <1>3, <1>4, <1>5, <1>6 DEF Start

-------------------------------------------------------------------------------
(* Steps.                                                                   *)

LEMMA LookUpKeepsWInv ==
    ASSUME WInv, NEW r \in Requests, LookUpConfig(r)
    PROVE  WInv'
<1>1. call[r] \in Calls /\ call[r].pc = "look" /\ Fit(r, call[r], config, mapping)
  BY DEF WInv, Types, LookUpConfig
<1>2. call[r].op \in ConfigOps /\ Configuring(r, call[r], config) /\ ~call[r].inserted
  BY <1>1 DEF Fit, Adding, Changing, Configuring, OpenPoints
<1>3. CASE ConfigsOf(call[r].tenant) = {}
  <2> DEFINE c == [call[r] EXCEPT !.pc = "insert", !.id = r]
  <2>1. call' = [call EXCEPT ![r] = c] /\ UNCHANGED <<config, mapping, latest>>
    BY <1>3 DEF LookUpConfig, Advance, rows
  <2>2. c \in Calls /\ c.pc = "insert" /\ c.id = r /\ c.op = call[r].op /\ c.tenant = call[r].tenant
        /\ c.inserted = call[r].inserted /\ c.columns = call[r].columns
    BY <1>1 DEF Calls, OpenPoints
  <2> HIDE DEF c
  <2>3. Fit(r, c, config, mapping)
    BY <1>1, <1>2, <2>2 DEF Fit, Configuring, ConfigOps, OpenPoints
  <2> QED
    BY <1>2, <2>1, <2>2, <2>3, CallStep, NotInserted
<1>4. CASE ConfigsOf(call[r].tenant) # {} /\ call[r].op = "get"
  <2>1. call' = [call EXCEPT ![r] = Over] /\ UNCHANGED <<config, mapping, latest>>
    BY <1>4 DEF LookUpConfig, Advance, rows
  <2> QED
    BY <2>1, EndKeepsWInv
<1>5. CASE ConfigsOf(call[r].tenant) # {} /\ call[r].op # "get"
  <2>1. PICK i \in ConfigsOf(call[r].tenant) :
            Advance(r, [call[r] EXCEPT !.pc = "write", !.id = i])
    BY <1>5 DEF LookUpConfig
  <2> DEFINE c == [call[r] EXCEPT !.pc = "write", !.id = i]
  <2>2. call' = [call EXCEPT ![r] = c] /\ UNCHANGED <<config, mapping, latest>>
    BY <2>1 DEF Advance, rows
  <2>3. i \in Requests /\ config[i].tenant = call[r].tenant
    BY DEF ConfigsOf
  <2>4. c \in Calls /\ c.pc = "write" /\ c.id = i /\ c.op = call[r].op /\ c.tenant = call[r].tenant
        /\ c.inserted = call[r].inserted /\ c.columns = call[r].columns
    BY <1>1, <2>3 DEF Calls, OpenPoints
  <2> HIDE DEF c
  <2>5. Fit(r, c, config, mapping)
    BY <1>1, <1>2, <1>5, <2>3, <2>4 DEF Fit, Configuring, ConfigOps, OpenPoints
  <2> QED
    BY <1>2, <2>2, <2>4, <2>5, CallStep, NotInserted
<1> QED
  BY <1>3, <1>4, <1>5

\* Whoever has inserted has found no row of its unique value, nor another inserted one.
LEMMA InsertKeepsWInv ==
    ASSUME WInv, NEW r \in Requests, Insert(r)
    PROVE  WInv'
<1>1. call[r] \in Calls /\ call[r].pc = "insert" /\ Fit(r, call[r], config, mapping)
  BY DEF WInv, Types, Insert
<1>2. /\ call[r].op \in ConfigOps \union {"add"}
      /\ call[r].op \in ConfigOps => Configuring(r, call[r], config)
      /\ call[r].op = "add" => Adding(r, call[r], mapping)
  BY <1>1 DEF Fit, Changing, OpenPoints
<1>3. CASE Taken(r)
  <2>1. call' = [call EXCEPT ![r] = Over] /\ UNCHANGED <<config, mapping, latest>>
    BY <1>3 DEF Insert, Advance, rows
  <2> QED
    BY <2>1, EndKeepsWInv
<1>4. CASE ~Taken(r)
  <2> DEFINE pc == IF call[r].op = "put" THEN "write" ELSE "commit"
             c == [call[r] EXCEPT !.inserted = TRUE, !.pc = pc]
  <2>1. call' = [call EXCEPT ![r] = c] /\ UNCHANGED <<config, mapping, latest>>
    BY <1>4 DEF Insert, Advance, rows
  <2>2. pc \in {"write", "commit"} /\ (call[r].op = "put" <=> pc = "write")
    OBVIOUS
  <2> HIDE DEF pc
  <2>3. c \in Calls /\ c.pc = pc /\ c.id = call[r].id /\ c.op = call[r].op /\ c.inserted
        /\ c.tenant = call[r].tenant /\ c.columns = call[r].columns /\ c.row = call[r].row
    BY <1>1, <2>2 DEF Calls, OpenPoints
  <2> HIDE DEF c
  <2>4. call[r].op = "add" => \A m \in Requests : mapping[m].domain # c.row.domain
    BY <1>4, <2>3 DEF Taken
  <2>5. call[r].op \in ConfigOps => \A i \in Requests : config[i].tenant # c.tenant
    BY <1>4, <2>3 DEF Taken, ConfigsOf, ConfigOps
  <2>6. call[r].op \in ConfigOps => Configuring(r, c, config)
    BY <1>1, <1>2, <2>2, <2>3, <2>5 DEF Configuring
  <2>7. call[r].op = "add" => Adding(r, c, mapping)
    BY <1>1, <1>2, <2>2, <2>3, <2>4 DEF Adding
  <2>8. Fit(r, c, config, mapping)
    BY <1>1, <1>2, <2>2, <2>3, <2>6, <2>7 DEF Fit, ConfigOps, OpenPoints
  <2>9. ASSUME NEW o \in Requests \ {r} PROVE Apart(c, call[o]) /\ Apart(call[o], c)
    <3>1. call[o].inserted =>
            IF call[r].op = "add" THEN call[o].row.domain # call[r].row.domain
            ELSE ~(call[o].op \in ConfigOps /\ call[o].tenant = call[r].tenant)
      BY DEF Insert, Rivals, ConfigOps
    <3> QED
      BY <1>2, <2>3, <3>1 DEF Apart, ConfigOps
  <2> QED
    BY <2>1, <2>3, <2>8, <2>9, CallStep
<1> QED
  BY <1>3, <1>4

\* An UPDATE of a mapping is about one that is there, or about none.
LEMMA UpdateKeepsWInv ==
    ASSUME WInv, NEW r \in Requests, Update(r)
    PROVE  WInv'
<1> DEFINE finds == call[r].op = "put" \/ mapping[call[r].id] # NoMapping
           id == IF finds THEN call[r].id ELSE None
           c == [call[r] EXCEPT !.pc = "commit", !.id = id]
<1>1. call[r] \in Calls /\ call[r].pc = "write" /\ Fit(r, call[r], config, mapping)
  BY DEF WInv, Types, Update
<1>2. /\ call[r].op \in ConfigOps \union {"verify", "revoke"}
      /\ call[r].op \in ConfigOps => Configuring(r, call[r], config) /\ call[r].op = "put"
      /\ call[r].op \in {"verify", "revoke"} => Changing(call[r], mapping)
  BY <1>1 DEF Fit, Adding, Configuring, ConfigOps, OpenPoints
<1>3. call' = [call EXCEPT ![r] = c] /\ UNCHANGED <<config, mapping, latest>>
  BY <1>1 DEF Update, rows
<1>4. id \in Requests \union {None} /\ (call[r].op = "put" => id = call[r].id)
      /\ (call[r].op # "put" /\ id # None => id = call[r].id /\ mapping[id] # NoMapping)
  BY <1>1 DEF Calls
<1> HIDE DEF id
<1>5. c \in Calls /\ c.pc = "commit" /\ c.id = id /\ c.op = call[r].op /\ c.inserted = call[r].inserted
      /\ c.tenant = call[r].tenant /\ c.columns = call[r].columns /\ c.row = call[r].row
  BY <1>1, <1>4 DEF Calls, OpenPoints
<1> HIDE DEF c
<1>6. c.op \in ConfigOps => Configuring(r, c, config)
  BY <1>1, <1>2, <1>4, <1>5 DEF Configuring
<1>7. c.op \in {"verify", "revoke"} => Changing(c, mapping)
  BY <1>1, <1>2, <1>4, <1>5 DEF Changing, ConfigOps
<1>8. Fit(r, c, config, mapping)
  BY <1>1, <1>2, <1>5, <1>6, <1>7 DEF Fit, ConfigOps, OpenPoints
<1>9. ASSUME NEW o \in Requests \ {r} PROVE Apart(c, call[o]) /\ Apart(call[o], c)
  <2>1. Apart(call[r], call[o]) /\ Apart(call[o], call[r])
    BY DEF WInv
  <2> QED
    BY <1>5, <2>1 DEF Apart
<1> QED
  BY <1>3, <1>5, <1>8, <1>9, CallStep

LEMMA RollbackKeepsWInv ==
    ASSUME WInv, NEW r \in Requests, Rollback(r)
    PROVE  WInv'
BY EndKeepsWInv DEF Rollback, rows

-------------------------------------------------------------------------------
(* Committing.                                                              *)

\* The calls after a commit: all but the one that ends are as they were.
LEMMA CallsAfterCommit ==
    ASSUME WInv, NEW r \in Requests, Commit(r)
    PROVE  /\ call' \in [Requests -> Calls]
           /\ call'[r] = Over /\ \A o \in Requests \ {r} : call'[o] = call[o]
           /\ \A o, p \in Requests : o # p => Apart(call'[o], call'[p])
<1>1. /\ call' \in [Requests -> Calls]
      /\ call'[r] = Over /\ \A o \in Requests \ {r} : call'[o] = call[o]
  BY CallsAreTyped DEF Commit, WInv, Types
<1> QED
  BY <1>1, OverFits DEF WInv

\* What a commit makes of a tenant's configuration: every column as it was last given.
LEMMA CommittedConfig ==
    ASSUME WInv, NEW r \in Requests, Commit(r), call[r].op \in ConfigOps
    PROVE  /\ call[r].id \in Requests /\ call[r].tenant \in Tenants
           /\ \A i \in Requests \ {call[r].id} : config'[i] = config[i]
           /\ config'[call[r].id] \in Configs
           /\ config'[call[r].id].tenant = call[r].tenant
           /\ config'[call[r].id].value = latest'[call[r].tenant]
           /\ \A t \in Tenants \ {call[r].tenant} : latest'[t] = latest[t]
           /\ latest' \in [Tenants -> [Columns -> Requests \union {None}]]
           /\ config' \in [Requests -> Configs \union {NoConfig}]
           /\ mapping' = mapping
<1> DEFINE c == call[r]
           new == [x \in Columns |-> IF x \in c.columns THEN r ELSE latest[c.tenant][x]]
<1>1. c \in Calls /\ c.pc = "commit" /\ Fit(r, c, config, mapping)
  BY DEF WInv, Types, Commit
<1>2. Configuring(r, c, config) /\ c.tenant \in Tenants
  BY <1>1 DEF Fit, OpenPoints
<1>3. c.id \in Requests
  BY <1>1, <1>2 DEF Configuring
<1>4. /\ latest \in [Tenants -> [Columns -> Requests \union {None}]]
      /\ config \in [Requests -> Configs \union {NoConfig}]
  BY DEF WInv, Types
<1>5. mapping' = mapping
  BY <1>3, WhitelabelAssumption DEF Commit, ConfigOps
<1>6. ASSUME c.inserted
      PROVE  config' = [config EXCEPT ![c.id] = [tenant |-> c.tenant, value |-> new]]
  <2>1. latest[c.tenant] = [x \in Columns |-> None]
    BY <1>2, <1>6 DEF Configuring, WInv, NothingLatest
  <2>2. config' = [config EXCEPT ![c.id] = [tenant |-> c.tenant,
                      value |-> [x \in Columns |-> IF x \in c.columns THEN r ELSE [y \in Columns |-> None][x]]]]
    BY <1>6 DEF Commit, WriteColumns, ConfigOps
  <2>3. new = [x \in Columns |-> IF x \in c.columns THEN r ELSE [y \in Columns |-> None][x]]
    BY <2>1
  <2> QED
    BY <2>2, <2>3
<1>7. ASSUME ~c.inserted
      PROVE  config' = [config EXCEPT ![c.id] = [tenant |-> c.tenant, value |-> new]]
  <2>1. config[c.id].tenant = c.tenant /\ c.op = "put"
    BY <1>1, <1>2, <1>7 DEF Configuring
  <2>2. config[c.id].value = latest[c.tenant]
    BY <1>2, <1>3, <2>1 DEF WInv, NoChangeLost
  <2>3. config' = [config EXCEPT ![c.id] = [tenant |-> c.tenant,
                      value |-> [x \in Columns |-> IF x \in c.columns THEN r ELSE config[c.id].value[x]]]]
    BY <1>3, <1>4, <1>7 DEF Commit, WriteColumns, ConfigOps
  <2>4. new = [x \in Columns |-> IF x \in c.columns THEN r ELSE config[c.id].value[x]]
    BY <2>2
  <2> QED
    BY <2>3, <2>4
<1>8. new \in [Columns -> Requests \union {None}]
  BY <1>2, <1>4
<1>9. latest' = [latest EXCEPT ![c.tenant] = new]
  <2>1. CASE c.op = "put"
    BY <1>2, <1>4, <2>1 DEF Commit
  <2>2. CASE c.op = "get"
    <3>1. latest' = latest /\ c.columns = {}
      BY <1>2, <2>2 DEF Commit, Configuring
    <3>2. latest[c.tenant] \in [Columns -> Requests \union {None}]
      BY <1>2, <1>4
    <3>3. new = latest[c.tenant]
      BY <3>1, <3>2
    <3> QED
      BY <1>2, <1>4, <3>1, <3>3
  <2> QED
    BY <2>1, <2>2 DEF ConfigOps
<1>10. config' = [config EXCEPT ![c.id] = [tenant |-> c.tenant, value |-> new]]
  BY <1>6, <1>7
<1> HIDE DEF new
<1>11. [tenant |-> c.tenant, value |-> new] \in Configs
  BY <1>2, <1>8 DEF Configs
<1> QED
  BY <1>2, <1>3, <1>4, <1>5, <1>8, <1>9, <1>10, <1>11

LEMMA NoneIsNoTenant ==
    /\ NoConfig.tenant \notin Tenants /\ NoConfig \notin Configs
    /\ NoMapping.domain \notin Domains /\ NoMapping \notin Mappings
BY WhitelabelAssumption DEF NoConfig, Configs, NoMapping, Mappings

LEMMA CommitConfigKeepsFits ==
    ASSUME WInv, NEW r \in Requests, Commit(r), call[r].op \in ConfigOps, NEW o \in Requests \ {r}
    PROVE  Fit(o, call[o], config', mapping')
<1> DEFINE c == call[r]
<1>1. /\ call[o] \in Calls /\ Fit(o, call[o], config, mapping) /\ Apart(c, call[o])
      /\ c \in Calls /\ c.pc = "commit" /\ Fit(r, c, config, mapping)
  BY DEF WInv, Types, Commit
<1>2. Configuring(r, c, config)
  BY <1>1 DEF Fit, OpenPoints
<1>3. /\ c.id \in Requests /\ c.tenant \in Tenants /\ config'[c.id].tenant = c.tenant
      /\ \A i \in Requests \ {c.id} : config'[i] = config[i]
      /\ mapping' = mapping
  BY CommittedConfig
<1>4. ASSUME config[o] = NoConfig PROVE config'[o] = NoConfig
  <2>1. c.id # o
    <3>1. CASE c.inserted
      BY <1>2, <3>1 DEF Configuring
    <3>2. CASE ~c.inserted
      BY <1>1, <1>2, <1>3, <1>4, <3>2, NoneIsNoTenant DEF Configuring
    <3> QED
      BY <3>1, <3>2
  <2> QED
    BY <1>3, <1>4, <2>1
<1>5. ASSUME Configuring(o, call[o], config), call[o].tenant \in Tenants, call[o].op \in ConfigOps
      PROVE  Configuring(o, call[o], config')
  <2>1. ASSUME call[o].inserted PROVE \A i \in Requests : config'[i].tenant # call[o].tenant
    <3>1. \A i \in Requests : config[i].tenant # call[o].tenant
      BY <1>5, <2>1 DEF Configuring
    <3>2. c.tenant # call[o].tenant
      <4>1. CASE c.inserted
        BY <1>1, <1>5, <2>1, <4>1 DEF Apart
      <4>2. CASE ~c.inserted
        BY <1>1, <1>2, <1>3, <3>1, <4>2 DEF Configuring
      <4> QED
        BY <4>1, <4>2
    <3> QED
      BY <1>3, <3>1, <3>2
  <2>2. ASSUME call[o].id \in Requests, config[call[o].id].tenant = call[o].tenant
        PROVE  config'[call[o].id].tenant = call[o].tenant
    <3>1. CASE call[o].id # c.id
      BY <1>3, <2>2, <3>1
    <3>2. CASE call[o].id = c.id /\ c.inserted
      BY <1>2, <1>5, <2>2, <3>2, NoneIsNoTenant DEF Configuring
    <3>3. CASE call[o].id = c.id /\ ~c.inserted
      BY <1>1, <1>2, <1>3, <2>2, <3>3 DEF Configuring
    <3> QED
      BY <3>1, <3>2, <3>3
  <2>3. config[o] = NoConfig
    BY <1>5 DEF Configuring
  <2> QED
    BY <1>4, <1>5, <2>1, <2>2, <2>3 DEF Configuring
<1>6. call[o].pc = "new" => config'[o] = NoConfig /\ mapping'[o] = NoMapping
  BY <1>1, <1>3, <1>4 DEF Fit
<1> QED
  BY <1>1, <1>3, <1>5, <1>6 DEF Fit

LEMMA CommitConfigKeepsWInv ==
    ASSUME WInv, NEW r \in Requests, Commit(r), call[r].op \in ConfigOps
    PROVE  WInv'
<1> DEFINE c == call[r]
<1>1. c \in Calls /\ c.pc = "commit" /\ Fit(r, c, config, mapping)
  BY DEF WInv, Types, Commit
<1>2. Configuring(r, c, config) /\ c.tenant \in Tenants
  BY <1>1 DEF Fit, OpenPoints
<1>3. /\ c.id \in Requests /\ config'[c.id].tenant = c.tenant /\ config'[c.id] \in Configs
      /\ config'[c.id].value = latest'[c.tenant]
      /\ \A i \in Requests \ {c.id} : config'[i] = config[i]
      /\ \A t \in Tenants \ {c.tenant} : latest'[t] = latest[t]
      /\ latest' \in [Tenants -> [Columns -> Requests \union {None}]]
      /\ config' \in [Requests -> Configs \union {NoConfig}]
      /\ mapping' = mapping
  BY CommittedConfig
<1>4. Types' /\ OneMapping'
  BY <1>3, CallsAfterCommit DEF WInv, Types, OneMapping
<1>5. \A i \in Requests \ {c.id} : config[i].tenant # c.tenant
  <2>1. CASE c.inserted
    BY <1>2, <2>1 DEF Configuring
  <2>2. CASE ~c.inserted
    <3>1. config[c.id].tenant = c.tenant /\ config[c.id] # NoConfig
      BY <1>1, <1>2, <2>2, NoneIsNoTenant DEF Configuring
    <3> QED
      BY <1>3, <3>1 DEF WInv, OneConfig
  <2> QED
    BY <2>1, <2>2
<1>6. OneConfig'
  <2> SUFFICES ASSUME NEW i \in Requests, NEW j \in Requests, config'[i] # NoConfig,
                      config'[i].tenant = config'[j].tenant
               PROVE  i = j
    BY DEF OneConfig
  <2> QED
    BY <1>3, <1>5 DEF WInv, OneConfig
<1>7. NothingLatest'
  <2> SUFFICES ASSUME NEW t \in Tenants, \A i \in Requests : config'[i].tenant # t
               PROVE  latest'[t] = [x \in Columns |-> None]
    BY DEF NothingLatest
  <2>1. t # c.tenant
    BY <1>3
  <2>2. config[c.id].tenant # t
    <3>1. CASE c.inserted
      BY <1>2, <3>1, NoneIsNoTenant DEF Configuring
    <3>2. CASE ~c.inserted
      BY <1>1, <1>2, <2>1, <3>2 DEF Configuring
    <3> QED
      BY <3>1, <3>2
  <2>3. \A i \in Requests : config[i].tenant # t
    BY <1>3, <2>2
  <2> QED
    BY <1>3, <2>1, <2>3 DEF WInv, NothingLatest
<1>8. NoChangeLost'
  <2> SUFFICES ASSUME NEW i \in Requests, NEW t \in Tenants, config'[i].tenant = t
               PROVE  config'[i].value = latest'[t]
    BY DEF NoChangeLost
  <2>1. CASE i = c.id
    BY <1>3, <2>1
  <2>2. CASE i # c.id
    BY <1>3, <1>5, <2>2 DEF WInv, NoChangeLost
  <2> QED
    BY <2>1, <2>2
<1>9. \A o \in Requests : Fit(o, call'[o], config', mapping')
  BY CallsAfterCommit, CommitConfigKeepsFits, OverFits
<1> QED
  BY <1>4, <1>6, <1>7, <1>8, <1>9, CallsAfterCommit DEF WInv

\* What a commit makes of the mappings: one more, or another state of one there is.
LEMMA CommittedMapping ==
    ASSUME WInv, NEW r \in Requests, Commit(r), call[r].op \notin ConfigOps
    PROVE  /\ config' = config /\ latest' = latest
           /\ mapping' \in [Requests -> Mappings \union {NoMapping}]
           /\ \A m \in Requests : mapping[m] # NoMapping =>
                mapping'[m] # NoMapping /\ mapping'[m].tenant = mapping[m].tenant
                /\ mapping'[m].domain = mapping[m].domain
           /\ \A m \in Requests : mapping[m] = NoMapping =>
                \/ mapping'[m] = NoMapping
                \/ m = r /\ call[r].op = "add" /\ call[r].inserted /\ mapping'[m].domain = call[r].row.domain
<1> DEFINE c == call[r]
<1>1. c \in Calls /\ c.pc = "commit" /\ Fit(r, c, config, mapping)
  BY DEF WInv, Types, Commit
<1>2. /\ c.op \in {"add", "verify", "revoke", "import"}
      /\ c.op = "add" => Adding(r, c, mapping)
      /\ c.op \in {"verify", "revoke"} => Changing(c, mapping)
  BY <1>1 DEF Fit, OpenPoints
<1>3. config' = config /\ latest' = latest
  BY <1>2 DEF Commit, ConfigOps
<1>4. mapping \in [Requests -> Mappings \union {NoMapping}]
  BY DEF WInv, Types
<1>5. CASE mapping' = mapping
  BY <1>3, <1>4, <1>5
<1>6. CASE c.op = "add"
  <2>1. mapping' = [mapping EXCEPT ![r] = c.row]
    BY <1>6 DEF Commit
  <2>2. c.row \in Mappings /\ mapping[r] = NoMapping /\ c.inserted
    BY <1>1, <1>2, <1>6 DEF Adding
  <2> QED
    BY <1>3, <1>4, <1>6, <2>1, <2>2
<1>7. CASE c.op \in {"verify", "revoke"} /\ c.id # None
  <2> DEFINE old == mapping[c.id]
             new == IF c.op = "verify" THEN [old EXCEPT !.verified = r] ELSE [old EXCEPT !.revoked = TRUE]
  <2>1. c.id \in Requests /\ old \in Mappings
    BY <1>1, <1>2, <1>4, <1>7 DEF Changing, Calls
  <2>2. mapping' = [mapping EXCEPT ![c.id] = new]
    BY <1>7, <2>1 DEF Commit
  <2>3. new \in Mappings /\ new.tenant = old.tenant /\ new.domain = old.domain
    BY <2>1 DEF Mappings
  <2> HIDE DEF new
  <2> QED
    BY <1>3, <1>4, <2>1, <2>2, <2>3, NoneIsNoTenant
<1>8. CASE c.op = "import" \/ (c.op \in {"verify", "revoke"} /\ c.id = None)
  <2>1. mapping' = mapping
    BY <1>8 DEF Commit
  <2> QED
    BY <1>5, <2>1
<1> QED
  BY <1>2, <1>6, <1>7, <1>8

LEMMA CommitMappingKeepsFits ==
    ASSUME WInv, NEW r \in Requests, Commit(r), call[r].op \notin ConfigOps, NEW o \in Requests \ {r}
    PROVE  Fit(o, call[o], config', mapping')
<1>1. /\ call[o] \in Calls /\ Fit(o, call[o], config, mapping) /\ Apart(call[r], call[o])
  BY DEF WInv, Types
<1>2. config' = config
  BY CommittedMapping
<1>3. mapping[o] = NoMapping => mapping'[o] = NoMapping
  BY CommittedMapping
<1>4. ASSUME Adding(o, call[o], mapping), call[o].op = "add"
      PROVE  Adding(o, call[o], mapping')
  <2>1. ASSUME call[o].inserted, NEW m \in Requests PROVE mapping'[m].domain # call[o].row.domain
    <3>1. mapping[m].domain # call[o].row.domain /\ call[o].row.domain \in Domains
      BY <1>4, <2>1 DEF Adding, Mappings
    <3>2. CASE mapping[m] # NoMapping
      BY <3>1, <3>2, CommittedMapping
    <3>3. CASE mapping'[m] = NoMapping
      BY <3>1, <3>3, NoneIsNoTenant
    <3>4. CASE mapping[m] = NoMapping /\ mapping'[m] # NoMapping
      <4>1. call[r].op = "add" /\ call[r].inserted /\ mapping'[m].domain = call[r].row.domain
        BY <3>4, CommittedMapping
      <4> QED
        BY <1>1, <1>4, <2>1, <4>1 DEF Apart
    <3> QED
      BY <3>2, <3>3, <3>4
  <2> QED
    BY <1>3, <1>4, <2>1 DEF Adding
<1>5. ASSUME Changing(call[o], mapping) PROVE Changing(call[o], mapping')
  <2>1. call[o].id # None => call[o].id \in Requests
    BY <1>1 DEF Calls
  <2> QED
    BY <1>5, <2>1, CommittedMapping DEF Changing
<1> QED
  BY <1>1, <1>2, <1>3, <1>4, <1>5 DEF Fit

LEMMA CommitMappingKeepsWInv ==
    ASSUME WInv, NEW r \in Requests, Commit(r), call[r].op \notin ConfigOps
    PROVE  WInv'
<1>1. config' = config /\ latest' = latest /\ mapping' \in [Requests -> Mappings \union {NoMapping}]
  BY CommittedMapping
<1>2. Types' /\ OneConfig' /\ NothingLatest' /\ NoChangeLost'
  BY <1>1, CallsAfterCommit DEF WInv, Types, OneConfig, NothingLatest, NoChangeLost
<1>3. OneMapping'
  <2> SUFFICES ASSUME NEW m \in Requests, NEW n \in Requests, mapping'[m] # NoMapping,
                      mapping'[m].domain = mapping'[n].domain
               PROVE  m = n
    BY DEF OneMapping
  <2>1. mapping'[n] # NoMapping
    BY <1>1, NoneIsNoTenant DEF Mappings
  <2>2. call[r].op = "add" /\ call[r].inserted =>
            \A x \in Requests : mapping[x].domain # call[r].row.domain
    BY DEF WInv, Fit, Adding
  <2>3. CASE mapping[m] # NoMapping /\ mapping[n] # NoMapping
    BY <2>3, CommittedMapping DEF WInv, OneMapping
  <2>4. CASE mapping[m] = NoMapping /\ mapping[n] = NoMapping
    BY <2>1, <2>4, CommittedMapping
  <2>5. CASE mapping[m] = NoMapping /\ mapping[n] # NoMapping
    BY <2>2, <2>5, CommittedMapping
  <2>6. CASE mapping[m] # NoMapping /\ mapping[n] = NoMapping
    BY <2>1, <2>2, <2>6, CommittedMapping
  <2> QED
    BY <2>3, <2>4, <2>5, <2>6
<1>4. \A o \in Requests : Fit(o, call'[o], config', mapping')
  BY CallsAfterCommit, CommitMappingKeepsFits, OverFits
<1> QED
  BY <1>2, <1>3, <1>4, CallsAfterCommit DEF WInv

LEMMA StepKeepsWInv == WInv /\ [Next]_vars => WInv'
<1> SUFFICES ASSUME WInv, [Next]_vars PROVE WInv'
  OBVIOUS
<1>1. ASSUME NEW r \in Requests, Step(r) PROVE WInv'
  BY <1>1, LookUpKeepsWInv, InsertKeepsWInv, UpdateKeepsWInv, CommitConfigKeepsWInv,
     CommitMappingKeepsWInv DEF Step
<1>2. CASE \E r \in Requests : Start(r) \/ Step(r) \/ Rollback(r)
  BY <1>1, <1>2, StartKeepsWInv, RollbackKeepsWInv
<1>3. CASE UNCHANGED vars
  BY <1>3 DEF WInv, Types, OneConfig, OneMapping, NothingLatest, NoChangeLost, vars
<1> QED
  BY <1>2, <1>3 DEF Next, AllOver

-------------------------------------------------------------------------------
(* Domains: the refinement of IdempotentCreate.                             *)

\* MappingsOf, mappingFor and added for the mappings mp.
MadeFor(d, mp) == {m \in Requests : mp[m].domain = d}
OneOf(S) == IF S = {} THEN None ELSE CHOOSE m \in S : TRUE
PairsOf(mp) == {<<mp[m].domain, m>> : m \in {n \in Requests : mp[n] # NoMapping}}

LEMMA OnlyMember == OneOf({}) = None /\ \A m : OneOf({m}) = m
BY DEF OneOf

LEMMA MappingFor ==
    /\ mappingFor = [d \in Domains |-> OneOf(MadeFor(d, mapping))]
    /\ mappingFor' = [d \in Domains |-> OneOf(MadeFor(d, mapping'))]
    /\ added = PairsOf(mapping) /\ added' = PairsOf(mapping')
BY DEF mappingFor, MappingsOf, MadeFor, OneOf, added, PairsOf

LEMMA RegisterInit == Init => Register!Init
<1> SUFFICES ASSUME Init PROVE Register!Init
  OBVIOUS
<1>1. \A m \in Requests : mapping[m] = NoMapping
  BY DEF Init
<1>2. \A d \in Domains : MadeFor(d, mapping) = {}
  BY <1>1, WhitelabelAssumption DEF MadeFor, NoMapping
<1>3. PairsOf(mapping) = {}
  BY <1>1 DEF PairsOf
<1> QED
  BY <1>2, <1>3, MappingFor, OnlyMember DEF Register!Init

\* A step that adds no mapping and moves none to another domain is none of the register's.
LEMMA SameMappings ==
    ASSUME \A m \in Requests : /\ mapping'[m].domain = mapping[m].domain
                               /\ mapping'[m] = NoMapping <=> mapping[m] = NoMapping
    PROVE  UNCHANGED Register!vars
<1>1. \A d \in Domains : MadeFor(d, mapping') = MadeFor(d, mapping)
  BY DEF MadeFor
<1>2. PairsOf(mapping') = PairsOf(mapping)
  BY DEF PairsOf
<1> QED
  BY <1>1, <1>2, MappingFor DEF Register!vars

LEMMA AddMakes ==
    ASSUME WInv, NEW r \in Requests, Commit(r), call[r].op = "add"
    PROVE  \E d \in Domains : Register!Make(d, r)
<1> DEFINE d == call[r].row.domain
<1>1. /\ call[r].row \in Mappings /\ mapping[r] = NoMapping /\ d \in Domains
      /\ \A m \in Requests : mapping[m].domain # d
  BY DEF WInv, Fit, Adding, Commit, OpenPoints, Mappings
<1>2. mapping' = [mapping EXCEPT ![r] = call[r].row]
  BY DEF Commit
<1>3. /\ mapping'[r] # NoMapping /\ mapping'[r].domain = d
      /\ \A m \in Requests \ {r} : mapping'[m] = mapping[m]
  BY <1>1, <1>2, NoneIsNoTenant DEF WInv, Types
<1> HIDE DEF d
<1>4. MadeFor(d, mapping) = {} /\ MadeFor(d, mapping') = {r}
  BY <1>1, <1>3 DEF MadeFor
<1>5. NoMapping.domain \notin Domains
  BY WhitelabelAssumption DEF NoMapping
<1>6. \A e \in Domains \ {d} : MadeFor(e, mapping') = MadeFor(e, mapping)
  BY <1>1, <1>3, <1>5 DEF MadeFor
<1>7. mappingFor[d] = None /\ mappingFor' = [mappingFor EXCEPT ![d] = r]
  BY <1>1, <1>4, <1>6, MappingFor, OnlyMember
<1>8. PairsOf(mapping') = PairsOf(mapping) \union {<<d, r>>}
  BY <1>1, <1>3 DEF PairsOf
<1>9. Register!Make(d, r)
  BY <1>7, <1>8, MappingFor DEF Register!Make
<1> QED
  BY <1>1, <1>9

LEMMA StepRefines == WInv /\ [Next]_vars => [Register!Next]_(Register!vars)
<1> SUFFICES ASSUME WInv, [Next]_vars PROVE [Register!Next]_(Register!vars)
  OBVIOUS
<1>1. CASE mapping' = mapping
  BY <1>1, SameMappings
<1>2. ASSUME NEW r \in Requests, Commit(r) PROVE [Register!Next]_(Register!vars)
  <2>1. CASE call[r].op = "add"
    BY <1>2, <2>1, AddMakes DEF Register!Next
  <2>2. CASE call[r].op \in ConfigOps
    BY <1>1, <1>2, <2>2 DEF Commit, ConfigOps
  <2>3. CASE call[r].op \notin ConfigOps /\ call[r].op # "add"
    <3>1. \A m \in Requests : /\ mapping'[m].domain = mapping[m].domain
                              /\ mapping'[m] = NoMapping <=> mapping[m] = NoMapping
      BY <1>2, <2>3, CommittedMapping
    <3> QED
      BY <3>1, SameMappings
  <2> QED
    BY <2>1, <2>2, <2>3
<1>3. ASSUME NEW r \in Requests, Start(r) \/ Rollback(r) \/ (Step(r) /\ ~Commit(r))
      PROVE  mapping' = mapping
  BY <1>3 DEF Start, GetConfig, PutConfig, AddDomain, VerifyDomain, RevokeDomain, ImportRows,
     Begin, Rollback, Step, LookUpConfig, Insert, Update, Advance, rows
<1> QED
  BY <1>1, <1>2, <1>3 DEF Next, Step, AllOver, vars

-------------------------------------------------------------------------------
(* Imports: what the loop over the rows counts, by induction on how many    *)
(* of them it has seen.                                                     *)

Tallies == [succeeded : Nat, failed : Nat, seen : SUBSET Keys]
NoTally == [succeeded |-> 0, failed |-> 0, seen |-> {}]

Latest(d) == CHOOSE i \in d : \A j \in d : j <= i

\* The function ProcessRows is read from: the tally of any of the rows.
TallyOf(s) ==
    CHOOSE tally : tally = [d \in SUBSET DOMAIN s |->
        IF d = {} THEN NoTally ELSE CountRow(tally[d \ {Latest(d)}], s[Latest(d)])]

LEMMA ProcessRowsIs ==
    ASSUME NEW s
    PROVE  ProcessRows(s) = TallyOf(s)[DOMAIN s]
BY DEF ProcessRows, FoldLeft, MapThenFoldSet, Max, TallyOf, Latest, NoTally

LEMMA CountRowType ==
    ASSUME NEW tally \in Tallies, NEW row \in Keys \union {Bad}
    PROVE  CountRow(tally, row) \in Tallies
<1>1. tally.failed + 1 \in Nat /\ tally.succeeded + 1 \in Nat
  BY DEF Tallies
<1>2. [tally EXCEPT !.failed = @ + 1] \in Tallies
  BY <1>1 DEF Tallies
<1>3. row # Bad =>
        [tally EXCEPT !.succeeded = @ + 1, !.seen = @ \union {row}] \in Tallies
  <2> SUFFICES ASSUME row \in Keys
               PROVE  [tally EXCEPT !.succeeded = @ + 1, !.seen = @ \union {row}] \in Tallies
    OBVIOUS
  <2>1. tally.seen \union {row} \in SUBSET Keys
    BY DEF Tallies
  <2> QED
    BY <1>1, <2>1 DEF Tallies
<1> QED
  BY <1>2, <1>3 DEF CountRow

LEMMA LatestIsIn ==
    ASSUME NEW n \in Nat, NEW d \in SUBSET (1..n), d # {}
    PROVE  Latest(d) \in d
BY GreatestUpTo DEF Latest

LEMMA LatestUpTo ==
    ASSUME NEW k \in Nat \ {0}
    PROVE  Latest(1..k) = k /\ (1..k) \ {k} = 1..(k - 1)
<1>1. PICK l : l = Latest(1..k)
  OBVIOUS
<1>2. k \in 1..k /\ \A j \in 1..k : j <= k
  OBVIOUS
<1>3. l \in 1..k /\ \A j \in 1..k : j <= l
  BY <1>1, <1>2 DEF Latest
<1>4. l = k
  BY <1>2, <1>3
<1>5. (1..k) \ {k} = 1..(k - 1)
  OBVIOUS
<1> QED
  BY <1>1, <1>4, <1>5

LEMMA TallyUnfold ==
    ASSUME NEW n \in Nat, NEW s \in [1..n -> Keys \union {Bad}]
    PROVE  /\ TallyOf(s)[{}] = NoTally
           /\ \A k \in 1..n : TallyOf(s)[1..k] = CountRow(TallyOf(s)[1..(k - 1)], s[k])
<1> DEFINE D == 1..n
           taken == [d \in SUBSET D |-> Latest(d)]
           step == [d \in SUBSET D |-> [v \in Tallies |->
                       IF d = {} THEN v ELSE CountRow(v, s[taken[d]])]]
<1>1. Takes(D, taken)
  BY LatestIsIn DEF Takes
<1>2. NoTally \in Tallies
  BY DEF NoTally, Tallies
<1>3. step \in [SUBSET D -> [Tallies -> Tallies]]
  <2>1. ASSUME NEW d \in SUBSET D, NEW v \in Tallies
        PROVE  (IF d = {} THEN v ELSE CountRow(v, s[taken[d]])) \in Tallies
    <3>1. d # {} => s[taken[d]] \in Keys \union {Bad}
      BY <1>1 DEF Takes
    <3> HIDE DEF taken
    <3> QED
      BY <3>1, CountRowType
  <2> HIDE DEF taken, D
  <2> QED
    BY <2>1
<1>4. PICK g \in [SUBSET D -> Tallies] : FoldsTo(g, D, NoTally, taken, step)
  <2>1. IsFiniteSet(D)
    BY FS_Interval
  <2> HIDE DEF D, taken, step
  <2> QED
    BY <1>1, <1>2, <1>3, <2>1, FoldExists
<1>5. ASSUME NEW d \in SUBSET D, d # {}
      PROVE  step[d][g[d \ {taken[d]}]] = CountRow(g[d \ {Latest(d)}], s[Latest(d)])
  <2>1. g[d \ {taken[d]}] \in Tallies /\ taken[d] = Latest(d)
    BY <1>4
  <2> HIDE DEF taken, D
  <2> QED
    BY <1>5, <2>1
<1>6. g = [d \in SUBSET DOMAIN s |->
              IF d = {} THEN NoTally ELSE CountRow(g[d \ {Latest(d)}], s[Latest(d)])]
  <2>1. DOMAIN s = D
    OBVIOUS
  <2> HIDE DEF taken, step, D
  <2> QED
    BY <1>4, <1>5, <2>1 DEF FoldsTo
<1>7. TallyOf(s) = [d \in SUBSET DOMAIN s |->
              IF d = {} THEN NoTally
              ELSE CountRow(TallyOf(s)[d \ {Latest(d)}], s[Latest(d)])]
  BY <1>6 DEF TallyOf
<1>8. ASSUME NEW k \in 1..n
      PROVE  TallyOf(s)[1..k] = CountRow(TallyOf(s)[1..(k - 1)], s[k])
  <2>1. 1..k \in SUBSET DOMAIN s /\ 1..k # {} /\ k \in Nat \ {0}
    <3>1. DOMAIN s = 1..n /\ k \in Nat \ {0} /\ k <= n
      OBVIOUS
    <3>2. k \in 1..k /\ \A i \in 1..k : i \in 1..n
      BY <3>1
    <3> QED
      BY <3>1, <3>2
  <2>2. Latest(1..k) = k /\ (1..k) \ {k} = 1..(k - 1)
    BY <2>1, LatestUpTo
  <2> QED
    BY <1>7, <2>1, <2>2
<1>9. TallyOf(s)[{}] = NoTally
  BY <1>7
<1> QED
  BY <1>8, <1>9

\* What the loop has counted after k rows: the keys seen are those of the valid rows, each
\* has succeeded once, and every invalid row has failed.
Counted(s, k, tally) ==
    /\ tally \in Tallies
    /\ tally.seen = {s[i] : i \in 1..k} \ {Bad}
    /\ IsFiniteSet(tally.seen)
    /\ tally.succeeded = Cardinality(tally.seen)
    /\ tally.failed = Cardinality({i \in 1..k : s[i] = Bad})
    /\ tally.succeeded + tally.failed <= k

LEMMA CountedParts ==
    ASSUME NEW s, NEW k, NEW tally \in Tallies,
           tally.seen = {s[i] : i \in 1..k} \ {Bad}, IsFiniteSet(tally.seen),
           tally.succeeded = Cardinality(tally.seen),
           tally.failed = Cardinality({i \in 1..k : s[i] = Bad}),
           tally.succeeded + tally.failed <= k
    PROVE  Counted(s, k, tally)
BY DEF Counted

LEMMA CountedNext ==
    ASSUME NEW n \in Nat, NEW s \in [1..n -> Keys \union {Bad}], NEW k \in 1..n,
           NEW tally, Counted(s, k - 1, tally)
    PROVE  Counted(s, k, CountRow(tally, s[k]))
<1> DEFINE bad(m) == {i \in 1..m : s[i] = Bad}
           good(m) == {s[i] : i \in 1..m} \ {Bad}
           next == CountRow(tally, s[k])
<1>1. /\ tally \in Tallies /\ tally.seen = good(k - 1) /\ IsFiniteSet(tally.seen)
      /\ tally.succeeded = Cardinality(tally.seen) /\ tally.failed = Cardinality(bad(k - 1))
      /\ tally.succeeded + tally.failed <= k - 1
      /\ tally.succeeded \in Nat /\ tally.failed \in Nat
  BY DEF Counted, Tallies
<1>2. k \notin 1..(k - 1) /\ 1..k = (1..(k - 1)) \union {k} /\ k \in Int
  OBVIOUS
<1>3. next \in Tallies
  BY <1>1, CountRowType
<1>4. CASE s[k] = Bad
  <2>1. next.seen = tally.seen /\ next.succeeded = tally.succeeded /\ next.failed = tally.failed + 1
    BY <1>1, <1>4 DEF CountRow, Tallies
  <2>2. good(k) = good(k - 1)
    BY <1>2, <1>4
  <2>3. bad(k) = bad(k - 1) \union {k} /\ k \notin bad(k - 1)
    BY <1>2, <1>4
  <2>4. IsFiniteSet(bad(k - 1))
    <3>1. IsFiniteSet(1..(k - 1)) /\ bad(k - 1) \in SUBSET (1..(k - 1))
      BY FS_Interval
    <3> QED
      BY <3>1, FS_Subset
  <2> HIDE DEF bad, good, next
  <2>5. Cardinality(bad(k)) = Cardinality(bad(k - 1)) + 1
    BY <2>3, <2>4, FS_AddElement
  <2>6. /\ next.seen = good(k) /\ IsFiniteSet(next.seen)
        /\ next.succeeded = Cardinality(next.seen) /\ next.failed = Cardinality(bad(k))
        /\ next.succeeded + next.failed <= k
    BY <1>1, <1>2, <2>1, <2>2, <2>5
  <2> QED
    BY <1>3, <2>6, CountedParts DEF bad, good, next
<1>5. CASE s[k] # Bad
  <2>1. bad(k) = bad(k - 1)
    BY <1>2, <1>5
  <2>2. good(k) = good(k - 1) \union {s[k]}
    BY <1>2, <1>5
  <2>3. CASE s[k] \in tally.seen
    <3>1. next = tally
      BY <1>5, <2>3 DEF CountRow
    <3>2. good(k) = good(k - 1)
      BY <1>1, <2>2, <2>3
    <3> HIDE DEF bad, good, next
    <3>3. /\ next.seen = good(k) /\ IsFiniteSet(next.seen)
          /\ next.succeeded = Cardinality(next.seen) /\ next.failed = Cardinality(bad(k))
          /\ next.succeeded + next.failed <= k
      BY <1>1, <1>2, <2>1, <3>1, <3>2
    <3> QED
      BY <1>3, <3>3, CountedParts DEF bad, good, next
  <2>4. CASE s[k] \notin tally.seen
    <3>1. /\ next.seen = tally.seen \union {s[k]} /\ next.succeeded = tally.succeeded + 1
          /\ next.failed = tally.failed
      BY <1>1, <1>5, <2>4 DEF CountRow, Tallies
    <3> HIDE DEF bad, good, next
    <3>2. IsFiniteSet(next.seen) /\ Cardinality(next.seen) = Cardinality(tally.seen) + 1
      BY <1>1, <2>4, <3>1, FS_AddElement
    <3>3. /\ next.seen = good(k) /\ IsFiniteSet(next.seen)
          /\ next.succeeded = Cardinality(next.seen) /\ next.failed = Cardinality(bad(k))
          /\ next.succeeded + next.failed <= k
      BY <1>1, <1>2, <2>1, <2>2, <3>1, <3>2
    <3> QED
      BY <1>3, <3>3, CountedParts DEF bad, good, next
  <2> QED
    BY <2>3, <2>4
<1> QED
  BY <1>4, <1>5

LEMMA ProcessRowsCounts ==
    ASSUME NEW n \in Nat, NEW s \in [1..n -> Keys \union {Bad}]
    PROVE  Counted(s, n, ProcessRows(s))
<1> DEFINE Good == {k \in 0..n : Counted(s, k, TallyOf(s)[1..k])}
<1>1. 0 \in Good
  <2>1. 1..0 = {} /\ {i \in 1..0 : s[i] = Bad} = {} /\ {s[i] : i \in 1..0} \ {Bad} = {}
    OBVIOUS
  <2>2. TallyOf(s)[1..0] = NoTally
    BY <2>1, TallyUnfold
  <2>3. Counted(s, 0, NoTally)
    BY <2>1, FS_EmptySet DEF Counted, NoTally, Tallies
  <2> QED
    BY <2>2, <2>3
<1>2. \A k \in 1..n : k - 1 \in Good => k \in Good
  BY TallyUnfold, CountedNext
<1>3. n \in Good
  <2> HIDE DEF Good
  <2> QED
    BY <1>1, <1>2, UpToInduction
<1>4. DOMAIN s = 1..n
  OBVIOUS
<1> QED
  BY <1>3, <1>4, ProcessRowsIs

\* A job is the one of the rows that were to be imported.
JobShape(j) == j = NoJob \/ \E t \in Tenants, s \in Imports : j = Job(t, s)

JInv ==
    /\ job \in [Requests -> Jobs \union {NoJob}]
    /\ lock \in [Requests -> Requests \union {None}]
    /\ \A r \in Requests : JobShape(job[r])

LEMMA ImportShape ==
    ASSUME NEW s \in Imports
    PROVE  \E n \in 0..MaxRows : s \in [1..n -> Keys \union {Bad}] /\ Len(s) = n
<1>1. PICK n \in 0..MaxRows : s \in [1..n -> Keys \union {Bad}]
  BY DEF Imports
<1>2. n \in Nat /\ DOMAIN s = 1..n
  BY <1>1, WhitelabelAssumption
<1>3. Len(s) = n
  BY <1>1, <1>2
<1> QED
  BY <1>1, <1>3

Distinct(s) == {s[n] : n \in DOMAIN s} \ {Bad}
BadRows(s) == {n \in DOMAIN s : s[n] = Bad}

\* What the counts of a job say, and that they fit their columns.
LEMMA JobCounts ==
    ASSUME NEW t \in Tenants, NEW s \in Imports
    PROVE  LET j == Job(t, s)
           IN  /\ j \in Jobs
               /\ j.rows = s /\ j.total = Len(s) /\ (j.completed <=> s # <<>>)
               /\ j.succeeded = Cardinality(Distinct(s)) /\ j.failed = Cardinality(BadRows(s))
               /\ j.succeeded + j.failed <= j.total
<1> DEFINE j == Job(t, s)
           tally == ProcessRows(s)
<1>1. PICK n \in 0..MaxRows : s \in [1..n -> Keys \union {Bad}] /\ Len(s) = n
  BY ImportShape
<1>2. n \in Nat /\ MaxRows \in Nat /\ n <= MaxRows /\ DOMAIN s = 1..n
  BY <1>1, WhitelabelAssumption
<1>3. Counted(s, n, tally)
  BY <1>1, <1>2, ProcessRowsCounts
<1>4. /\ tally.succeeded = Cardinality(Distinct(s)) /\ tally.failed = Cardinality(BadRows(s))
      /\ tally.succeeded + tally.failed <= n
      /\ tally.succeeded \in Nat /\ tally.failed \in Nat
  BY <1>2, <1>3 DEF Counted, Tallies, Distinct, BadRows
<1>5. tally.succeeded \in 0..MaxRows /\ tally.failed \in 0..MaxRows /\ Len(s) \in 0..MaxRows
  <2> HIDE DEF tally
  <2> QED
    BY <1>1, <1>2, <1>4
<1>6. CASE s = <<>>
  <2>1. j = [tenant |-> t, rows |-> <<>>, completed |-> FALSE, total |-> 0,
             succeeded |-> 0, failed |-> 0]
    BY <1>6 DEF Job, NoJob
  <2>2. n = 0
    BY <1>1, <1>6
  <2>3. Distinct(s) = {} /\ BadRows(s) = {}
    BY <1>2, <2>2 DEF Distinct, BadRows
  <2>4. Cardinality(Distinct(s)) = 0 /\ Cardinality(BadRows(s)) = 0
    BY <2>3, FS_EmptySet
  <2>5. j \in Jobs
    <3>1. 0 \in 0..MaxRows /\ <<>> \in Imports
      BY <1>2, <1>6
    <3> QED
      BY <2>1, <3>1 DEF Jobs
  <2> QED
    BY <1>1, <1>6, <2>1, <2>2, <2>4, <2>5
<1>7. CASE s # <<>>
  <2>1. j = [tenant |-> t, rows |-> s, completed |-> TRUE, total |-> Len(s),
             succeeded |-> tally.succeeded, failed |-> tally.failed]
    BY <1>7 DEF Job
  <2> HIDE DEF tally
  <2>2. j \in Jobs
    BY <1>5, <2>1 DEF Jobs
  <2> QED
    BY <1>1, <1>4, <1>7, <2>1, <2>2
<1> QED
  BY <1>6, <1>7

LEMMA JobsAddUp ==
    ASSUME NEW j, JobShape(j)
    PROVE  /\ j.completed <=> j.rows # <<>>
           /\ j.succeeded = Cardinality(Distinct(j.rows))
           /\ j.failed = Cardinality(BadRows(j.rows))
           /\ j.total = Len(j.rows) /\ j.succeeded + j.failed <= j.total
<1>1. CASE j = NoJob
  <2>1. /\ j.rows = <<>> /\ ~j.completed /\ j.total = 0 /\ j.succeeded = 0 /\ j.failed = 0
    BY <1>1 DEF NoJob
  <2>2. Distinct(<<>>) = {} /\ BadRows(<<>>) = {} /\ Len(<<>>) = 0
    BY DEF Distinct, BadRows
  <2>3. Cardinality(Distinct(<<>>)) = 0 /\ Cardinality(BadRows(<<>>)) = 0
    BY <2>2, FS_EmptySet
  <2>4. j.completed <=> j.rows # <<>>
    BY <2>1
  <2>5. /\ j.succeeded = Cardinality(Distinct(j.rows))
        /\ j.failed = Cardinality(BadRows(j.rows))
    BY <2>1, <2>3
  <2>6. j.total = Len(j.rows) /\ j.succeeded + j.failed <= j.total
    BY <2>1, <2>2
  <2> QED
    BY <2>4, <2>5, <2>6
<1>2. ASSUME NEW t \in Tenants, NEW s \in Imports, j = Job(t, s)
      PROVE  /\ j.completed <=> j.rows # <<>>
             /\ j.succeeded = Cardinality(Distinct(j.rows))
             /\ j.failed = Cardinality(BadRows(j.rows))
             /\ j.total = Len(j.rows) /\ j.succeeded + j.failed <= j.total
  BY <1>2, JobCounts
<1> QED
  BY <1>1, <1>2 DEF JobShape

LEMMA JInvInit == Init => JInv
BY DEF Init, JInv, JobShape

LEMMA JInvStep ==
    ASSUME WInv, JInv, [Next]_vars
    PROVE  JInv'
<1>1. ASSUME NEW r \in Requests, Commit(r) PROVE JInv'
  <2>1. lock' \in [Requests -> Requests \union {None}]
    BY <1>1 DEF JInv, Commit
  <2>2. CASE call[r].op # "import"
    <3>1. job' = job
      BY <1>1, <2>2 DEF Commit
    <3> QED
      BY <2>1, <3>1 DEF JInv
  <2>3. CASE call[r].op = "import"
    <3>1. job' = [job EXCEPT ![r] = Job(call[r].tenant, call[r].rows)]
      BY <1>1, <2>3 DEF Commit
    <3>2. call[r].tenant \in Tenants /\ call[r].rows \in Imports
      BY <1>1 DEF WInv, Fit, Types, Calls, Commit, OpenPoints
    <3>3. Job(call[r].tenant, call[r].rows) \in Jobs
      BY <3>2, JobCounts
    <3>4. JobShape(Job(call[r].tenant, call[r].rows))
      BY <3>2 DEF JobShape
    <3> QED
      BY <2>1, <3>1, <3>3, <3>4 DEF JInv
  <2> QED
    BY <2>2, <2>3
<1>2. ASSUME NEW r \in Requests, Update(r) PROVE JInv'
  BY <1>2 DEF JInv, Update, rows
<1>3. ASSUME NEW r \in Requests, Rollback(r) PROVE JInv'
  BY <1>3 DEF JInv, Rollback, rows
<1>4. ASSUME NEW r \in Requests, Start(r) \/ LookUpConfig(r) \/ Insert(r) PROVE JInv'
  <2>1. UNCHANGED <<job, lock>>
    BY <1>4 DEF Start, GetConfig, PutConfig, AddDomain, VerifyDomain, RevokeDomain, ImportRows,
                LookUpConfig, Insert, Begin, Advance, rows
  <2> QED
    BY <2>1 DEF JInv
<1>5. CASE UNCHANGED vars
  BY <1>5 DEF JInv, vars
<1> QED
  BY <1>1, <1>2, <1>3, <1>4, <1>5 DEF Next, Step, AllOver

LEMMA JInvAlways == Spec => []JInv
<1>1. Spec => []WInv
  BY InitEstablishesWInv, StepKeepsWInv, PTL DEF Spec
<1> QED
  BY <1>1, JInvInit, JInvStep, PTL DEF Spec

-------------------------------------------------------------------------------
(* The theorems.                                                            *)

\* However get_or_create_config, update_config and refused updates overlap, a tenant's
\* configuration has in every column what the last committed update to give it gave.
THEOREM NoChangeLostHolds == Spec => []NoChangeLost
<1>1. WInv => NoChangeLost
  BY DEF WInv
<1> QED
  BY <1>1, InitEstablishesWInv, StepKeepsWInv, PTL DEF Spec

\* No two mappings, revoked ones included, are of one domain, whatever insertions of whichever
\* tenants overlap (add_domain).
THEOREM OneMappingHolds == Spec => []OneMapping
<1>1. WInv => OneMapping
  BY DEF WInv
<1> QED
  BY <1>1, InitEstablishesWInv, StepKeepsWInv, PTL DEF Spec

\* A domain is made a mapping once and never another, whatever additions, verifications and
\* revocations of whichever tenants overlap: the unique index keeps the promise of a key.
THEOREM DomainMappedOnceHolds == Spec => DomainMappedOnce
BY RegisterInit, StepRefines, InitEstablishesWInv, StepKeepsWInv, PTL
   DEF Spec, DomainMappedOnce, Register!Spec

\* The columns of configurations, mappings and jobs keep their types, the counts of a job
\* among them.
THEOREM WhitelabelTypeCorrect == Spec => []TypeOK
<1>1. WInv /\ JInv => TypeOK
  BY DEF WInv, Types, JInv, TypeOK
<1>2. Spec => []WInv
  BY InitEstablishesWInv, StepKeepsWInv, PTL DEF Spec
<1> QED
  BY <1>1, <1>2, JInvAlways, PTL

\* Whatever rows an import has, in any order and with any repetitions, the loop of
\* process_csv_rows counts each distinct valid key once and every invalid row.
THEOREM CountsAddUpHolds == Spec => []CountsAddUp
<1>1. JInv => CountsAddUp
  BY JobsAddUp DEF JInv, CountsAddUp, Distinct, BadRows
<1> QED
  BY <1>1, JInvAlways, PTL
===============================================================================
