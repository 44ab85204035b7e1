---------------------------- MODULE ControlPlane ----------------------------
(***************************************************************************)
(* The mutations of the control plane (src/control-plane/src/db.rs):       *)
(* apply_source and apply_bundle, delete_source.  Handlers run             *)
(* concurrently, each in one PostgreSQL transaction on a connection of the *)
(* pool, and SQL users may create and drop servers meanwhile.              *)
(*                                                                         *)
(* PostgreSQL runs the transactions in READ COMMITTED mode: a statement    *)
(* sees what is committed when it runs and what its own transaction did.   *)
(* A server that a transaction has dropped or created is locked until the  *)
(* transaction ends; a statement that needs it waits, then looks again.    *)
(***************************************************************************)
EXTENDS SourceModel

CONSTANTS
  Requests,     \* bound: the requests sent
  PoolSize,     \* OPENAPI_FDW_POOL_SIZE
  MaxSql        \* bound: statements of SQL users on servers

ASSUME PoolSizeAssumption == PoolSize \in 1..64
ASSUME MaxSqlAssumption == MaxSql \in Nat

VARIABLES
  servers,      \* committed foreign servers
  sources,      \* committed openapi_fdw_control.sources: definition by name
  op,           \* for each request, what it asks for
  pc,           \* where its handler is
  at,           \* position in the bundle
  touched,      \* names of the servers its transaction has dropped or created
  draft,        \* those servers, as its transaction sees them
  recorded,     \* names whose metadata its transaction has changed
  record,       \* the metadata as its transaction sees it
  response,     \* its answer: none, ok or error
  sql           \* number of statements of SQL users so far

own == <<op, at, touched, draft, recorded, record>>
vars == <<servers, sources, own, pc, response, sql>>

Idle == CHOOSE operation \in Operations : TRUE

Init ==
  /\ servers \in [Names -> Unmanaged]
  /\ sources = [n \in Names |-> None]
  /\ op = [r \in Requests |-> Idle]
  /\ pc = [r \in Requests |-> "idle"]
  /\ at = [r \in Requests |-> 1]
  /\ touched = [r \in Requests |-> {}]
  /\ draft = [r \in Requests |-> [n \in Names |-> Absent]]
  /\ recorded = [r \in Requests |-> {}]
  /\ record = [r \in Requests |-> [n \in Names |-> None]]
  /\ response = [r \in Requests |-> "none"]
  /\ sql = 0

-----------------------------------------------------------------------------
\* PostgreSQL (external).

InTransaction == {"check", "drop", "create", "import", "record", "commit"}

\* Seeded fault: a handler that fails keeps its connection.
FaultLeak == {r \in Requests : pc[r] \in InTransaction \/ response[r] = "error"}

Connected == {r \in Requests : pc[r] \in InTransaction}

Visible(r, n) == IF n \in touched[r] THEN draft[r][n] ELSE servers[n]

\* The transactions a statement on server n has to wait for.
Owners(r, n) == {q \in Requests \ {r} : n \in touched[q]}

\* The transaction holds server n, in the state given, until it ends.
Write(r, n, server) ==
  /\ touched' = [touched EXCEPT ![r] = @ \cup {n}]
  /\ draft' = [draft EXCEPT ![r][n] = server]

Goto(r, label) == pc' = [pc EXCEPT ![r] = label]

Forget(r) ==
  /\ touched' = [touched EXCEPT ![r] = {}]
  /\ draft' = [draft EXCEPT ![r] = [n \in Names |-> Absent]]
  /\ recorded' = [recorded EXCEPT ![r] = {}]
  /\ record' = [record EXCEPT ![r] = [n \in Names |-> None]]
  /\ at' = [at EXCEPT ![r] = 1]
  /\ UNCHANGED op

\* The transaction is rolled back, the handler answers with an error.
Abort(r) ==
  /\ Goto(r, "done")
  /\ response' = [response EXCEPT ![r] = "error"]
  /\ Forget(r)
  /\ UNCHANGED <<servers, sources, sql>>

-----------------------------------------------------------------------------
\* A handler.

Name(r) == op[r].bundle[at[r]].name
Definition(r) == op[r].bundle[at[r]].definition

\* The request has passed validate, or the confirmation of its name.
Submit(r, operation) ==
  /\ pc[r] = "idle"
  /\ op' = [op EXCEPT ![r] = operation]
  /\ Goto(r, "connect")
  /\ UNCHANGED <<servers, sources, at, touched, draft, recorded, record, response, sql>>

\* pool.get() and BEGIN.
Connect(r) ==
  /\ pc[r] = "connect" /\ Cardinality(Connected) < PoolSize
  /\ Goto(r, "check")
  /\ UNCHANGED <<servers, sources, own, response, sql>>

\* Seeded fault: replacing is the default.
FaultAlwaysReplace(r, server) ==
  server.wrapper = "other" \/ (op[r].kind = "delete" /\ server = Absent)

\* What makes the check of the existing wrapper fail.
Refuses(r, server) ==
  \/ server.wrapper = "other"
  \/ IF op[r].kind = "delete" THEN server = Absent ELSE server # Absent /\ ~op[r].replace

\* SELECT of the wrapper of the server, and the decisions made of it.
Check(r) ==
  /\ pc[r] = "check"
  /\ LET server == Visible(r, Name(r)) IN
       \/ Refuses(r, server) /\ Abort(r)
       \/ /\ ~Refuses(r, server)
          /\ Goto(r, IF server # Absent THEN "drop" ELSE "create")
          /\ UNCHANGED <<servers, sources, own, response, sql>>

\* DROP SERVER ... CASCADE; apply_bundle adds IF EXISTS.
Drop(r) ==
  /\ pc[r] = "drop"
  /\ LET n == Name(r) IN
       \/ /\ Visible(r, n) = Absent /\ op[r].kind = "delete"
          /\ Abort(r)
       \/ /\ Visible(r, n) = Absent /\ op[r].kind = "apply"
          /\ Goto(r, "create")
          /\ UNCHANGED <<servers, sources, own, response, sql>>
       \/ /\ Visible(r, n) # Absent /\ Owners(r, n) = {}
          /\ Write(r, n, Absent)
          /\ Goto(r, IF op[r].kind = "delete" THEN "record" ELSE "create")
          /\ UNCHANGED <<servers, sources, op, at, recorded, record, response, sql>>

\* CREATE SERVER: an error if one is there, now or once the owner has committed.
Create(r) ==
  /\ pc[r] = "create"
  /\ LET n == Name(r) IN
       \/ Visible(r, n) # Absent /\ Abort(r)
       \/ /\ Visible(r, n) = Absent /\ Owners(r, n) = {}
          /\ Write(r, n, ServerOf(Definition(r), {}))
          /\ Goto(r, "import")
          /\ UNCHANGED <<servers, sources, op, at, recorded, record, response, sql>>

\* Seeded fault: only the empty import is an error.
FaultCountIgnored(definition, tables) == tables # {}

\* The two checks of the number of tables imported.
Verified(definition, tables) ==
  /\ tables # {}
  /\ Selected[definition] # {} => Cardinality(tables) = Cardinality(Selected[definition])

\* IMPORT FOREIGN SCHEMA: the document in force decides which tables there are,
\* LIMIT TO keeps the selected ones.
Import(r, offered) ==
  /\ pc[r] = "import"
  /\ LET n == Name(r)
         selected == Selected[Definition(r)]
         tables == IF selected = {} THEN offered ELSE offered \cap selected
     IN  \/ ~Verified(Definition(r), tables) /\ Abort(r)
         \/ /\ Verified(Definition(r), tables)
            /\ Write(r, n, ServerOf(Definition(r), tables))
            /\ Goto(r, "record")
            /\ UNCHANGED <<servers, sources, op, at, recorded, record, response, sql>>

\* Seeded fault: the upsert does nothing on a conflict.
FaultDoNothing(r) ==
  IF op[r].kind = "apply" /\ sources[Name(r)] # None THEN sources[Name(r)] ELSE Definition(r)

\* What the upsert, or the DELETE, leaves on record.
NewRecord(r) == Definition(r)

\* Seeded fault: the last source of a bundle is left out.
FaultMore(r) == at[r] + 1 < Len(op[r].bundle)

More(r) == at[r] < Len(op[r].bundle)

\* The metadata row, then the next source of the bundle.
Record(r) ==
  /\ pc[r] = "record"
  /\ recorded' = [recorded EXCEPT ![r] = @ \cup {Name(r)}]
  /\ record' = [record EXCEPT ![r][Name(r)] = NewRecord(r)]
  /\ at' = [at EXCEPT ![r] = IF More(r) THEN @ + 1 ELSE @]
  /\ Goto(r, IF More(r) THEN "check" ELSE "commit")
  /\ UNCHANGED <<servers, sources, op, touched, draft, response, sql>>

\* COMMIT; its confirmation may be lost.
Commit(r, answer) ==
  /\ pc[r] = "commit"
  /\ servers' = [n \in Names |-> Visible(r, n)]
  /\ sources' = [n \in Names |-> IF n \in recorded[r] THEN record[r][n] ELSE sources[n]]
  /\ Goto(r, "done")
  /\ response' = [response EXCEPT ![r] = answer]
  /\ Forget(r)
  /\ UNCHANGED sql

\* A statement fails, the handler is dropped with its connection, the control
\* plane or the backend stops, or PostgreSQL picks the transaction to end a
\* deadlock.
Interrupt(r) ==
  /\ pc[r] \in InTransaction \cup {"connect"}
  /\ Abort(r)

\* r is part of a circle of transactions that wait for each other.
WaitsFor(r) == IF pc[r] \in {"drop", "create"} THEN Owners(r, Name(r)) ELSE {}

InDeadlock(r) ==
  /\ WaitsFor(r) # {}
  /\ \E circle \in SUBSET Requests :
       /\ r \in circle
       /\ \A q \in circle : /\ WaitsFor(q) \cap circle # {}
                            /\ \E p \in circle : q \in WaitsFor(p)

-----------------------------------------------------------------------------
\* SQL users (external): one statement, one transaction.

SqlStatement(n, server) ==
  /\ sql < MaxSql
  /\ \A r \in Requests : n \notin touched[r]
  /\ servers' = [servers EXCEPT ![n] = server]
  /\ sql' = sql + 1
  /\ UNCHANGED <<sources, own, pc, response>>

SqlCreate(n, server) == servers[n] = Absent /\ server # Absent /\ SqlStatement(n, server)

SqlDrop(n) == servers[n] # Absent /\ SqlStatement(n, Absent)

-----------------------------------------------------------------------------

Statement(r) ==
  \/ Connect(r)
  \/ Check(r)
  \/ Drop(r)
  \/ Create(r)
  \/ \E offered \in SUBSET Tables : Import(r, offered)
  \/ Record(r)
  \/ Commit(r, "ok")

Handler(r) ==
  \/ \E operation \in Operations : Submit(r, operation)
  \/ Statement(r)
  \/ Commit(r, "error")
  \/ Interrupt(r)

SqlUser == \E n \in Names : SqlDrop(n) \/ \E server \in Unmanaged : SqlCreate(n, server)

Next == (\E r \in Requests : Handler(r)) \/ SqlUser

\* A handler goes on as long as PostgreSQL lets it, and PostgreSQL ends deadlocks.
Fairness ==
  /\ \A r \in Requests : WF_vars(Statement(r))
  /\ WF_vars(\E r \in Requests : InDeadlock(r) /\ Interrupt(r))

Spec == Init /\ [][Next]_vars /\ Fairness

-----------------------------------------------------------------------------
\* Properties.

TypeOK ==
  /\ servers \in [Names -> Server]
  /\ sources \in [Names -> Definitions \cup {None}]
  /\ op \in [Requests -> Operations]
  /\ pc \in [Requests -> InTransaction \cup {"idle", "connect", "done"}]
  /\ at \in [Requests -> Nat] /\ \A r \in Requests : at[r] \in DOMAIN op[r].bundle
  /\ touched \in [Requests -> SUBSET Names]
  /\ draft \in [Requests -> [Names -> Server]]
  /\ recorded \in [Requests -> SUBSET Names]
  /\ record \in [Requests -> [Names -> Definitions \cup {None}]]
  /\ response \in [Requests -> {"none", "ok", "error"}]
  /\ sql \in 0..MaxSql

\* At any moment, for whoever looks: the definition on record for a source is
\* the one its server was created from, a server created by the control plane is
\* on record, and only SQL users can leave a record without its server.
RecordsMatch ==
  \A n \in Names :
    sources[n] = servers[n].definition \/ (servers[n].definition = None /\ sql > 0)

\* A source on record has exactly the tables its definition selects.
TablesMatch ==
  \A n \in Names :
    servers[n].definition # None => Complete(servers[n].definition, servers[n].tables)

\* Two transactions never hold the same server (a lemma: PostgreSQL's locks).
OneOwner == \A q, r \in Requests : q # r => touched[q] \cap touched[r] = {}

\* Without replace, a request never drops or alters a server, not even one that
\* appeared after it looked.
ReplaceIsExplicit ==
  [][\A r \in Requests :
       response'[r] # response[r] /\ op[r].kind = "apply" /\ ~op[r].replace =>
         \A n \in Names : servers[n] # Absent => servers'[n] = servers[n]]_vars

\* The step makes of every source of the request what it asks for, and leaves the others alone.
TakesEffect(r) ==
  /\ \A i \in DOMAIN op[r].bundle :
       LET entry == op[r].bundle[i] IN
       /\ sources'[entry.name] = entry.definition
       /\ servers'[entry.name].definition = entry.definition
       /\ op[r].kind = "delete" => servers'[entry.name] = Absent
  /\ \A n \in Names :
       (\A i \in DOMAIN op[r].bundle : op[r].bundle[i].name # n) =>
         servers'[n] = servers[n] /\ sources'[n] = sources[n]

\* A bundle is applied as a whole or not at all, whatever SQL users do between its steps:
\* what a handler changes for others to see is all that its request asks for, also when
\* the confirmation of COMMIT is lost, and a request that was confirmed has changed it.
AllOrNothing ==
  [][/\ sql' = sql /\ <<servers, sources>>' # <<servers, sources>> =>
          \E r \in Requests : pc[r] = "commit" /\ TakesEffect(r)
     /\ \A r \in Requests : response'[r] = "ok" /\ response[r] # "ok" => TakesEffect(r)]_vars

\* Every request is answered: no deadlock over servers or connections lasts.
EveryRequestAnswered ==
  \A r \in Requests : pc[r] = "connect" ~> response[r] # "none"

\* As long as no SQL user interferes (MaxSql = 0), every request is one step.
Registry == INSTANCE SourceRegistry

ImplementsSourceRegistry == Registry!Spec
=============================================================================
