# Formal models of openapi_fdw

`openapi_fdw` is a PostgreSQL foreign data wrapper that reads and writes REST
collections described by an OpenAPI document, with an optional web control
plane that creates, replaces and exports foreign servers. This directory holds
TLA+ models of it, TLC configurations that check them on small instances, and
proofs checked by TLAPS for every value of the constants. `PROJECT.json` maps
each definition to the source lines it stands for, and lists the runs, a mutant
for each checked property, the hazards, the findings and the theorems.

## 1. Inventory

| Component | Source | State | Operations | What is hard |
|---|---|---|---|---|
| HTTP client | `src/http.rs` | none between calls but a pool of clients | `execute_json`, `execute_mutation`, `fetch_spec`, `execute` | retries after lost answers, timeouts, `Retry-After`, redirects |
| Paged scan | `src/fdw.rs` (`begin_scan` … `fetch_next_page`) | rows buffered, row index, next token, tokens seen, pages fetched, maximum rows | `begin_scan`, `iter_scan`, `re_scan`, `end_scan` | an origin that changes, loops or never ends; the executor's callbacks in any legal order; one instance used for several scans |
| Query planning | `src/fdw.rs` (`begin_scan`, `qual_value`, `substitute_path_parameters`) | request and injected values | `begin_scan`, `project_row` | what may be pushed without changing the answer |
| Page normalisation | `src/response.rs`, `http.rs` (`resolve_page_url`) | none | `normalize_page` | envelopes, cursors, next links, relative addresses |
| Writes | `src/fdw.rs` (`begin_modify` … `mutation_request`) | none but the scan's | `insert`, `update`, `delete` per row | partial success, doubt after an error, scans that shift under their own effects |
| Request bodies, addresses and conversions | `src/fdw.rs` (`write_body`, `mutation_request`, `column_value`, `cell_to_json`, `json_to_cell`) | none | one conversion per row | nested paths, overlaps, loss of keys, an address of more than the row |
| OpenAPI translation | `src/spec.rs` | none | `endpoints`, `create_sql`, `base_url_from_spec` | names that collide, inferred mutations, schemas that are combined, cyclic or wrapped |
| Options | `src/options.rs` | none | `ServerConfig::from_options`, `TableConfig::from_options` | options that contradict each other, secrets from an environment that changes |
| Registry | `control-plane/src/db.rs` | `openapi_fdw_control.sources`, the foreign servers and tables in the catalog, a pool | `apply_source`, `apply_bundle`, `delete_source`, `state`, `sample` | concurrent transactions, locks, SQL users, a lost COMMIT |
| Definitions and SQL | `control-plane/src/model.rs`, `sql.rs` | none | `validate`, `redacted`, `source_plan` | redaction and what comes back from it, quoting |
| HTTP interface, authentication, start | `control-plane/src/web.rs`, `auth.rs`, `config.rs`, `main.rs` | none | handlers | stateless |
| Browser client | `control-plane/assets/app.js`, `control-plane/src/ui.rs` | `state`, the form, the dialogs | `discover`, `refreshSourcePlan`, `applySource`, `planImport`, `applyImport`, `loadState` | answers that arrive after the page has changed |
| Packaging, scripts, tests, benchmarks | `sql/`, `scripts/`, `deploy/`, `tests/`, `bench/` | none at run time | | |

How they interact. PostgreSQL's executor calls the FDW's callbacks one at a time.
A scan turns into HTTP calls, one per page; a statement that writes alternates
rows taken from its scan and HTTP calls. `IMPORT FOREIGN SCHEMA` fetches the
document, translates it and returns statements that PostgreSQL runs and the
validator checks. The control plane is a set of concurrent handlers, each with
one transaction; the import runs inside it. The browser sends requests without
waiting for one another, and reads the answers in whatever order they arrive.

What makes each one correct: a call is bounded and repeated only when that cannot
repeat an effect; a scan reads one relation, in order, completely or with an
error; a query has the answer PostgreSQL computes over the whole relation; a
statement that fails leaves one row at most in doubt; a row that was written reads
back and was that row; a generated table is accepted, has the columns its document
promises and finds its rows where the importer saw them; a credential goes where its
definition says and is never shown; a registry request takes effect entirely or not at
all; the page applies what it shows. The list of hazards in `PROJECT.json` gives each
at its line.

## 2. Modules

| Module | Models | Composition |
|---|---|---|
| `RemoteCall` | contract of one HTTP call: abstract | implemented by `HttpExecute`, used by `WriteStatement` |
| `HttpExecute` | `execute`, its retries, delays and bodies | |
| `RelationScan` | what the executor may assume of a scan: abstract | implemented by `Scan` |
| `Scan` | the scan callbacks and `fetch_next_page` | |
| `PageLinks` | `find_next`, `classify_token`, `resolve_page_url` | extended by `QueryPlan` |
| `QueryPlan` | `begin_scan`'s push-down, the pages that follow, and PostgreSQL's evaluation | |
| `WriteStatement` | `begin_modify` to `end_modify`, the scan under it and the origin | instance of `RemoteCall` |
| `RowAddress` | the mutation options in the validator, and the address of a row | extended by `RowBody` |
| `RowBody` | one row written: options, address, `write_body`; then `column_value` on what the origin keeps | |
| `ResponseSchema` | `resolve_schema`, `resolve_ref`, `row_schema`, `response_schema`; `auto_select` on an answer | extended by `ImportTable` |
| `ImportTable` | `endpoints` and `create_sql` for one operation, the validator, a page and a row of the table | |
| `Definition` | a definition from `model.rs` over `sql.rs` and the catalog to `ServerConfig::from_options` and the requests | |
| `SourceModel` | servers and requests of the control plane | extended by the next two |
| `SourceRegistry` | each request one step: abstract | implemented by `ControlPlane` |
| `ControlPlane` | `apply_bundle`, `delete_source` as transactions, SQL users, the pool | |
| `ImportDialog`, `SourceDialog` | the two dialogs of the browser client | |
| `MC*` | values for TLC | |
| `*_proofs` | theorems | |

### HttpExecute

State: where the loop of `execute` is (`pc`), its loop variable, the answer being
read, the sleep, the time spent; `wire` holds attempts the origin has still to
handle. Actions: `Begin` (the call and its retry budget), `RejectRequest` (errors
before anything is sent), `Send`, `Receive` (status and body: `is_retryable_status`,
`consume_success`, the JSON check of `execute_json`), `TransportError`, `Wake`; and
for the origin `Handle`, `Reply`, `Refuse`. The origin may handle an attempt at any
time after it was sent, also after the call has returned. Time is counted in ticks
of 250 ms; `ExponentialDelay` and `RetryDelay` cap as the code does.

### Scan

State: the fields of `OpenApiFdw`; `phase` is where the executor is, the other
variables are history for the properties. The origin answers every request by any
page of up to `PageRows` rows with any token: a next URL that may be followed, one
that `resolve_page_url` refuses, a cursor, or none. `BeginScan`, `BeginUnbound`
(placeholders without values: an empty relation) and `BeginFails` are the outcomes of
`begin_scan`; `IterScan` enters `iter_scan`, whose loop is `FetchPage`, then
`ReturnRow` or `ReturnNone`; errors are `FetchRefused`, `FetchUnusable`, `FetchFails`
and `RowFails`. In `RelationScan` pages, tokens and buffers are gone.

### PageLinks, QueryPlan

`PageLinks` has no state: where `find_next` looks for the next page (`cursor_path`, a Link
header, the members of `NextUrlPaths`, those of `CursorPaths` when `HasMore`), in that
order, what makes a text a cursor rather than an address, and what an address that is
complete, starts at the root, or is a query only stands for.

In `QueryPlan`, `BeginScan` builds the path from `=` quals (the last one wins), the
parameters from the static ones and the quals, pushes LIMIT + OFFSET when there are no
quals and no sorts, and asks for pages of `limit_param` or `page_size`. `FetchPage` is one
turn of `fetch_next_page`: the request for the page, the origin's answer, the rows that
are kept. The origin honours the parameters it documents and ignores the others (`Filters`
says which field each one is about; `TablesAssumption` that no column is mapped to the
parameter of another), and announces its pages in one of seven ways (`Conventions`).
`Members` is the subsequence of the rows a filter keeps. `FetchFails` is a page of another
origin, or a cursor without `cursor_param`. `Evaluate` is PostgreSQL, which applies WHERE,
ORDER BY, OFFSET and LIMIT to what it gets; the property compares with the same evaluation
of the whole collection. `Fits` leaves out origins whose way is not in the table's options:
the code takes their first page for the relation, and cannot notice.

### WriteStatement

`Begin`, `FetchPage`, `Send`, `Return` and `Finish` are a statement of the executor;
`Reject` is an error before the call is sent. `Effect` is the origin carrying a call
out, as often as `RemoteCall` allows it, also after the call or the statement is over.
Pages continue after the last row served (`keyset`) or at a position. `OtherClient`
adds and removes rows.

### RowAddress, RowBody

An object is a function from the paths of its leaves to values; a template is a sequence of
segments with at most one placeholder each. `CreateTable` is the validator's judgement of
the mutation options (`parse_mutation_operation` and what `TableConfig::from_options` asks
around it). `Begin` is `begin_modify` and the first half of `insert`, `update` or `delete`:
whether the operation is there, whether it has the identity it needs, the address after
substitution, and what the body starts from. A cell is a value, or NULL, or, in the columns
of `JsonColumns`, an object. `WriteColumn` writes one column, in table order, as `write_body`
does: what is at its place goes (`Inserted`), the leaves of an object take their places below
it (`Leaves`), and a path leads through an object, be it of attrs or of an earlier cell, but not
through another value (`Conflicts`). `Send` leaves the object with the origin, and
`column_value` reads it. An object inside another one is known by its leaves, so that an empty
one is not told from none. The URL parser is in the model with what it does to dots (`Followed`, one segment
at a time).

### ResponseSchema, ImportTable

A schema is a record with some of the keywords `ref`, `type`, `properties`, `items`,
`allOf`, `oneOf`, `anyOf`, `readOnly`, `writeOnly`. `Whole` and `Referred` are
`resolve_schema` and `resolve_ref` for one schema, given what the members of its
combinations and the targets of references are one level deeper; the recursive functions
`Resolved`, over the members of combinations in the document (`Combined`), and `Target`,
over the schemas references lead to, supply those down to the depth where the code stops.
`RowSchema` finds the rows in a response, `AutoSelect` in an answer.

An identifier is a word followed by ordinals, so that the identifiers `a_b` with
ordinal 2 and `a_b_2` are the same value. A document is one GET operation: its responses,
its path, the other operations of that path, the paths next to it, and the parameters.
`Import` is all of `endpoints`' loop body and `create_sql`, `Create` PostgreSQL and the
validator, `FetchPage` an answer the document allows, `ProjectRow` a row with any of the
fields. `CreateSql` leaves out the sort of the columns by name.

### Definition

One source. A definition has a location, custom headers with literals or environment
references, and authentication with a secret that is a literal, a reference, both or
neither. `Plan`, `Discover`, `Apply`, `Delete`, `State` and `Export` are the handlers,
`Reenter` an administrator who completes an exported bundle, `SqlCreate`, `SqlAlter` and
`SqlDrop` what SQL users do to the server, which leaves the record alone; `Managed` is the join
by name that `state` and `export_bundle` make. `SetEnvironment` is a restart of PostgreSQL with
other variables; `ScanServer` and `ScanFails` are uses of the server, whose options are resolved
each time.
`Valid` is the validator of `model.rs`, `CreateServer` the options of `create_server_sql`,
`Accepted` and `Credentials` what `ServerConfig::from_options` refuses and makes of them,
`SpecCalls` the fetch of the document. `SpecCredentials` and `Hidden` are the two halves of
`for_spec_fetch`: without `spec_with_auth` the request keeps the headers user-agent and accept,
whoever set them, and the list of secrets to redact is empty. A host may answer with an error
that repeats all it was sent (`Repeated`). `calls` and `shown` are what the last step sent and
showed; `entered` (the definition the server is made of), `exported` and `imported` are history.

### ControlPlane

Each request is a handler with its transaction: `Connect` takes a connection,
`Check`, `Drop`, `Create`, `Import`, `Record` are the statements for one source of the
bundle, `Commit` ends the transaction and may lose its confirmation, `Interrupt` is any
error, which rolls back. Statements wait for the locks of others and see committed data
and their own changes. `Submit` is a new request, `SqlCreate` and `SqlDrop` SQL users.

### ImportDialog, SourceDialog

Handlers of `app.js` up to their `await` are one action, what follows it another. The
dialogs are modal. Requests are answered, or fail, in any order. Only tables of the last
discovery can be ticked (`offered`).

## 3. Runs

| Run | Instance | What it shows |
|---|---|---|
| `http_calls` | 2 calls, GET or POST; 2 retries; timeout of 1 tick, cap of 2; `Retry-After` 3 or absent | bounds, no repeated POST, retries of what is transient and only of that, success is real, refinement of `RemoteCall` also for attempts handled during a later call, termination |
| `scan` | 3 pages of at most 2 rows; limits none, 1, 3; two URL tokens, one refused, one cursor; 2 scans | order, completeness, loops, limits; refinement of `RelationScan` |
| `query_plan` | 5 rows in pages of 2, two columns; 7 tables, 7 ways to announce a page, all pairs of 5 quals, LIMIT 0 to 2, OFFSET 0, 1 | the answer is the one of the whole relation; later pages are of the same collection, filters and origin |
| `query_opaque` | the same with a predicate Wrappers cannot represent | **violated**: rows are lost |
| `write_statement` | 2 rows, pages of 1, keyset or by position, 3 calls over any number of statements, one foreign change; each call carried out at any time, an idempotent one up to twice | one row in doubt, no row twice, nothing left |
| `row_body` | 4 columns, two of them jsonb, and attrs, 3 modes, 6 maps, whitelists, 3 objects; templates with, without and with wrong placeholders or with dots of their own, every method, awkward identities | round trip, no key lost, nothing extra, only the row addressed |
| `import_table` | about 3 900 documents: rows of 4 names with item paths and bodies, with and without include_attrs; names that look generated or have no letter; schemas that refer to each other and themselves, combined in pairs, listed and enveloped; several statuses, media types and neighbouring paths | accepted, promised columns, rows found, fields read, bodies' properties written |
| `import_nested` | collections below a placeholder | **violated**: one row's statement addresses the collection |
| `control_plane` | 3 requests of 3, 2 connections, bundles in opposite orders, one statement of a SQL user | every request is answered; bundles take effect as a whole; records and tables agree; no replacement unasked |
| `definition` | 18 definitions over 2 literals, 1 variable set or not, 5 header names; 2 servers SQL users create or alter | nothing shown, the host of the document gets agent headers at most, no marker applied, credentials as asked, exports reproduce |
| `import_dialog` | 2 bundles, a broken text, 3 requests under way, 7 things done | what is applied is what is shown; the button returns |
| `source_preview` | 2 forms, 2 tables, 3 plans under way, 6 things done | **violated**: an older preview stays |

Why the bounds are enough. Two retries give a first, a middle and a last attempt, and a
`Retry-After` above the cap; the second call meets what the first one left on the wire.
Three pages with two URL tokens give loops of length one and two and a page limit that is
reached; the second scan starts on the state the first one left wherever it stopped.
Five rows in pages of two give a first, a middle and a short last page, in which a LIMIT
of two with OFFSET ends inside a page; a qual leaves out rows of each.
Two rows and pages of one give a page boundary inside a statement with a call on each
side of it, and the third call belongs to another statement, so that what an earlier one
left on the wire arrives during it.
Of the columns of `row_body` two may share a place, lie below each other or take the
identity's name; more of them meet in pairs only. One jsonb column is mapped above others, and
one is the identity. The schemas of `import_table` have
references to themselves, to each other and through three combinations; `MaxDepth` is 6
there and 32 in the code, and no schema of the instance without a cycle is that deep.
Three requests are two bundles in opposite orders, the smallest deadlock, and one that
waits for a connection. One variable is present or not at each use, two literals tell a
credential from another one, and one spelling differs by case only. Three requests under
way in a dialog allow an answer that is older than the last two events.

`CHECK_DEADLOCK FALSE` is set where the system may rest: no more calls to make, a
request answered, no more things to do in a bound. The run of `WriteStatement` checks
deadlock. Redirects are followed in no run; the theorems about `HttpExecute` cover them.

Fairness. `HttpExecute`: the client's own steps (its request timeout ends every wait);
nothing is asked of the origin. `ControlPlane`: the next statement of each handler,
while it stays possible, and PostgreSQL's deadlock detection; nothing is asked of SQL
users, of new requests or of the order in which connections are handed out.
`ImportDialog`: some request or file read that
is under way is answered or fails; nothing is asked of the administrator. Each follows
from a timeout, from the server or from the browser. The other modules check safety only.

## 4. Findings

Three runs end in a violation:

1. `fdw.rs:140`: LIMIT is pushed although a predicate that Wrappers could not represent
   is still to be applied (`query_opaque`).
2. `spec.rs:295`: a path with one placeholder is taken for the path of a row wherever the
   placeholder stands; for `/users/{user}/orders`, UPDATE and DELETE of an order address
   all orders of the user (`import_nested`).
3. `app.js:343`: the preview may be the one of an earlier selection: a table is unticked, the
   plan without it is answered before the one with it, and the latter stays on the screen
   (`source_preview`).

The models show more behaviours, which the properties name as exceptions. The first two are
disagreements with the documentation:

- `options.rs:260`: `docs/CONTROL_PLANE.md:90` says that API credentials and custom headers are
  not sent while the document is fetched, by default. `for_spec_fetch` keeps the headers
  user-agent and accept, and these names are allowed for custom headers, with a literal or from
  the environment; as it also clears the list of secrets, an error of the host that repeats them
  is not redacted (`IsAgentHeader` in `NothingShown` and `SpecHostGetsLittle`). The shortest
  behaviour is one `Discover` of a definition whose headers_env has user-agent.
- `db.rs:90`: `docs/CONTROL_PLANE.md:62` says that servers created only with SQL are marked
  unmanaged. Records are joined by name and outlive a server dropped in SQL: after `Apply`,
  `SqlDrop` and `SqlCreate` the server counts as managed (`Managed`), and its export describes
  the one before. `ExportReproduces` is therefore stated for exports of a server that was still
  the one on record (`exported` is None otherwise), and `RecordsMatch` lets SQL users leave a
  record behind.
- `spec.rs:833`: identifiers made unique by an ordinal may meet identifiers that already
  have that form: the properties `aB`, `a_b` and `a_b_2` give two columns `a_b_2`, and the
  import fails (`Lookalike` in `ImportAccepted`).
- `spec.rs:728`: keywords next to a `$ref` replace those of its target instead of being
  combined with them, and `anyOf` next to `oneOf` is left to the next time the schema is
  resolved, which for a request body never comes: properties are lost (`Overridden` in
  `PromisedColumns`). Branching cycles are expanded up to depth 32, each
  branch again; the model has the result and not the work.
- `sql.rs:128`: a literal secret next to an empty environment reference passes validation
  and is left out of CREATE SERVER (`Dropped` in `CredentialAsDefined`).
- `fdw.rs:634`: a column mapped below another one whose cell is a jsonb object is merged into
  that object without an error, while any other value there is one; the object reads back as
  the two of them (the third case of `RoundTrip`).
- `fdw.rs:518`: an empty identity addresses what the path leads to, and `.` and `..` are
  normalised away by the URL parser although they are percent-encoded; so are dot segments
  of a template, which the validator accepts: with `/{id}/..` every row has the address of
  the collection (`KeepsIdentity` in `RowAddressed`).
- `fdw.rs:871`: a qual replaces a static parameter of the same name (`Overwrites` in
  `AnswerIsExact`).
- `response.rs:90`: an origin whose next page is announced in a way `find_next` does not
  know ends after one page, without an error (`Fits`).
- `db.rs:226`: the check that a server belongs to the FDW and its drop are two statements
  without a lock between them; a server of another wrapper that takes the name in between
  is dropped. `ImplementsSourceRegistry` is therefore stated without SQL users.
- `spec.rs:93`: without `include_attrs` the option attrs_column is not written, and its
  default is `attrs`: a property of that name becomes the catch-all, and the validator
  refuses the table when a body declares it (`Unasked` in `ImportAccepted` and
  `ReadsItsField`).
- `app.js:368`: the end of a failed apply enables the button again even when nothing is
  selected by then, and the server takes an empty selection for all tables.

## 5. Theorems

Each module of proofs has an inductive invariant `IInv`, one lemma per action, and the
theorems that follow from it. They hold for all values of the constants that satisfy the
named assumptions of the modules; the bounds of the runs play no role.

- `HttpExecute_proofs`. `IInv` says where attempts can be: none is ahead of the loop
  variable, and those of a method that is not repeated are all the first one; a success
  being read was earned; time spent is within the budget of the attempts made; a call has as many
outcomes as attempts (`Counted`). From it:
  `MutationsAtMostOnce`, `CallsBounded`, `SuccessIsReal`, `RetriesJustified`, and
  `Refinement` of `RemoteCall`. Assumed: `MaxRetries` in 0..10, durations are naturals.
- `Scan_proofs`. `IInv` relates the fields to the pages served: the buffer is what was
  served to this scan, the next token is what the last page announced, the tokens seen
  are those announced so far, each once. From it: `RowsInOrder`, `NothingTruncated`,
  `TokensFollowed`, `NoFalseLoop`, `NoTokenFollowedTwice`, `RequestsBounded`,
  `RequestsNeeded`, and `Refinement` of `RelationScan`. Assumed: `MaxPages` is positive, the kinds of tokens are disjoint.
- `ControlPlane_proofs`. `IInv` says that a transaction holds exactly the servers of the
  sources it is done with and the one in hand, that nobody else holds them, and that what
  it will commit for them agrees with the request. From it: `MetadataAgrees`,
  `NoPartialSource`, `NothingReplacedUnasked` and, as only `Commit` changes what others see and
  then all that was asked for (`CommitTakesEffect`), `BundlesAreWhole` with SQL users, and without
  them
  (`MaxSql = 0`) `Refinement` of `SourceRegistry`.
- `WriteStatement_proofs`, three arguments, each on top of the one before. `IInv`: calls are
  made one after the other, those to come are unused, and between two calls the last one is
  carried out; from it `OneAtATime`. `OInv`: on keyset pages the rows of a statement's calls
  ascend, and those of the buffer and of the pages to come follow them (`Ascending`); from it
  `RowsOnce`. `NInv`: a row that nobody else touched has been reached or lies after the last
  row served, or, when pages are counted by position and an UPDATE moves nothing, after its
  place (`Covered`, `CoveredByPlace`); from it `NoRowLeft`. Assumed: identities are positive
  numbers, finitely many; pages are not empty.
- `RowBody_proofs`. `IInv` goes through the columns: those still to write are a suffix of the
  column order (`Rest`), each leaf of the body is a written column's or one of attrs
  (`Accounted`), a leaf of attrs is kept unless a written column is at or above it (`Kept`),
  and a written column is there unless a later one is at or above its place, or below it when
  its cell is an object (`Readable`).
  From it `TypeCorrect`, `BodyOfColumnsAndAttrs`, `AttrsKept`, `ReadsBack`, for any columns,
  maps, modes, attrs and rows. A second invariant, `Addressed`, says that from `begin_modify`
  on the address is the one the statement's template gives for the identity. `ParsedFacts`
  goes through the segments of a path: one without dots is kept as it is, one with dots ends
  up shorter or with an empty last segment; hence two identities never share an address
  (`AddressApart`), and `RowIsAddressed`. Assumed: paths are not empty, objects have no leaf
  below another, and what a cell of the identity column holds is an identity.
- `QueryPlan_proofs`. First facts about `Members` (what it returns, and that members of
  members are members of both), `AtMost` and `find_next` (each of the announcements is found,
  and only that). Then: every request of a scan is the first one with another origin, if that
  is allowed, and another position (`Resolved`: whatever address or cursor the page has
  announced); the rows it brings follow those before (`PageStep`); and what the origin leaves
  out of them, because of a pushed qual or LIMIT, the query leaves out itself (`PushedSafely`,
  `Evaluated`). `IInv` says that while pages are fetched the rows are the first `n` the request
  selects, and the token is the one of the page after `n`. From it `OneCollection` and
  `ExactAnswers`. Assumed: what `TablesAssumption`, `QueriesAssumption` and `OriginAssumption`
  say of options, quals and the origin.
- `ImportTable_proofs`. `IInv` says that the table is the one `endpoints` makes of the document
  (`Imported`), that it is ready exactly when PostgreSQL and the validator accept it, and what
  is known of the answer and the row that were read. The work is in lemmas about the operators:
  `Sorted` keeps a set of names, each once (`RankFacts`, `SortedFacts`); the columns of the
  properties are as many as there are, each with its own name but for lookalikes
  (`ColumnsOfFacts`); `unique_column_name` finds a name among one more ordinals than there are
  columns (`FreshName`); parameters and request properties only add columns of new names
  (`PathParameterFacts`, `EnsuredFacts`, `EnsureRequestFacts`, `GrownBy`); the columns that are
  written come from the bodies (`InferFacts`); `First` finds the same key in the document and in
  an answer whose kinds the document allows (`FirstFacts`, `WhereRowsAre`). From it
  `ImportIsAccepted`, `WritesAreDeclared`, `RowsAreAsImported`, `ColumnsReadTheirFields` and
  `RowPropertiesAreColumns`, for any document, any schemas and references among them, and any
  depth of resolution: none depends on what resolution finds, as the importer and the scan see
  it through the same function. Assumed:
  `NamesAssumption` and `DocumentsAssumption`, which say that names are sorted once each and that
  `sanitize_identifier` is injective on the names it leaves alone.
- Also in `ControlPlane_proofs`, which extends `ImportDialog` too: the plan in force is the
  plan shown, and requests carry a parsed bundle. From it `PanelShowsPlan` and `OnlyShownApplied`, for any order
  of answers.
- `Definition_proofs`. A server entered by a definition is what `CreateServer` makes of it,
  what is on record is that definition redacted, and a bundle describes the server it was
  exported from, whatever literals were entered into it since (`Seen`). From it:
  `SecretsStay`, `DocumentsGetLittle`, `MarkersAreReplaced`, `ExportsAreFaithful`, for any
  definitions, servers, environments and statements of SQL users. `CredentialsArrive` adds that of several spellings of a header the last
  one counts on both sides (`LastSpellingFacts`) and follows each secret from the definition
  to the request (`SecretCarried`, `AuthCarried`, `CredentialsCarried`). Assumed: markers are
  no secrets, definitions as they are entered have no marker for their secret and no secret
  without authentication, and the header of an API key is one of the names.

`TypeOK` of `HttpExecute`, `Scan`, `ControlPlane`, `WriteStatement` and `RowBody`, `DialogTypeOK`
and `NoNeedlessRequest` (no request is made once the limit is reached) are proved and not run, and
so is `ImplementsSourceRegistry`: the theorem holds for any bundles
and requests when SQL users leave the servers alone, and the run `control_plane` has one that
does not.

Only model-checked:

- all liveness (`EveryCallReturns`, `EveryRequestAnswered`, `ButtonReturns`), which is out of
  the prover's reach;
- `PromisedColumns`: that resolution reaches every member is an induction over references and
  combinations, along paths that may be cyclic. It holds where the depth at which the code stops
  is not reached, where no two members declare the property with the rows differently and where
  no object has items; the documents of the run are of that kind, with cycles. The other half is
  proved: what resolution leaves of the rows' schema is all columns (`RowPropertiesAreColumns`).

Recursion is written as recursive functions, so that modules with it can be proved about. Where
a theorem needs what such a function computes, a lemma shows first that its equation has a
solution (`WalkExists`, `AfterExists`), from the least number for which there would be none.

## 6. Not modelled

- Conversions between cells and JSON (`cell_to_json`, `json_to_cell`): one total function
  per type without state; `RowBody` treats values as what they are before and after, and
  objects as their leaves.
- Text: URL building, percent-encoding, the syntax of Link headers, JSON pointers, names
  and URLs, quoting of SQL, wording of errors. A URL is a record of its parts.
- The document's naming of tables, the PostgreSQL type of a column, the base URL taken
  from `servers`: choices without state, by tables of cases.
- The ranges of single options (`parse_usize` and the like); the modules that use an
  option assume its range by name.
- The names of PostgreSQL's system columns (`ctid`, `xmin`, ...): a property with such a name
  makes CREATE FOREIGN TABLE fail, and `ImportAccepted` is about the other names.
- SQL users who drop single tables of a source, or who hold the lock of a server in an open
  transaction: the requests that need it wait for as long as it stays open.
- The pool of HTTP clients: it holds nothing of a call.
- The control plane's authentication, configuration and start: a comparison, reading
  variables and starting tasks; `sample`, a read; routing.
- The list of sources, samples and removal in the browser: each is one request whose
  answer is written into an element of its own.
- Packaging, scripts, tests, benchmarks.

Hazards without a property are listed in `PROJECT.json` with the reason: a redirected
POST, a DELETE that is retried after it was carried out, and the exceptions above that no
property can hold. Two more belong to the protocol, and the documentation warns of them: a
PUT that was given up on may be carried out after a later one of the same row, and an UPDATE
writes over what another client changed since the row was read.

## 7. Plan

Done: all modules above, in the order `RemoteCall`/`HttpExecute`, `RelationScan`/`Scan`,
`SourceRegistry`/`ControlPlane`, `QueryPlan`, `WriteStatement`, `ImportTable`, `RowBody`,
`ImportDialog`, `SourceDialog`; then `PageLinks` with the pages of `QueryPlan`,
`ResponseSchema` with the reworked `ImportTable`, `RowAddress` under `RowBody`,
`Definition` and its proofs; then the proofs about `WriteStatement`'s rows, `RowBody` and
`QueryPlan`.

Last came the proofs about `ImportTable`, after its recursive operators had become functions, and
about the addresses of `RowAddress`.

What could follow: `PromisedColumns` for schemas whose depth is bounded by a measure of the
document; the other options of a table as one predicate, with the callbacks that rely on
them; `loadState` in the browser client next to an apply.
