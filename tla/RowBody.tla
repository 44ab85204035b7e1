------------------------------ MODULE RowBody -------------------------------
(***************************************************************************)
(* INSERT, UPDATE and DELETE of one row of a table with mutation options:  *)
(* the address of the row and the request body that are made of it         *)
(* (begin_modify, insert, update, delete and write_body in src/src/fdw.rs),*)
(* and what a scan later reads of the object the origin keeps              *)
(* (column_value).                                                         *)
(*                                                                         *)
(* A JSON object is a function from the paths of its leaves, sequences of  *)
(* names, to their values: no leaf lies below another one.  The cells of   *)
(* jsonb columns may be objects too.  Objects without leaves, below others *)
(* or in a cell, and arrays are left out, and object_path is not set.      *)
(***************************************************************************)
EXTENDS RowAddress

CONSTANTS
  ColumnOrder,  \* the columns of the table, in order
  Identity,     \* the column that identifies a row
  JsonColumns,  \* the columns of type jsonb, the catch-all column aside
  Values,       \* scalar values of the cells and of the leaves of objects
  Null,         \* SQL NULL and JSON null
  NotAnObject,  \* any other JSON value
  Objects,      \* JSON objects for the attrs column and the jsonb columns
  Identities,   \* the identities rows may have
  Jobs          \* table options (with column_map), a kind of statement and a row identity

Columns == Range(ColumnOrder)
Nothing == <<>>     \* the object without leaves, and the value of a missing field

Paths == Seq(STRING) \ {<<>>}

IsObject(object) ==
  /\ object = [p \in DOMAIN object |-> object[p]] /\ DOMAIN object \subseteq Paths
  /\ \A p, q \in DOMAIN object : IsPrefix(p, q) => p = q

ASSUME ColumnsAssumption ==
  /\ ColumnOrder \in Seq(STRING)
  /\ Identity \in Columns /\ Attrs \in Columns /\ Identity # Attrs
ASSUME ObjectsAssumption ==
  /\ {Null, NotAnObject} \cap Objects = {} /\ Values \cap Objects = {}
  /\ \A object \in Objects : IsObject(object)
ASSUME IdentitiesAssumption == Values \subseteq Identities
ASSUME JobsAssumption ==
  \A job \in Jobs :
    /\ IsOptions(job.table) /\ job.table.rowid_column \in {"", Identity}
    /\ DOMAIN job.table.column_map \subseteq Columns /\ Range(job.table.column_map) \subseteq Paths
    /\ job.statement \in Kinds /\ job.rowid \in Identities

VARIABLES
  table,      \* the options of the table, then TableConfig
  statement,  \* insert, update or delete
  rowid,      \* the identity of the row to change
  row,        \* the cells of the row: of all columns, or of those of SET
  attrs,      \* the cell of the attrs column: an object, Null or NotAnObject
  pc,         \* validate, begin, columns, send, stored, rejected, failed
  left,       \* columns still to write
  body,       \* the request body, then the object the origin keeps
  address     \* the path of the request

\* cell_to_json: a jsonb cell is the value it holds, and NULL is null.
CellsOf(column) == Values \cup {Null} \cup (IF column \in JsonColumns THEN Objects \ {Nothing} ELSE {})

given == <<table, statement, rowid, row, attrs>>
vars == <<given, pc, left, body, address>>

Init ==
  /\ \E job \in Jobs : table = job.table /\ statement = job.statement /\ rowid = job.rowid
  /\ \E columns \in IF statement = "delete" THEN {{}} ELSE SUBSET (Columns \ {Attrs}) :
       row \in {r \in [columns -> UNION {CellsOf(c) : c \in columns}] : \A c \in columns : r[c] \in CellsOf(c)}
  /\ attrs \in IF statement = "delete" THEN {Null} ELSE Objects \cup {Null, NotAnObject}
  /\ pc = "validate" /\ left = <<>> /\ body = Nothing /\ address = <<>>

\* CREATE FOREIGN TABLE: the validator.
CreateTable ==
  /\ pc = "validate"
  /\ pc' = IF OptionsAccepted(table) THEN "begin" ELSE "rejected"
  /\ UNCHANGED <<given, left, body, address>>

-----------------------------------------------------------------------------
\* write_body.

\* What the body starts from, or an error.
Start(mode, cell) ==
  IF mode \in {"", "columns"} THEN Nothing
  ELSE IF cell = Null THEN (IF mode = "attrs" THEN NotAnObject ELSE Nothing)
  ELSE cell

\* The identity in the address: of the row to change, or of the row to insert, which has
\* none unless its cell is a scalar (cell_path_value).
TargetRowid ==
  IF statement # "insert" THEN rowid
  ELSE IF table.rowid_column \in DOMAIN row /\ row[table.rowid_column] \in Values THEN row[table.rowid_column]
  ELSE Null

\* begin_modify, then what insert, update and delete ask for before the body: the
\* operation is enabled, and there is an identity where the address needs one.
Possible ==
  /\ statement \in DOMAIN table.endpoints
  /\ PathPlaceholders(table.endpoints[statement]) # {} => TargetRowid # Null

Begin ==
  /\ pc = "begin"
  /\ LET start == Start(table.write_mode, attrs) IN
       \/ ~Possible /\ pc' = "failed" /\ UNCHANGED <<left, body, address>>
       \/ /\ Possible
          /\ address' = Address(table.endpoints[statement], TargetRowid)
          /\ \/ statement = "delete" /\ pc' = "send" /\ UNCHANGED <<left, body>>
             \/ statement # "delete" /\ start = NotAnObject /\ pc' = "failed" /\ UNCHANGED <<left, body>>
             \/ /\ statement # "delete" /\ start # NotAnObject
                /\ pc' = "columns"
                /\ body' = start
                /\ left' = IF table.write_mode = "attrs" THEN <<>> ELSE ColumnOrder
  /\ UNCHANGED given

\* Seeded fault: the identity is a column like any other.
FaultSkipped(column) ==
  \/ column \notin DOMAIN row \/ column = Attrs
  \/ \E columns \in table.write_columns : column \notin columns \cup {Identity}

\* The row may not have the column; the identity and the catch-all are left out, and what
\* is not in write_columns.
Skipped(column) ==
  \/ column \notin DOMAIN row \/ column \in {table.rowid_column, Attrs}
  \/ \E columns \in table.write_columns : column \notin columns

Target(column) == IF column \in DOMAIN table.column_map THEN table.column_map[column] ELSE <<column>>

\* A leaf that the path would have to go through: what is not an object there.
Conflicts(object, path) == \E p \in DOMAIN object : p # path /\ IsPrefix(p, path)

\* The leaves a value has once it stands at a path.
Leaves(path, value) ==
  [p \in IF value \in Objects THEN {path \o q : q \in DOMAIN value} ELSE {path} |->
     IF value \in Objects THEN value[SubSeq(p, Len(path) + 1, Len(p))] ELSE value]

\* Seeded fault: the top-level value is replaced.
FaultInserted(object, path, value) ==
  LET new == Leaves(path, value)
  IN  [p \in {q \in DOMAIN object : Head(q) # Head(path)} \cup DOMAIN new |->
         IF p \in DOMAIN new THEN new[p] ELSE object[p]]

\* insert_write_value, insert_pointer_tokens: whatever was at the path is gone, and what
\* is above it, in an object of attrs or of an earlier cell, is entered.
Inserted(object, path, value) ==
  LET new == Leaves(path, value)
  IN  [p \in {q \in DOMAIN object : ~IsPrefix(path, q)} \cup DOMAIN new |->
         IF p \in DOMAIN new THEN new[p] ELSE object[p]]

WriteColumn ==
  /\ pc = "columns" /\ left # <<>>
  /\ LET column == Head(left) IN
       \/ Skipped(column) /\ left' = Tail(left) /\ UNCHANGED <<pc, body>>
       \/ /\ ~Skipped(column) /\ Conflicts(body, Target(column))
          /\ pc' = "failed" /\ UNCHANGED <<left, body>>
       \/ /\ ~Skipped(column) /\ ~Conflicts(body, Target(column))
          /\ body' = Inserted(body, Target(column), row[column])
          /\ left' = Tail(left) /\ UNCHANGED pc
  /\ UNCHANGED <<given, address>>

\* An empty body is an error.
EndOfRow ==
  /\ pc = "columns" /\ left = <<>>
  /\ pc' = IF body = Nothing THEN "failed" ELSE "send"
  /\ UNCHANGED <<given, left, body, address>>

\* mutation_request and execute_mutation; the origin keeps the object it is sent.
Send ==
  /\ pc = "send"
  /\ pc' = "stored"
  /\ UNCHANGED <<given, left, body, address>>

Next == CreateTable \/ Begin \/ WriteColumn \/ EndOfRow \/ Send

Spec == Init /\ [][Next]_vars

-----------------------------------------------------------------------------
\* column_value, on the object kept.

\* Seeded fault: a pointer read as a name.
FaultFound(object, path) == IF <<Last(path)>> \in DOMAIN object THEN object[<<Last(path)>>] ELSE Nothing

\* The leaf at a path, the object there, or Nothing.
Found(object, path) ==
  IF path \in DOMAIN object THEN object[path]
  ELSE LET below == {p \in DOMAIN object : IsPrefix(path, p)}
       IN  [p \in {SubSeq(q, Len(path) + 1, Len(q)) : q \in below} |-> object[path \o p]]

ColumnValue(column) == Found(body, Target(column))

-----------------------------------------------------------------------------
\* Properties.

Written ==
  IF table.write_mode = "attrs" THEN {}
  ELSE {c \in DOMAIN row \ {Identity, Attrs} : \A columns \in table.write_columns : c \in columns}

Later(c, d) ==
  \E i, j \in DOMAIN ColumnOrder : i < j /\ ColumnOrder[i] = c /\ ColumnOrder[j] = d

\* TypeOK: what is being built is an object, whatever the order of the columns.
TypeOK == IsObject(body) /\ left \in Seq(Columns)

\* Once stored, every column written reads as the value written, unless a later column
\* has replaced what it is part of.  The exception: a cell that is an object is entered by
\* a later column mapped below it, without an error, and reads as the two of them.
RoundTrip ==
  pc = "stored" =>
    \A c \in Written :
      \/ ColumnValue(c) = row[c]
      \/ \E d \in Written : Later(c, d) /\ IsPrefix(Target(d), Target(c))
      \/ row[c] \in Objects /\ \E d \in Written : Later(c, d) /\ IsPrefix(Target(c), Target(d))

\* "the body starts with the attrs object and selected typed columns overwrite
\* matching properties ... and still preserves API-specific keys".
AttrsPreserved ==
  pc = "stored" /\ table.write_mode \in {"attrs", "merge"} /\ attrs \in Objects =>
    \A p \in DOMAIN attrs :
      \/ p \in DOMAIN body /\ body[p] = attrs[p]
      \/ \E c \in Written : IsPrefix(Target(c), p)

\* "The row identity and the catch-all JSONB column are never included": all that is
\* sent comes from the cell of a column that may be written, at its place, or from attrs
\* when the mode says so.
BodyAccounted ==
  pc = "stored" =>
    /\ (body = Nothing) = (statement = "delete")
    /\ \A p \in DOMAIN body :
         \/ \E c \in Written : p \in DOMAIN Leaves(Target(c), row[c]) /\ body[p] = Leaves(Target(c), row[c])[p]
         \/ table.write_mode \in {"attrs", "merge"} /\ attrs \in Objects /\ p \in DOMAIN attrs /\ body[p] = attrs[p]

\* Exceptions: dots are not kept in a URL, neither those of a template nor an identity that is
\* one dot or two; an empty identity has the address of what the path leads to.
KeepsIdentity(endpoint, identity) ==
  /\ Dots(identity) = 3
  /\ \A s \in Range(endpoint.segments) : s.parameter = "" => ~IsDots(<<s.before, "", s.after>>)

\* A table whose options were accepted addresses rows: where a statement changes a row,
\* the path is that of the row and of no other one.
RowAddressed ==
  pc = "stored" /\ (statement # "insert" \/ PathPlaceholders(table.endpoints["insert"]) # {})
  /\ KeepsIdentity(table.endpoints[statement], TargetRowid) =>
    {i \in Identities : Address(table.endpoints[statement], i) = address} = {TargetRowid}
=============================================================================
