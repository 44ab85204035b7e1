----------------------------- MODULE ImportTable ----------------------------
(***************************************************************************)
(* IMPORT FOREIGN SCHEMA for one GET operation of an OpenAPI document      *)
(* (src/src/spec.rs): the columns it makes of the properties of the rows,  *)
(* of the path parameters and of the request bodies, the mutations it      *)
(* pairs with it, the table options it generates (create_sql), what        *)
(* PostgreSQL and the validator say of them, where a scan of the table     *)
(* finds its rows and what the columns read.                               *)
(*                                                                         *)
(* An identifier is a sequence: a word, then the ordinals appended to it,  *)
(* so that <<"a", 2>> is a_2 wherever it comes from.  Identifiers are      *)
(* shorter than 63 bytes, and no property name begins with a slash.        *)
(***************************************************************************)
EXTENDS ResponseSchema, FiniteSets

CONSTANTS
  NameOrder,   \* property and parameter names, sorted
  Sanitized,   \* sanitize_identifier of each: an identifier, or <<>>
  Plain,       \* the names that are identifiers as they stand
  Documents    \* what a document says of the operation

Names == Range(NameOrder)

\* A segment of a path: its text without the placeholders, their names, and whether its
\* braces do not match.
Literal(text) == [text |-> text, parameters |-> <<>>, malformed |-> FALSE]
Placeholder(parameter) == [text |-> "", parameters |-> <<parameter>>, malformed |-> FALSE]

\* responses: for each documented status, its content; path: the segments of the path of
\* the operation; operations: the request content of the other methods of that path;
\* paths: the other paths, sorted, with their operations; parameters: the declared path
\* parameters, of the path and then of the operation; writable and include_attrs: options.
IsDocument(d) ==
  /\ DOMAIN d = {"responses", "path", "operations", "paths", "parameters", "writable", "include_attrs"}
  /\ \A status \in DOMAIN d.responses : d.responses[status] \in Seq(Range(d.responses[status]))
  /\ d.parameters \in Seq(Names)
  /\ \A i \in DOMAIN d.path : Range(d.path[i].parameters) \subseteq Names

IsIdentifier(s) == Head(s) \in STRING /\ Tail(s) \in Seq(Nat) /\ s = <<Head(s)>> \o Tail(s)

\* No name twice in the order; a name that is an identifier is the only such one of its identifier.
ASSUME NamesAssumption ==
  /\ NameOrder \in Seq(STRING) /\ \A i, j \in DOMAIN NameOrder : NameOrder[i] = NameOrder[j] => i = j
  /\ DOMAIN Sanitized = Names /\ \A n \in Names : Sanitized[n] = <<>> \/ IsIdentifier(Sanitized[n])
  /\ Plain \subseteq Names /\ \A n \in Plain : Sanitized[n] # <<>>
  /\ \A m, n \in Plain : Sanitized[m] = Sanitized[n] => m = n
ASSUME DocumentsAssumption == \A d \in Documents : IsDocument(d)

VARIABLES
  document,
  pc,        \* import, create, ready, rejected
  table,     \* columns and options of the generated statement
  body,      \* an answer of the origin
  selected,  \* where its rows are taken from, {} when it is refused
  fields,    \* the fields of a row
  read       \* for each column, the field its value comes from, or None

vars == <<document, pc, table, body, selected, fields, read>>

None == "none"

-----------------------------------------------------------------------------
\* Names.

Suffixed(identifier, ordinal) == Append(identifier, ordinal)

OrElse(identifier, fallback) == IF identifier = <<>> THEN <<fallback>> ELSE identifier

\* The i-th of some names is the one with i of them up to it.
Sorted(names) ==
  LET places == {i \in DOMAIN NameOrder : NameOrder[i] \in names}
  IN  [n \in 1..Cardinality(places) |->
         NameOrder[CHOOSE i \in places : Cardinality({j \in places : j <= i}) = n]]

\* Seeded fault: no count of the names given.
FaultNotCounted(bases, i) == bases[i]

\* unique_identifier: the second occurrence of a base is base_2.
UniqueIdentifier(bases, i) ==
  LET occurrence == Cardinality({j \in 1..i : bases[j] = bases[i]})
  IN  IF occurrence = 1 THEN bases[i] ELSE Suffixed(bases[i], occurrence)

Used(columns) == {column.name : column \in Range(columns)}

\* unique_column_name: the first ordinal that is not in use.
UniqueColumnName(base, columns) ==
  IF base \notin Used(columns) THEN base
  ELSE LET free == {n \in 2..(Len(columns) + 2) : Suffixed(base, n) \notin Used(columns)}
       IN  Suffixed(base, CHOOSE n \in free : \A m \in free : n <= m)

-----------------------------------------------------------------------------
\* Columns.

Column(name, json) == [name |-> name, json |-> json]

\* The properties an answer may have.
Readable(schema) == {n \in DOMAIN PropertiesOf(schema) : ~WriteOnly(schema, n)}

\* columns_from_schema, for the names of the properties in order.
ColumnsOf(names) ==
  LET bases == [i \in DOMAIN names |-> OrElse(Sanitized[names[i]], "field")]
  IN  [i \in DOMAIN names |-> Column(UniqueIdentifier(bases, i), names[i])]

ColumnsFromSchema(row) == ColumnsOf(Sorted(Readable(ResolveSchema(row))))

\* Parameters whose identifier is not a column yet; the last one of a name is kept.
PathParameterColumns(parameters, existing) ==
  LET name == [p \in Range(parameters) |-> OrElse(Sanitized[p], "parameter")]
      kept == {parameters[i] : i \in {k \in DOMAIN parameters :
                 /\ name[parameters[k]] \notin Used(existing)
                 /\ \A j \in DOMAIN parameters : j > k => name[parameters[j]] # name[parameters[k]]}}
      names == Sorted(kept)
  IN  [i \in DOMAIN names |-> Column(name[names[i]], names[i])]

\* The properties a request may have: a body without a structured schema has none.
RequestProperties(operations, method) ==
  LET schemas == IF method \in DOMAIN operations THEN MediaSchema(operations[method]) ELSE {}
  IN  UNION {{n \in DOMAIN PropertiesOf(schema) : ~ReadOnly(schema, n)} :
               schema \in {ResolveSchema(s) : s \in schemas}}

\* ensure_request_columns, for one property.
Ensured(columns, json) ==
  IF \E column \in Range(columns) : column.json = json THEN columns
  ELSE Append(columns, Column(UniqueColumnName(OrElse(Sanitized[json], "field"), columns), json))

EnsureRequestColumns(columns, names) ==
  LET jsons == Sorted(names)
      after[i \in 0..Len(jsons)] == IF i = 0 THEN columns ELSE Ensured(after[i - 1], jsons[i])
  IN  after[Len(jsons)]

ScanColumns(d, row) ==
  LET columns == ColumnsFromSchema(row)
  IN  columns \o PathParameterColumns(d.parameters, columns)

-----------------------------------------------------------------------------
\* Mutations.

\* template_parameters: the placeholders of a path; {} when braces do not match.
TemplateParameters(path) ==
  IF \E i \in DOMAIN path : path[i].malformed THEN {}
  ELSE {FlattenSeq([i \in DOMAIN path |-> path[i].parameters])}

IsIdentity(segment) == segment.text = "" /\ Len(segment.parameters) = 1

\* find_item_path: of the paths directly below, the first that is one placeholder; none
\* at all when one before it is malformed.
FindItemPath(d) ==
  LET below == {item \in Range(d.paths) : Len(item.path) = Len(d.path) + 1 /\ IsPrefix(d.path, item.path)}
      judged == {item \in below : Last(item.path).malformed \/ IsIdentity(Last(item.path))}
  IN  {item \in First(d.paths, judged) : ~Last(item.path).malformed}

\* The path of one row: a path with a placeholder is taken for its own.
ItemPath(d, parameters) ==
  IF parameters # <<>> THEN {[path |-> d.path, operations |-> d.operations]} ELSE FindItemPath(d)

RowidColumn(parameter, columns) ==
  LET identifier == IF parameter \in Names THEN Sanitized[parameter] ELSE <<parameter>>
      named == First(columns, {c \in Range(columns) : c.json = parameter \/ c.name = identifier})
      usual == First(columns, {c \in Range(columns) : c.json = "id" \/ c.name = <<"id">>})
      found == {c.name : c \in IF named # {} THEN named ELSE usual}
  IN  IF found = {} THEN <<>> ELSE CHOOSE name \in found : TRUE

\* Seeded fault: the identity is written too.
FaultWithIdentity(columns, names, rowid) == {c.name : c \in {x \in Range(columns) : x.json \in names}}

\* The columns that stand for a request body, but for the identity: of the columns for a
\* property the first one is found, also when a parameter has its name.
Written(columns, names, rowid) ==
  {c.name : c \in UNION {First(columns, {x \in Range(columns) : x.json = n}) : n \in names}} \ {rowid}

NoMutations == [rowid |-> <<>>, item |-> <<>>, insert |-> FALSE, update |-> FALSE, delete |-> FALSE, write_columns |-> {}]

\* The columns a request adds, even when in the end it has none to write.
WithRequest(columns, operations, method) ==
  EnsureRequestColumns(columns, RequestProperties(operations, method))

\* infer_mutations, for at most one placeholder in the path: the columns of a scan,
\* extended by those of the requests, and the options.  PATCH is tried before PUT.
Infer(d, parameters, scanned) ==
  LET items == ItemPath(d, parameters)
      item == IF items = {} THEN [path |-> <<>>, operations |-> <<>>] ELSE CHOOSE i \in items : TRUE
      placeholders == FlattenSeq([i \in DOMAIN item.path |-> item.path[i].parameters])
      rowid == RowidColumn(IF items = {} THEN "id" ELSE placeholders[1], scanned)
      posted == IF parameters = <<>> THEN RequestProperties(d.operations, "post") ELSE {}
      inserting == EnsureRequestColumns(scanned, posted)
      patching == WithRequest(inserting, item.operations, "patch")
      patched == Written(patching, RequestProperties(item.operations, "patch"), rowid)
      columns == IF patched # {} THEN patching ELSE WithRequest(patching, item.operations, "put")
      updated == IF patched # {} THEN patched
                 ELSE Written(columns, RequestProperties(item.operations, "put"), rowid)
      inserted == Written(columns, posted, rowid)
      deletes == "delete" \in DOMAIN item.operations
  IN  IF rowid = <<>> THEN [columns |-> scanned, mutations |-> NoMutations]
      ELSE [columns |-> columns,
            mutations |->
              IF inserted # {} \/ updated # {} \/ deletes
              THEN [rowid |-> rowid, item |-> item.path, insert |-> inserted # {},
                    update |-> updated # {}, delete |-> deletes,
                    write_columns |-> inserted \cup updated]
              ELSE NoMutations]

InferMutations(d, scanned) ==
  LET single == {names \in TemplateParameters(d.path) : Len(names) <= 1}
  IN  IF ~d.writable \/ single = {} THEN [columns |-> scanned, mutations |-> NoMutations]
      ELSE Infer(d, CHOOSE names \in single : TRUE, scanned)

-----------------------------------------------------------------------------
\* create_sql.

AttrsName(columns) ==
  IF <<"attrs">> \notin Used(columns) THEN <<"attrs">> ELSE UniqueColumnName(<<"_attrs">>, columns)

\* Seeded fault: no column_map.
FaultMapped(column) == FALSE

\* column_map has the columns whose name is not the one of the property.
Mapped(column) == column.json \notin Plain \/ column.name # Sanitized[column.json]

\* attrs_column is an option only with include_attrs, and attrs by default.  (The order of
\* the columns, which endpoints sorts by name, is that of their discovery here: nothing
\* below looks at it.)
CreateSql(include_attrs, rows, columns, mutations) ==
  [columns |-> columns, mutations |-> mutations,
   map |-> {c \in Range(columns) : Mapped(c)},
   attrs_defined |-> include_attrs \/ columns = <<>>,
   attrs_column |-> IF include_attrs THEN AttrsName(columns) ELSE <<"attrs">>,
   response_path |-> rows.response_path, object_path |-> rows.object_path]

\* One turn of the loop of endpoints, and its statement.
Endpoint(d, rows, inferred) == CreateSql(d.include_attrs, rows, inferred.columns, inferred.mutations)

NoTable ==
  [columns |-> <<>>, mutations |-> NoMutations, map |-> {}, attrs_defined |-> FALSE,
   attrs_column |-> <<"attrs">>, response_path |-> <<>>, object_path |-> <<>>]

Imported(d) ==
  LET rows == RowsOf(d.responses)
  IN  Endpoint(d, rows, InferMutations(d, ScanColumns(d, rows.row)))

Import ==
  /\ pc = "import"
  /\ pc' = "create"
  /\ table' = Imported(document)
  /\ UNCHANGED <<document, body, selected, fields, read>>

-----------------------------------------------------------------------------
\* CREATE FOREIGN TABLE.

\* PostgreSQL: no two columns of one name (external).
Distinct(t) ==
  /\ Cardinality(Used(t.columns)) = Len(t.columns)
  /\ t.attrs_defined => t.attrs_column \notin Used(t.columns)

\* The validator: TableConfig::from_options, where it depends on the import.
Valid(t) ==
  /\ t.mutations.rowid \notin t.mutations.write_columns
  /\ t.attrs_column \notin t.mutations.write_columns

Create ==
  /\ pc = "create"
  /\ pc' = IF Distinct(table) /\ Valid(table) THEN "ready" ELSE "rejected"
  /\ UNCHANGED <<document, table, body, selected, fields, read>>

-----------------------------------------------------------------------------
\* A scan: where the rows of a page are, and the field each column takes its value from.

\* column_value: the mapped name; else its own name; else a name like it.
ColumnValue(t, column, row) ==
  LET own == {n \in row \cap Plain : Sanitized[n] = column.name}
      alike == Sorted({n \in row : Sanitized[n] = column.name})
  IN  IF column \in t.map THEN (IF column.json \in row THEN column.json ELSE None)
      ELSE IF own # {} THEN CHOOSE n \in own : TRUE
      ELSE IF alike # <<>> THEN Head(alike) ELSE None

\* The first page: an answer the document allows.
FetchPage ==
  /\ pc = "ready" /\ selected = {}
  /\ body' \in UNION {Bodies(schema) : schema \in ResponseSchemaOf(document.responses)}
  /\ selected' = Selection(table.response_path, body')
  /\ UNCHANGED <<document, pc, table, fields, read>>

\* The schema of a row.
RowOf(d) == ResolveSchema(RowsOf(d.responses).row)

\* project_row.
Projected(t, row) ==
  [c \in Range(t.columns) |-> IF c.name = t.attrs_column THEN "row" ELSE ColumnValue(t, c, row)]

\* A row of it, with some of the fields its schema has.
ProjectRow ==
  /\ selected # {}
  /\ fields' \in SUBSET DOMAIN PropertiesOf(RowOf(document))
  /\ read' = Projected(table, fields')
  /\ UNCHANGED <<document, pc, table, body, selected>>

-----------------------------------------------------------------------------

Init ==
  /\ document \in Documents
  /\ pc = "import"
  /\ table = NoTable
  /\ body = NoBody /\ selected = {} /\ fields = {} /\ read = <<>>

Next == Import \/ Create \/ FetchPage \/ ProjectRow

Spec == Init /\ [][Next]_vars

-----------------------------------------------------------------------------
\* Properties.

Created == pc # "import"

\* Exception: unique_identifier does not look at the names that properties have of
\* themselves, so that the second a_b and a property a_b_2 make two columns a_b_2.
Lookalike(columns) ==
  \E c, other \in Range(columns), ordinal \in 2..Len(columns) :
    OrElse(Sanitized[c.json], "field") = Suffixed(OrElse(Sanitized[other.json], "field"), ordinal)

\* Exception: without include_attrs there is no attrs_column, whose default is attrs, and
\* a column may have that name.
Unasked(column) == ~document.include_attrs /\ column = <<"attrs">>

\* PostgreSQL and the validator accept the table, so that one table never fails the
\* import: columns of the rows, of parameters, of requests and the catch-all have
\* different names although each kind is named in a way of its own, and neither the
\* identity nor the catch-all is written.
ImportAccepted ==
  pc = "rejected" => Lookalike(table.columns) \/ \E name \in table.mutations.write_columns : Unasked(name)

\* In a row with all the fields an answer may have, every column has the value of its
\* own property, under whatever name, and so nothing a row holds is read as something
\* else.  (In a row without the field, a column may read a field with a name like its own.)
ReadsItsField ==
  \A c \in DOMAIN read :
    ~Unasked(c.name) /\ (fields = Readable(RowOf(document)) \/ c \in table.map) =>
      read[c] = IF c.json \in fields THEN c.json ELSE None

\* What the requests of the operation and of its item path may hold.
Accepted ==
  RequestProperties(document.operations, "post")
  \cup UNION {RequestProperties(item.operations, method) : method \in {"patch", "put"},
                item \in {[operations |-> document.operations]} \cup FindItemPath(document)}

\* "JSON request schemas supply the body whitelist": the columns a statement may
\* write are those of the properties of the request bodies, each under its name,
\* and never the identity of the row.
WritesDeclared ==
  Created =>
    \A name \in table.mutations.write_columns :
      \E c \in Range(table.columns) :
        c.name = name /\ c.json \in Accepted /\ name # table.mutations.rowid

\* The rows a scan takes out of an answer are those whose schema gave the columns,
\* although the importer looks for them in the document and the scan, when that left no
\* response_path, in each answer.  (A property of unknown type may be an envelope.)
RowsAsImported ==
  selected # {} =>
    LET schemas == {ResolveSchema(schema) : schema \in ResponseSchemaOf(document.responses)}
        unknown == {schema \in schemas : \E key \in Range(EnvelopeKeys) \cap DOMAIN PropertiesOf(schema) :
                      TypeOf(ResolveSchema(PropertiesOf(schema)[key])) = "unknown"}
    IN  unknown = {} => selected = {table.response_path}

\* The members a schema is made of, directly or not, however it was resolved.
Closure(schemas) ==
  LET Parts(s) == {Components[name] : name \in {Get(s, "ref", None)} \cap DOMAIN Components}
                  \cup UNION {Range(Get(s, key, <<>>)) : key \in Combinations}
      within[n \in Nat] ==
        IF n = 0 THEN schemas ELSE LET nearer == within[n - 1] IN nearer \cup UNION {Parts(s) : s \in nearer}
  IN  within[Cardinality(Combined) + Cardinality(DOMAIN Components)]

\* The schemas of what a path leads to, and of the members of a list.
At(schemas, path) ==
  LET Step(reached, key) == Closure({PropertiesOf(s)[key] : s \in {x \in reached : key \in DOMAIN PropertiesOf(x)}})
      Each(reached) == reached \cup Closure({s.items : s \in {x \in reached : Has(x, "items")}})
  IN  FoldLeft(LAMBDA reached, key : Each(Step(reached, key)), Each(Closure(schemas)), path)

\* Exceptions: what stands next to a reference replaces what it says, and anyOf next to
\* oneOf is left to the next time that the schema is resolved, if there is one.
Overridden(s) ==
  \/ Has(s, "ref") /\ Has(s, "properties")
  \/ Has(s, "oneOf") /\ Has(s, "anyOf")

\* A property that any member of the schema of the rows declares, however deep among
\* references and combinations and in cycles, is a column, unless it is write-only
\* where it is declared.  (Not among the documents: members that declare the property with
\* the rows differently, of which the first is heard, and objects that have items.)
PromisedColumns ==
  Created =>
    LET members == At(ResponseSchemaOf(document.responses), table.response_path \o table.object_path)
    IN  (\A s \in members : ~Overridden(s)) =>
          \A s \in members : \A n \in DOMAIN PropertiesOf(s) :
            \/ \E c \in Range(table.columns) : c.json = n
            \/ \E t \in members : n \in DOMAIN PropertiesOf(t) /\ WriteOnly(t, n)

\* "PATCH (preferred) or PUT plus DELETE on a directly nested {identity} item path":
\* the path a statement changes rows at ends in the identity of the row.
ChangesOneRow ==
  Created /\ (table.mutations.update \/ table.mutations.delete) => IsIdentity(Last(table.mutations.item))
=============================================================================
