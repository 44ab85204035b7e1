--------------------------- MODULE ResponseSchema ---------------------------
(***************************************************************************)
(* The schemas of an OpenAPI document (src/src/spec.rs): how references    *)
(* and combinations are resolved, which schema describes the rows of a     *)
(* response, and where in an answer the scan looks for those rows          *)
(* (src/src/response.rs).                                                  *)
(*                                                                         *)
(* A schema is a record with some of the fields ref, type, properties (a   *)
(* function to schemas), items, allOf, oneOf, anyOf (sequences), readOnly  *)
(* and writeOnly; keywords that change neither columns nor rows are left   *)
(* out.                                                                    *)
(***************************************************************************)
EXTENDS Integers, Sequences, SequencesExt, TLC

CONSTANTS
  Components,  \* the schemas references lead to, by name
  Combined,    \* the members of combinations, wherever one stands in the document
  MaxDepth     \* of references and combinations; 32 in the code

Combinations == {"allOf", "oneOf", "anyOf"}

ASSUME MaxDepthAssumption == MaxDepth \in Nat \ {0}

\* An empty schema, which is also what is too deep or cyclic.
Anything == <<>>

Has(schema, key) == key \in DOMAIN schema

Get(schema, key, default) == IF Has(schema, key) THEN schema[key] ELSE default

Without(schema, key) == [k \in DOMAIN schema \ {key} |-> schema[k]]

PropertiesOf(schema) == Get(schema, "properties", <<>>)

\* schema_type.
TypeOf(schema) == Get(schema, "type", IF Has(schema, "properties") THEN "object" ELSE "unknown")

\* The first element that is in a set, if any.
First(sequence, set) ==
  {sequence[i] : i \in {j \in DOMAIN sequence : sequence[j] \in set /\ \A k \in 1..(j - 1) : sequence[k] \notin set}}

-----------------------------------------------------------------------------
\* Resolution.

\* resolve_ref, when it is known what the targets are at the next depth: what stands next
\* to a reference replaces what the target says.
Referred(schema, depth, seen, target) ==
  IF depth >= MaxDepth THEN Anything
  ELSE IF ~Has(schema, "ref") THEN schema
  ELSE IF schema.ref \in seen THEN Anything
  ELSE IF schema.ref \notin DOMAIN Components THEN schema
  ELSE Without(schema, "ref") @@ target[schema.ref, depth + 1, seen \cup {schema.ref}]

Target[name \in DOMAIN Components, depth \in 1..MaxDepth, seen \in SUBSET DOMAIN Components] ==
  Referred(Components[name], depth, seen, Target)

ResolveRef(schema, depth) == Referred(schema, depth, {}, Target)

\* Seeded fault: the properties of the first member hide those of the others.
FaultFirstMember(target, source) == target @@ source

\* merge_schema_objects: the first one to say something is heard.
Merge(target, source) ==
  (IF Has(source, "properties")
   THEN [properties |-> PropertiesOf(target) @@ source.properties, type |-> "object"]
   ELSE <<>>) @@ target @@ source

\* The members of a combination, then the rest of the schema.
Combine(schema, key, member) ==
  IF Has(schema, key)
  THEN Merge(FoldLeft(Merge, Anything, [i \in DOMAIN schema[key] |-> member[schema[key][i]]]),
             Without(schema, key))
  ELSE schema

\* resolve_schema, when it is known what the members of combinations are at the next depth:
\* those of allOf, then those of oneOf or else anyOf, come before what the schema itself says.
Whole(schema, depth, member) ==
  LET all == Combine(ResolveRef(schema, depth), "allOf", member)
  IN  Combine(all, IF Has(all, "oneOf") THEN "oneOf" ELSE "anyOf", member)

Resolved[depth \in 1..MaxDepth] ==
  [schema \in Combined |-> IF depth = MaxDepth THEN Anything ELSE Whole(schema, depth, Resolved[depth + 1])]

ResolveSchema(schema) == Whole(schema, 0, Resolved[1])

\* Properties whose schema, resolved, is read-only; or says itself that it is write-only.
ReadOnly(schema, name) == Get(ResolveSchema(PropertiesOf(schema)[name]), "readOnly", FALSE)

WriteOnly(schema, name) == Get(PropertiesOf(schema)[name], "writeOnly", FALSE)

-----------------------------------------------------------------------------
\* Contents: sequences of media types, each JSON or not, with their schemas.

MediaSchema(content) ==
  LET json == First(content, {media \in Range(content) : media.json})
  IN  IF content = <<>> THEN {} ELSE {media.schema : media \in IF json # {} THEN json ELSE {Head(content)}}

\* response_schema: the first of these statuses that is documented, then any other success.
Statuses == <<"200", "201", "202", "2XX", "default", "203", "204", "205", "206">>

ResponseSchemaOf(responses) == UNION {MediaSchema(responses[status]) : status \in First(Statuses, DOMAIN responses)}

-----------------------------------------------------------------------------
\* Rows.

EnvelopeKeys == <<"data", "results", "items", "records", "entries", "features", "@graph">>

Items(schema) == IF Has(schema, "items") THEN ResolveSchema(schema.items) ELSE Anything

\* Seeded fault: only a list is taken for an envelope.
FaultListsOnly(schema) ==
  First(EnvelopeKeys, {key \in DOMAIN PropertiesOf(schema) : TypeOf(ResolveSchema(PropertiesOf(schema)[key])) = "array"})

\* The key of the rows, if any: the first that is a list or an object.
Envelope(schema) ==
  First(EnvelopeKeys, {key \in DOMAIN PropertiesOf(schema) :
                         TypeOf(ResolveSchema(PropertiesOf(schema)[key])) \in {"array", "object"}})

\* GeoJSON: the columns are the properties of each feature.
Enclosed(key, row) ==
  LET inner == IF key = "features" /\ Has(PropertiesOf(row), "properties")
               THEN ResolveSchema(row.properties.properties) ELSE Anything
  IN  IF TypeOf(inner) = "object"
      THEN [row |-> inner, response_path |-> <<key>>, object_path |-> <<"properties">>]
      ELSE [row |-> row, response_path |-> <<key>>, object_path |-> <<>>]

\* row_schema: a list is rows, an envelope holds them, anything else is one row.
RowSchema(raw) ==
  LET schema == ResolveSchema(raw)
      key == CHOOSE k \in Envelope(schema) : TRUE
      wrapper == ResolveSchema(PropertiesOf(schema)[key])
  IN  IF TypeOf(schema) = "array" THEN [row |-> Items(schema), response_path |-> <<>>, object_path |-> <<>>]
      ELSE IF Envelope(schema) = {} THEN [row |-> schema, response_path |-> <<>>, object_path |-> <<>>]
      ELSE Enclosed(key, IF TypeOf(wrapper) = "array" THEN Items(wrapper) ELSE wrapper)

NoRow == [row |-> Anything, response_path |-> <<>>, object_path |-> <<>>]

\* What the operation's answers are made of.
RowsOf(responses) ==
  LET schemas == ResponseSchemaOf(responses)
  IN  IF schemas = {} THEN NoRow ELSE RowSchema(CHOOSE schema \in schemas : TRUE)

-----------------------------------------------------------------------------
\* Answers: a list, or an object with the kinds of some of its members.

Kinds(schema) ==
  CASE TypeOf(schema) \in {"array", "object"} -> {TypeOf(schema), "null"}
    [] TypeOf(schema) = "unknown" -> {"array", "object", "scalar", "null"}
    [] OTHER -> {"scalar", "null"}

NoBody == [kind |-> "none", members |-> <<>>]

\* External: the answers a schema allows.
Bodies(raw) ==
  LET schema == ResolveSchema(raw)
      properties == PropertiesOf(schema)
      Objects(names) ==
        {[kind |-> "object", members |-> members] :
           members \in {m \in [names -> {"array", "object", "scalar", "null"}] :
                          \A n \in names : m[n] \in Kinds(ResolveSchema(properties[n]))}}
  IN  IF TypeOf(schema) = "array" THEN {[kind |-> "array", members |-> <<>>]}
      ELSE UNION {Objects(names) : names \in SUBSET DOMAIN properties}

\* auto_select.
AutoSelect(body) ==
  LET found == First(EnvelopeKeys, {key \in DOMAIN body.members : body.members[key] \in {"array", "object"}})
  IN  IF found = {} THEN <<>> ELSE <<CHOOSE key \in found : TRUE>>

\* normalize_page: where the rows of an answer are taken from; {} is an error.
Selection(response_path, body) ==
  IF response_path = <<>> THEN {AutoSelect(body)}
  ELSE {path \in {response_path} : Head(path) \in DOMAIN body.members}
=============================================================================
