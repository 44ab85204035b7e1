----------------------------- MODULE RowAddress -----------------------------
(***************************************************************************)
(* The mutation options of a foreign table: what the validator makes of    *)
(* them (TableConfig::from_options, parse_mutation_operation in            *)
(* src/src/options.rs), and the address of a row that the templates give   *)
(* (mutation_endpoint, mutation_request in src/src/fdw.rs).                *)
(*                                                                         *)
(* An option that is not set is ""; one set to an empty text is left out.  *)
(* A template is a sequence of segments with at most one placeholder each; *)
(* it has no query.                                                        *)
(***************************************************************************)
EXTENDS Integers, Sequences, SequencesExt

CONSTANTS Attrs  \* attrs_column

Kinds == {"insert", "update", "delete"}

Segment(before, parameter, after) == [before |-> before, parameter |-> parameter, after |-> after]

\* An endpoint: absolute (http:// or https://), with braces that do not match, or a path.
Endpoint(segments) == [absolute |-> FALSE, malformed |-> FALSE, segments |-> segments]

\* endpoints and methods: for some of the kinds, the option; write_columns: {} or one set.
IsOptions(o) ==
  /\ DOMAIN o.endpoints \subseteq Kinds /\ DOMAIN o.methods \subseteq Kinds
  /\ \A kind \in DOMAIN o.endpoints : o.endpoints[kind].segments \in Seq(Range(o.endpoints[kind].segments))
  /\ o.write_mode \in {"", "columns", "attrs", "merge"}

-----------------------------------------------------------------------------
\* The validator.

AllowedMethods ==
  [insert |-> {"POST", "PUT"}, update |-> {"PATCH", "PUT"}, delete |-> {"DELETE"}]

\* rowid_parameter is rowid_column by default.
RowidParameter(o) == IF o.rowid_parameter # "" THEN o.rowid_parameter ELSE o.rowid_column

\* path_placeholders.
PathPlaceholders(endpoint) == {s.parameter : s \in Range(endpoint.segments)} \ {""}

\* Seeded fault: a template without a placeholder will do.
FaultAnyTemplate(o, kind) == PathPlaceholders(o.endpoints[kind]) \subseteq {RowidParameter(o)}

\* Only the identity may be asked for, and an update or delete has to ask for it.
AsksForIdentity(o, kind) ==
  LET placeholders == PathPlaceholders(o.endpoints[kind]) IN
  /\ placeholders \subseteq {RowidParameter(o)}
  /\ kind \in {"update", "delete"} => placeholders # {}

\* parse_mutation_operation.
OperationAccepted(o, kind) ==
  IF kind \notin DOMAIN o.endpoints THEN kind \notin DOMAIN o.methods
  ELSE /\ ~o.endpoints[kind].absolute
       /\ kind \in DOMAIN o.methods => o.methods[kind] \in AllowedMethods[kind]
       /\ ~o.endpoints[kind].malformed
       /\ AsksForIdentity(o, kind)

\* The part of from_options about writes.
OptionsAccepted(o) ==
  /\ o.rowid_parameter # "" => o.rowid_column # ""
  /\ \A kind \in Kinds : OperationAccepted(o, kind)
  /\ DOMAIN o.endpoints # {} => o.rowid_column # ""
  /\ DOMAIN o.endpoints = {} => o.write_mode = "" /\ o.write_columns = {}
  /\ o.write_mode = "attrs" => o.write_columns = {}
  /\ \A columns \in o.write_columns : columns \cap {o.rowid_column, Attrs} = {}

-----------------------------------------------------------------------------
\* Addresses.

\* The segments of a path, each with the part that was substituted.
Substituted(endpoint, rowid) ==
  [i \in DOMAIN endpoint.segments |->
     LET s == endpoint.segments[i]
     IN  <<s.before, IF s.parameter = "" THEN "" ELSE rowid, s.after>>]

\* How many dots a text is, and 3 when it is anything else.
Dots(text) == IF text = "" THEN 0 ELSE IF text = "." THEN 1 ELSE IF text = ".." THEN 2 ELSE 3

\* Percent-encoded or not, a URL has no segment that is one dot or two.
DotsOf(segment) == Dots(segment[1]) + Dots(segment[2]) + Dots(segment[3])
IsDots(segment) == DotsOf(segment) \in {1, 2}
Empty == <<"", "", "">>

\* Url::parse (external), for one more segment: . is left out, .. removes the segment
\* before it, and at the end both leave an empty segment.
Followed(path, segment, final) ==
  LET kept == IF DotsOf(segment) = 2 /\ path # <<>> THEN Front(path) ELSE path
  IN  IF ~IsDots(segment) THEN Append(path, segment) ELSE IF final THEN Append(kept, Empty) ELSE kept

ParsedPath(segments) ==
  LET n == Len(segments)
      path[i \in 0..n] == IF i = 0 THEN <<>> ELSE Followed(path[i - 1], segments[i], i = n)
  IN  path[n]

\* mutation_endpoint and endpoint_url; the identity is encoded as one segment.
Address(endpoint, rowid) == ParsedPath(Substituted(endpoint, rowid))
=============================================================================
