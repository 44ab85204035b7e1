---------------------------- MODULE MCQueryPlan -----------------------------
(* Instances of QueryPlan for TLC. *)
EXTENDS QueryPlan

Row(id, kind) == [id |-> id, kind |-> kind]

MCCollection == <<Row(1, 1), Row(3, 2), Row(2, 1), Row(4, 2), Row(5, 1)>>

MCTable(placeholders, omitted, params, map, limit) ==
  [placeholders |-> placeholders, omitted |-> omitted, query_params |-> params,
   query_param_map |-> map, limit_param |-> limit, cursor_param |-> TRUE, cursor_path |-> "",
   page_size |-> NoLimit, pagination |-> "auto"]

MCFilters == [id |-> "id", type |-> "kind"]

\* A collection with and without limit_param, page_size, cursor_path and a static
\* parameter, one that maps a column to a parameter of another name, two lookups, and
\* a table whose pages are not followed.
MCTables ==
  {MCTable({}, {}, <<>>, <<>>, TRUE), [MCTable({}, {}, "type" :> 1, "kind" :> "type", TRUE) EXCEPT !.cursor_path = "/cursor"],
   [MCTable({}, {}, <<>>, "id" :> "unknown", FALSE) EXCEPT !.cursor_param = FALSE],
   [MCTable({}, {}, <<>>, <<>>, FALSE) EXCEPT !.page_size = 1, !.cursor_path = "/paging/after"],
   [MCTable({}, {}, <<>>, <<>>, TRUE) EXCEPT !.pagination = "none"],
   MCTable({"id"}, {}, <<>>, "kind" :> "type", TRUE), MCTable({"kind"}, {"kind"}, <<>>, <<>>, TRUE)}

MCConventions == {"unpaged", "link", "next", "query", "cursor", "pointer", "elsewhere"}

MCQual(field, operator, values, or) ==
  [field |-> field, operator |-> operator, values |-> values, or |-> or]

MCQualSet ==
  {MCQual("id", "=", {3}, FALSE), MCQual("kind", "=", {1}, FALSE), MCQual("kind", "=", {2}, FALSE),
   MCQual("kind", "<>", {2}, FALSE), MCQual("id", "=", {1, 2}, TRUE)}

MCQuals == {<<>>} \cup {<<p>> : p \in MCQualSet} \cup {<<p, q>> : p \in MCQualSet, q \in MCQualSet}

MCQuery(quals, opaque, sorts, count, offset) ==
  [quals |-> quals, opaque |-> opaque, sorts |-> sorts, count |-> count, offset |-> offset]

MCQueries ==
  {MCQuery(quals, Rows, sorts, count, offset) :
     quals \in MCQuals, sorts \in BOOLEAN, count \in {NoLimit, 0, 1, 2}, offset \in {0, 1}}

\* One more conjunct, that no Qual represents.
MCOpaqueQueries ==
  {MCQuery(quals, {row \in Rows : row.kind = 2}, FALSE, count, 0) :
     quals \in {<<>>} \cup {<<q>> : q \in MCQualSet}, count \in {NoLimit, 1}}
=============================================================================
