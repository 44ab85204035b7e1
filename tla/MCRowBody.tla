----------------------------- MODULE MCRowBody ------------------------------
(* Instances of RowBody for TLC. *)
EXTENDS RowBody, TLC

CONSTANTS u, v

MCOrder == <<"id", "x", "y", "z", "attrs">>

MCObjects == {<<"x">> :> u, (<<"m", "k">> :> u @@ <<"id">> :> v), (<<"m">> :> u @@ <<"z">> :> v)}

MCIdentities == {u, v, "", ".", ".."}

\* Columns of their own names, below one object, one below the other, and in one place.
MCMaps ==
  {<<>>, "x" :> <<"m", "x">> @@ "y" :> <<"m", "y">>, "x" :> <<"m", "x">> @@ "y" :> <<"m">>,
   "x" :> <<"m">> @@ "y" :> <<"m", "x">>, "y" :> <<"x">>, "x" :> <<"m", "k">> @@ "id" :> <<"z">>}

MCList == Endpoint(<<Segment("users", "", "")>>)
MCItem == Endpoint(<<Segment("users", "", ""), Segment("", "id", "")>>)

MCOptions ==
  [rowid_column |-> "id", rowid_parameter |-> "", endpoints |-> "insert" :> MCList @@ "update" :> MCItem,
   methods |-> <<>>, write_mode |-> "", write_columns |-> {}, column_map |-> <<>>]

\* Bodies: every mode, map and whitelist; those that do not go together are rejected.
MCBodies ==
  {[table |-> [MCOptions EXCEPT !.write_mode = mode, !.column_map = map, !.write_columns = columns],
    statement |-> "insert", rowid |-> u] :
     mode \in {"columns", "attrs", "merge"}, map \in MCMaps, columns \in {{}, {{"x", "y"}}}}
  \cup {[table |-> [MCOptions EXCEPT !.write_columns = {{"x", column}}], statement |-> "update", rowid |-> u] :
          column \in {"id", "attrs"}}

\* Addresses: templates with one placeholder, two, none, another one, or none that match,
\* and with dots of their own.
MCEndpoints ==
  {MCList, MCItem, [MCItem EXCEPT !.absolute = TRUE], [MCItem EXCEPT !.malformed = TRUE],
   Endpoint(<<Segment("users", "", ""), Segment("", "key", "")>>),
   Endpoint(<<Segment("users", "", ""), Segment("", "id", ".json")>>),
   Endpoint(<<Segment("users", "", ""), Segment("", "id", ""), Segment("state", "", "")>>),
   Endpoint(<<Segment("", "id", ""), Segment("", "key", "")>>),
   Endpoint(<<Segment("x-", "id", ""), Segment("", "id", "")>>),
   Endpoint(<<Segment("users", "", ""), Segment(".", "id", ""), Segment("state", "", "")>>),
   Endpoint(<<Segment("", "id", ""), Segment("..", "", "")>>)}

MCMethods == {<<>>, "delete" :> "DELETE", "delete" :> "POST", "update" :> "PUT", "insert" :> "PUT"}

MCAddresses ==
  {[table |-> [MCOptions EXCEPT !.rowid_column = column, !.rowid_parameter = parameter,
                                !.endpoints = kind :> endpoint, !.methods = methods],
    statement |-> "delete", rowid |-> identity] :
     column \in {"", "id"}, parameter \in {"", "key"}, kind \in {"delete", "update"},
     endpoint \in MCEndpoints, methods \in MCMethods, identity \in MCIdentities}
  \cup
  {[table |-> [MCOptions EXCEPT !.endpoints = kind :> endpoint], statement |-> kind, rowid |-> identity] :
     kind \in {"insert", "update"}, endpoint \in MCEndpoints, identity \in {u, ".."}}
  \cup {[table |-> [MCOptions EXCEPT !.endpoints = <<>>], statement |-> "delete", rowid |-> u]}

MCJobs == MCBodies \cup MCAddresses
=============================================================================
