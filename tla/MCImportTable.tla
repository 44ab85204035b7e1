---------------------------- MODULE MCImportTable ---------------------------
(* Instances of ImportTable for TLC: names, schemas and documents. *)
EXTENDS ImportTable

\* Two names of one identifier, one that is a candidate for the catch-all, one that looks
\* like a generated name, and the keys that envelopes have.
MCRowNames == {"aB", "a_b", "attrs", "id"}
MCLookalikes == {"aB", "a_b", "a_b_2", "id"}
MCKeys == {"data", "features", "properties", "results"}
MCUnnamed == {"-", "--", "field"}
MCOrder == <<"-", "--", "aB", "a_b", "a_b_2", "attrs", "data", "features", "field", "id", "properties", "results">>
MCPlain == (MCRowNames \cup MCLookalikes \cup MCKeys \cup {"field"}) \ {"aB"}
MCSanitized == [n \in {"-", "--"} |-> <<>>] @@ "aB" :> <<"a_b">> @@ "a_b_2" :> <<"a_b", 2>> @@ [n \in MCPlain |-> <<n>>]

-----------------------------------------------------------------------------
\* Schemas.

MCText == [type |-> "string"]
MCObject(names, hidden) ==
  [type |-> "object",
   properties |-> [n \in names |-> IF n \in hidden THEN [type |-> "string", writeOnly |-> TRUE] ELSE MCText]]
MCListOf(schema) == [type |-> "array", items |-> schema]
MCRef(name) == [ref |-> name]
MCContent(schema) == <<[json |-> TRUE, schema |-> schema]>>

\* Thing and Node are combined of others, Node and Tree of each other, Self of itself.
MCComponents ==
  "Base" :> MCObject({"id"}, {}) @@
  "Thing" :> [allOf |-> <<MCRef("Base"), MCObject({"aB", "attrs"}, {"attrs"})>>] @@
  "Node" :> [allOf |-> <<MCRef("Tree"), MCObject({"a_b"}, {})>>] @@
  "Tree" :> [properties |-> "id" :> MCText, allOf |-> <<MCRef("Node")>>] @@
  "Self" :> MCRef("Self") @@
  "Stamp" :> [type |-> "string", readOnly |-> TRUE]

MCMembers == {MCRef(name) : name \in {"Base", "Thing", "Node", "Self", "Unknown"}} \cup {MCObject({"a_b", "id"}, {})}

\* Rows: members alone, two of them combined, and the exceptions.
MCRows ==
  MCMembers
  \cup {key :> <<x, y>> : key \in {"allOf", "oneOf", "anyOf"}, x \in MCMembers, y \in MCMembers}
  \cup {("properties" :> ("attrs" :> MCText)) @@ (key :> <<x>>) : key \in {"allOf", "anyOf"}, x \in MCMembers}
  \cup {[ref |-> "Base", properties |-> "a_b" :> MCText],
        [oneOf |-> <<MCRef("Thing")>>, anyOf |-> <<MCRef("Node")>>]}

\* The members of those combinations.
MCCombined == MCMembers \cup {MCRef("Tree"), MCObject({"aB", "attrs"}, {"attrs"}), MCObject({"a_b"}, {})}

\* What may stand under the key of an envelope.
MCWrapped == {MCText, MCRef("Unknown"), MCRef("Thing"), MCListOf(MCRef("Thing")), MCListOf(MCObject({"a_b"}, {}))}
MCFeature == [type |-> "object", properties |-> "id" :> MCText @@ "properties" :> MCRef("Thing")]

MCAnswers ==
  MCRows \cup {MCListOf(row) : row \in MCRows}
  \cup {[properties |-> "data" :> MCListOf(row)] : row \in MCRows}
  \cup {[properties |-> "data" :> x @@ "results" :> y @@ "id" :> MCText] : x \in MCWrapped, y \in MCWrapped}
  \cup {[properties |-> "features" :> MCListOf(x) @@ "results" :> y] : x \in {MCFeature, MCRef("Thing")}, y \in MCWrapped}

-----------------------------------------------------------------------------
\* Documents.

MCUsers == <<Literal("users")>>
MCUser(parameter) == MCUsers \o <<Placeholder(parameter)>>

MCDocument(responses, path, operations, paths, parameters, writable) ==
  [responses |-> responses, path |-> path, operations |-> operations, paths |-> paths,
   parameters |-> parameters, writable |-> writable, include_attrs |-> TRUE]

MCWithoutAttrs(d) == [d EXCEPT !.include_attrs = FALSE]

\* The operation of a method whose request has these properties; {} is no operation.
MCOperation(method, names) ==
  IF names = {} THEN <<>> ELSE method :> MCContent(MCObject(names, {}))

MCDelete(deletes) == IF deletes THEN "delete" :> <<>> ELSE <<>>

MCListing(names, hidden) == "200" :> MCContent(MCListOf(MCObject(names, hidden)))

\* Lists with an item path; lists without one, or that are not to be written; item paths.
MCItemPath(identity, patch, put, deletes) ==
  <<[path |-> MCUser(identity), operations |-> MCOperation("patch", patch) @@ MCOperation("put", put) @@ MCDelete(deletes)]>>

MCList(properties, hidden, post, paths, writable) ==
  MCDocument(MCListing(properties, hidden), MCUsers, MCOperation("post", post), paths, <<>>, writable)

MCPosts == {{}, {"aB", "attrs"}, {"a_b", "id"}}
MCHidden == {{}, {"a_b"}}

MCLists ==
  {MCList(properties, hidden, post, paths, writable) :
     properties \in SUBSET MCRowNames, hidden \in MCHidden, post \in MCPosts, writable \in BOOLEAN,
     paths \in {<<>>, MCItemPath("id", {"a_b"}, {}, TRUE)}}

MCTables ==
  {MCList(properties, hidden, post, MCItemPath(identity, patch, put, deletes), TRUE) :
     properties \in SUBSET MCRowNames, hidden \in MCHidden, identity \in {"aB", "id"}, post \in MCPosts,
     patch \in {{}, {"id"}, {"a_b"}}, put \in {{}, {"aB", "id"}}, deletes \in BOOLEAN}
  \cup
  {MCDocument("200" :> MCContent(MCObject(properties, {})), MCUser(identity),
     MCOperation("put", put) @@ MCDelete(TRUE), <<>>, parameters, TRUE) :
     properties \in SUBSET MCRowNames, parameters \in {<<"id">>, <<"aB">>, <<"aB", "a_b">>, <<"a_b", "aB">>},
     identity \in {"aB", "id"}, put \in {{}, {"aB", "attrs", "id"}}}

\* Names like generated ones, in the rows and in a request.
MCSimilar ==
  {MCDocument(MCListing(properties, hidden), MCUsers, MCOperation("post", post), <<>>, parameters, TRUE) :
     properties \in SUBSET MCLookalikes, hidden \in {{}, {"a_b"}}, post \in SUBSET MCLookalikes,
     parameters \in {<<>>, <<"a_b_2", "a_b">>}}

\* Names without a letter, in the rows, in a request and of parameters.
MCFallbacks ==
  {MCDocument(MCListing(properties \cup {"id"}, {}), MCUsers, MCOperation("post", post), <<>>, parameters, TRUE) :
     properties \in SUBSET MCUnnamed, post \in SUBSET MCUnnamed, parameters \in {<<>>, <<"-">>, <<"--", "field">>}}

\* One answer each, under one status or several, in one media type or two.
MCShapes ==
  {MCDocument(responses, MCUsers, <<>>, <<>>, <<>>, FALSE) :
     responses \in
       {"200" :> MCContent(answer) : answer \in MCAnswers}
       \cup {"204" :> <<>> @@ "default" :> <<[json |-> FALSE, schema |-> MCText], [json |-> TRUE, schema |-> MCRef("Thing")]>>,
             "404" :> MCContent(MCRef("Base")), "206" :> MCContent(MCRef("Thing"))}}

\* Paths next to each other: malformed, deeper, with more text than the placeholder.
MCBelow ==
  <<[path |-> MCUsers \o <<[text |-> "{", parameters |-> <<>>, malformed |-> TRUE]>>, operations |-> MCDelete(TRUE)],
    [path |-> MCUsers \o <<[text |-> ".json", parameters |-> <<"id">>, malformed |-> FALSE]>>, operations |-> MCDelete(TRUE)],
    [path |-> MCUser("id") \o <<Literal("orders")>>, operations |-> MCDelete(TRUE)],
    [path |-> MCUser("id"), operations |-> "patch" :> MCContent([properties |-> "aB" :> MCText @@ "id" :> MCRef("Stamp")])]>>

MCNested ==
  {MCDocument(MCListing({"aB", "id"}, {}), path, MCDelete(TRUE), SetToSortSeq({MCBelow[i] : i \in chosen},
       LAMBDA x, y : \E i, j \in chosen : i < j /\ MCBelow[i] = x /\ MCBelow[j] = y), <<>>, TRUE) :
     path \in {MCUsers, MCUser("aB") \o MCUser("id")}, chosen \in SUBSET DOMAIN MCBelow}

MCDocuments ==
  MCLists \cup MCTables \cup MCSimilar \cup MCFallbacks \cup MCShapes \cup MCNested
  \cup {MCWithoutAttrs(d) : d \in MCLists}

\* The orders of one user: the collection is below a placeholder.
MCOrders ==
  {MCDocument(MCListing({"id"}, {}), MCUser("a_b") \o <<Literal("orders")>>, MCOperation("put", put) @@ MCDelete(deletes),
     <<[path |-> MCUser("a_b") \o <<Literal("orders"), Placeholder("id")>>, operations |-> MCOperation("patch", patch) @@ MCDelete(TRUE)]>>,
     <<"a_b">>, writable) :
     put \in {{}, {"aB"}}, patch \in {{}, {"aB"}}, deletes \in BOOLEAN, writable \in BOOLEAN}
  \cup MCTables
=============================================================================
