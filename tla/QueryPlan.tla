----------------------------- MODULE QueryPlan ------------------------------
(***************************************************************************)
(* What begin_scan (src/src/fdw.rs) makes of a query: the endpoint, the    *)
(* query parameters and the number of rows it asks the origin for, before  *)
(* PostgreSQL evaluates the same query again on the rows it gets; and how  *)
(* the pages of the answer are followed (PageLinks).                       *)
(*                                                                         *)
(* The origin is assumed to honour the parameters it documents (Filters),  *)
(* to ignore the others, and to serve its pages by one of the conventions  *)
(* of Conventions. Origins that change or loop, the limit on pages and the *)
(* executor's other callbacks are the business of module Scan.             *)
(***************************************************************************)
EXTENDS Integers, FiniteSets, PageLinks, TLC

CONSTANTS
  Columns,     \* columns of the foreign table, which name fields of the rows
  Collection,  \* the rows the origin has, in its order: functions of Columns
  Filters,     \* the parameters the origin filters by, and the field of each
  PageRows,    \* rows in a page of the origin, unless it is asked for fewer
  Conventions, \* how the origin announces pages: see Announcement below
  AllowCrossOrigin, \* allow_cross_origin_pagination
  Tables,      \* table options: see Table below
  Queries      \* the queries: see Query below

NoLimit == -1

Rows == {Collection[i] : i \in DOMAIN Collection}

\* A conjunct of WHERE that Wrappers can represent; `or` is use_or (IN, ANY).
Qual == [field : Columns, operator : {"=", "<>"}, values : SUBSET Int, or : BOOLEAN]

\* `opaque` stands for a conjunct no Qual can represent: the rows it accepts.
Query ==
  [quals : Seq(Qual), opaque : SUBSET Rows, sorts : BOOLEAN,
   count : Nat \cup {NoLimit}, offset : Nat]

\* The parameter a column is passed in.
ParamOf(options, column) ==
  IF column \in DOMAIN options.query_param_map THEN options.query_param_map[column] ELSE column

\* placeholders of the endpoint; query_params and query_param_map as functions of
\* parameters and of columns; limit_param, cursor_param: is one set; page_size, if a
\* parameter asks for it; cursor_path a pointer or ""; omitted: fields the answers leave
\* out. A column is not mapped to the parameter that filters by another one.
ASSUME CollectionAssumption == Collection \in Seq([Columns -> Int])
ASSUME TablesAssumption ==
  \A options \in Tables :
    /\ options.placeholders \subseteq Columns /\ options.omitted \subseteq options.placeholders
    /\ DOMAIN options.query_params \subseteq DOMAIN Filters
    /\ \A c \in Columns : ParamOf(options, c) \in DOMAIN Filters => Filters[ParamOf(options, c)] = c
    /\ options.limit_param \in BOOLEAN /\ options.cursor_param \in BOOLEAN
    /\ options.page_size \in (Nat \ {0}) \cup {NoLimit} /\ options.pagination \in {"auto", "none"}
    /\ options.cursor_path \in STRING
ASSUME QueriesAssumption ==
  /\ Queries \subseteq Query
  /\ \A asked \in Queries : \A i \in DOMAIN asked.quals :
       asked.quals[i].or \/ \E value \in asked.quals[i].values : asked.quals[i].values = {value}
ASSUME OriginAssumption ==
  /\ PageRows \in Nat \ {0} /\ AllowCrossOrigin \in BOOLEAN
  /\ Conventions \subseteq {"unpaged", "link", "next", "query", "cursor", "pointer", "elsewhere"}

VARIABLES
  pc,         \* begin, fetch, evaluate, done, failed
  table,      \* TableConfig
  query,      \* quals, sorts and limit
  convention, \* the one of this origin
  initial,    \* initial_request, or NoRequest
  current,    \* current_url with its query: the last request
  next,       \* the token of the next page, if there is one
  injected,   \* values given to the fields the rows leave out
  maximum,    \* maximum_rows
  rows        \* the rows the scan has fetched, then the answer to the query

vars == <<pc, table, query, convention, initial, current, next, injected, maximum, rows>>

\* A request: where it goes, and its query: filters, the rows asked for in a page,
\* and the rows already served to the reader of its collection.
NoRequest == [origin |-> "base", path |-> <<>>, params |-> <<>>, limit |-> NoLimit, after |-> 0]

\* The table's options know how its origin announces pages; an origin whose way is
\* none of these, or is not in the options, ends after its first page.
Fits(options, way) ==
  /\ way = "unpaged" => options.page_size = NoLimit
  /\ way # "unpaged" => options.pagination = "auto"
  /\ way = "pointer" => options.cursor_path = "/paging/after"

Init ==
  /\ pc = "begin" /\ table \in Tables /\ query \in Queries
  /\ convention \in {way \in Conventions : Fits(table, way)}
  /\ initial = NoRequest /\ current = NoRequest /\ next = {}
  /\ injected = <<>> /\ maximum = NoLimit /\ rows = <<>>

-----------------------------------------------------------------------------
\* begin_scan.

\* qual_value gives a value.
Usable(qual) == qual.operator = "=" /\ ~qual.or

ValueOf(qual) == CHOOSE value \in qual.values : TRUE

\* Positions of the quals that give column c a value; the last one wins.
Positions(c) == {i \in DOMAIN query.quals : query.quals[i].field = c /\ Usable(query.quals[i])}

LastOf(positions) == ValueOf(query.quals[CHOOSE i \in positions : \A j \in positions : j <= i])

\* substitute_path_parameters.
Bound == \A c \in table.placeholders : Positions(c) # {}

Path == [c \in table.placeholders |-> LastOf(Positions(c))]

\* Positions of the quals that set parameter p, path placeholders excepted.
Setting(p) ==
  {i \in DOMAIN query.quals :
     LET qual == query.quals[i]
     IN  Usable(qual) /\ qual.field \notin table.placeholders /\ ParamOf(table, qual.field) = p}

\* query_params, overwritten by set_query_value.
Params ==
  [p \in DOMAIN table.query_params \cup {p \in DOMAIN Filters : Setting(p) # {}} |->
     IF Setting(p) # {} THEN LastOf(Setting(p)) ELSE table.query_params[p]]

\* Seeded fault: LIMIT pushed without OFFSET.
FaultWithoutOffset ==
  IF query.count # NoLimit /\ query.quals = <<>> /\ ~query.sorts THEN query.count ELSE NoLimit

\* LIMIT + OFFSET, when nothing local can discard or reorder rows.
Maximum ==
  IF query.count # NoLimit /\ query.quals = <<>> /\ ~query.sorts
  THEN query.count + query.offset ELSE NoLimit

\* The rows asked for in a page: limit_param, unless page_size alone is known.
RowsAsked ==
  IF table.limit_param /\ Maximum # NoLimit THEN Maximum ELSE table.page_size

\* A placeholder has no value: an empty relation, and no request.
BeginUnbound ==
  /\ pc = "begin" /\ ~Bound
  /\ pc' = "evaluate"
  /\ maximum' = 0
  /\ UNCHANGED <<table, query, convention, initial, current, next, injected, rows>>

BeginScan ==
  /\ pc = "begin" /\ Bound
  /\ pc' = "fetch"
  /\ initial' = [NoRequest EXCEPT !.path = Path, !.params = Params, !.limit = RowsAsked]
  /\ injected' = Path
  /\ maximum' = Maximum
  /\ UNCHANGED <<table, query, convention, current, next, rows>>

-----------------------------------------------------------------------------
\* The origin (external).

\* The subsequence of the elements that are in a set: each is preceded by as many of
\* them as its new position says.
Members(sequence, set) ==
  LET positions == {i \in DOMAIN sequence : sequence[i] \in set}
      Upto(i) == {j \in positions : j <= i}
  IN  [k \in 1..Cardinality(positions) |->
         sequence[CHOOSE i \in positions : Cardinality(Upto(i)) = k]]

AtMost(n, sequence) == IF n = NoLimit \/ n >= Len(sequence) THEN sequence ELSE SubSeq(sequence, 1, n)

Matches(row, params) == \A p \in DOMAIN params : row[Filters[p]] = params[p]

At(row, path) == \A c \in DOMAIN path : row[c] = path[c]

Selected(request) ==
  Members(Collection, {row \in Rows : At(row, request.path) /\ Matches(row, request.params)})

PageLength(request) ==
  IF request.limit # NoLimit /\ request.limit < PageRows THEN request.limit ELSE PageRows

Page(served, link, texts, flags) ==
  [rows |-> served, link |-> link, body |-> [texts |-> texts, flags |-> flags]]

Silent(served) == Page(served, {}, <<>>, <<>>)

InBody(served, pointer, text) == Page(served, {}, [p \in {pointer} |-> text], <<>>)

WithCursor(served, pointer, text, more) ==
  Page(served, {}, [p \in {pointer} |-> text], [p \in {"/has_more"} |-> more])

Written(form, request) == [form |-> form, to |-> request]

\* How a page announces that `following` comes next: in a Link header, as an address
\* in the body, complete, from the root or as a query, as a cursor, at a pointer of
\* its own, or on another origin.
Announcement(served, following) ==
  CASE convention = "link" -> Page(served, {Written("absolute", following)}, <<>>, <<>>)
    [] convention = "next" -> InBody(served, "/next", Written("rooted", following))
    [] convention = "query" -> InBody(served, "/links/next", Written("query", [following EXCEPT !.path = <<>>]))
    [] convention = "cursor" -> WithCursor(served, "/next_cursor", Written("plain", following), TRUE)
    [] convention = "pointer" -> InBody(served, "/paging/after", Written("plain", following))
    [] convention = "elsewhere" ->
         InBody(served, "/next", Written("absolute", [following EXCEPT !.origin = "other"]))

\* The last page says, where cursors are used, that there is no more.
Serve(request) ==
  LET all == Selected(request)
      last == request.after + PageLength(request)
      served == SubSeq(AtMost(last, all), request.after + 1, Len(AtMost(last, all)))
      following == [request EXCEPT !.after = last]
  IN  CASE convention = "unpaged" -> Silent(AtMost(request.limit, all))
        [] convention # "unpaged" /\ last < Len(all) -> Announcement(served, following)
        [] convention = "cursor" /\ last >= Len(all) ->
             WithCursor(served, "/cursor", Written("plain", following), FALSE)
        [] OTHER -> Silent(served)

-----------------------------------------------------------------------------
\* fetch_next_page, iter_scan.

\* project_row: a field the row leaves out takes the value of its placeholder.
Projected(row) == [c \in Columns |-> IF c \in table.omitted THEN injected[c] ELSE row[c]]

\* The address of a next page replaces the one of the first and its query; a cursor
\* is one more parameter of the first request.
Follow(token) ==
  IF token.kind = "url"
  THEN {request \in {ResolvePageUrl(NoRequest, current, token.text)} :
          AllowCrossOrigin \/ SameOrigin(NoRequest, request)}
  ELSE {[initial EXCEPT !.after = token.text.to.after] : parameter \in {table.cursor_param} \cap {TRUE}}

PageRequests == IF next = {} THEN {initial} ELSE UNION {Follow(token) : token \in next}

Enough(fetched) == maximum # NoLimit /\ Len(fetched) >= maximum

\* One page, and its rows; the scan goes on to the next one when PostgreSQL has asked
\* for all of them and there is one.
FetchPage ==
  /\ pc = "fetch"
  /\ \E request \in PageRequests :
       LET page == Serve(request)
           fetched == rows \o [i \in DOMAIN page.rows |-> Projected(page.rows[i])]
       IN  /\ current' = request
           /\ next' = NextOf(page, table)
           /\ rows' = AtMost(maximum, fetched)
           /\ pc' = IF next' = {} \/ Enough(fetched) THEN "evaluate" ELSE "fetch"
  /\ UNCHANGED <<table, query, convention, initial, injected, maximum>>

\* The next page is on another origin, or asks for a cursor_param that is not set.
FetchFails ==
  /\ pc = "fetch" /\ PageRequests = {}
  /\ pc' = "failed"
  /\ UNCHANGED <<table, query, convention, initial, current, next, injected, maximum, rows>>

-----------------------------------------------------------------------------
\* PostgreSQL (external): WHERE in full, ORDER BY, then OFFSET and LIMIT.

Satisfies(row, qual) ==
  IF qual.operator = "=" THEN row[qual.field] \in qual.values ELSE row[qual.field] \notin qual.values

Wanted(row) == row \in query.opaque /\ \A i \in DOMAIN query.quals : Satisfies(row, query.quals[i])

\* The order of the query differs from the one of the origin.
Before(a, b) == \E c \in Columns : a[c] > b[c] /\ \A d \in Columns \ {c} : a[d] >= b[d]

Ordered(relation) == SortSeq(relation, Before)

Evaluation(relation) ==
  LET wanted == Members(relation, {row \in Rows : Wanted(row)})
      ordered == IF query.sorts THEN Ordered(wanted) ELSE wanted
      last == IF query.count = NoLimit THEN Len(ordered) ELSE query.offset + query.count
  IN  SubSeq(AtMost(last, ordered), query.offset + 1, Len(AtMost(last, ordered)))

Evaluate ==
  /\ pc = "evaluate"
  /\ pc' = "done"
  /\ rows' = Evaluation(rows)
  /\ UNCHANGED <<table, query, convention, initial, current, next, injected, maximum>>

Next == BeginUnbound \/ BeginScan \/ FetchPage \/ FetchFails \/ Evaluate

Spec == Init /\ [][Next]_vars

-----------------------------------------------------------------------------
\* Properties.

\* The foreign table, as its options define it: what the static parameters select.
Relation == Members(Collection, {row \in Rows : Matches(row, table.query_params)})

\* A qual overwrites a static parameter: the table then depends on the query.
Overwrites == \E p \in DOMAIN table.query_params : Setting(p) # {}

IsOpaque == query.opaque # Rows

\* Neither pushing parts of a query to the origin nor following its pages changes
\* the answer, whichever way the origin announces them: "PostgreSQL still retains
\* local correctness checks".  A lookup without a value for its placeholders is
\* empty by definition.
AnswerIsExact ==
  pc = "done" /\ Bound /\ ~Overwrites /\ ~IsOpaque => rows = Evaluation(Relation)

\* However a page is announced, the request for it goes to the origin of the table,
\* which gets the credentials, and asks for the same rows as the first: path, filters
\* and page size are the ones begin_scan made of the query.
SameCollection ==
  current.after > 0 =>
    /\ AllowCrossOrigin \/ current.origin = initial.origin
    /\ current.path = initial.path /\ current.params = initial.params /\ current.limit = initial.limit

\* "PostgreSQL retains and correctly evaluates the predicate locally, so this is
\* log noise rather than a result-integrity defect."
OpaqueIsHarmless ==
  pc = "done" /\ Bound /\ ~Overwrites => rows = Evaluation(Relation)
=============================================================================
