-------------------------------- MODULE Scan --------------------------------
(***************************************************************************)
(* The scan state of OpenApiFdw (src/src/fdw.rs): begin_scan, iter_scan,   *)
(* re_scan and end_scan over the pages fetched by fetch_next_page.         *)
(*                                                                         *)
(* PostgreSQL's executor calls the four callbacks one at a time.  The      *)
(* origin is free: each request may be answered by any page, with any      *)
(* token for the next one, so loops, endless collections, empty pages and  *)
(* collections that change between two requests are all included.  A row   *)
(* is named by the scan it was served to and its place among the rows      *)
(* served to that scan.                                                    *)
(***************************************************************************)
EXTENDS Integers, Sequences

CONSTANTS
  UrlTokens,      \* next-page URLs that resolve_page_url accepts
  ForeignTokens,  \* next-page URLs that resolve_page_url refuses
  CursorTokens,   \* opaque cursors
  CursorParam,    \* TRUE when table option cursor_param is set
  MaxPages,       \* max_pages of the table, or else of the server
  Limits,         \* values of LIMIT + OFFSET a statement may have
  PageRows,       \* bound: rows of a page
  MaxScans        \* bound: scans begun on the same instance

Tokens == UrlTokens \cup ForeignTokens \cup CursorTokens

ASSUME TokensAssumption ==
  UrlTokens \cap ForeignTokens = {} /\ CursorTokens \cap (UrlTokens \cup ForeignTokens) = {}
ASSUME CursorParamAssumption == CursorParam \in BOOLEAN
ASSUME MaxPagesAssumption == MaxPages \in Nat \ {0}
ASSUME LimitsAssumption == Limits \subseteq Nat
ASSUME BoundsAssumption == PageRows \in Nat /\ MaxScans \in Nat

None == "none"      \* Option::None for a token
Initial == "initial" \* the request built by begin_scan, before any token
NoLimit == -1       \* Option::None for maximum_rows

ASSUME NoneAssumption == {None, Initial} \cap Tokens = {}

VARIABLES
  phase,           \* closed, beginning (in begin_scan), open, iterating (in iter_scan), failed
  initial_request, \* TRUE when the scan has a request to make
  next,            \* token of the next page, or None
  seen_tokens,
  rows,            \* rows buffered since begin_scan
  row_index,
  pages_fetched,
  maximum_rows,
  scan,            \* history: number of the current scan
  served,          \* history: rows served to the current scan
  requests,        \* history: what each request of the current scan asked for
  pages,           \* history: number of rows and token of each page served to it
  delivered,       \* history: rows delivered in the current pass
  ended,           \* history: the current pass has returned None
  reason           \* history: why the scan failed

state == <<initial_request, next, seen_tokens, rows, row_index, pages_fetched, maximum_rows>>
history == <<scan, served, requests, pages, delivered, ended, reason>>
vars == <<phase, state, history>>

Row == (1..MaxScans) \X (Nat \ {0})

Init ==
  /\ phase = "closed"
  /\ initial_request = FALSE /\ next = None /\ seen_tokens = {} /\ rows = <<>>
  /\ row_index = 0 /\ pages_fetched = 0 /\ maximum_rows = NoLimit
  /\ scan = 0 /\ served = 0 /\ requests = <<>> /\ pages = <<>>
  /\ delivered = <<>> /\ ended = FALSE /\ reason = "none"

-----------------------------------------------------------------------------
\* begin_scan: every field a previous scan of the instance may have left is
\* reset, then the first page is fetched.

\* Seeded fault: the position of an earlier scan survives.
FaultKeepRowIndex(bound, maximum) ==
  /\ initial_request' = bound
  /\ next' = None /\ seen_tokens' = {} /\ rows' = <<>>
  /\ row_index' = row_index /\ pages_fetched' = 0
  /\ maximum_rows' = maximum

\* Seeded fault: the tokens of an earlier scan survive.
FaultKeepSeenTokens(bound, maximum) ==
  /\ initial_request' = bound
  /\ next' = None /\ seen_tokens' = seen_tokens /\ rows' = <<>>
  /\ row_index' = 0 /\ pages_fetched' = 0
  /\ maximum_rows' = maximum

Reset(bound, maximum) ==
  /\ initial_request' = bound
  /\ next' = None /\ seen_tokens' = {} /\ rows' = <<>>
  /\ row_index' = 0 /\ pages_fetched' = 0
  /\ maximum_rows' = maximum

NewScan ==
  /\ phase = "closed" /\ scan < MaxScans
  /\ scan' = scan + 1 /\ served' = 0
  /\ requests' = <<>> /\ pages' = <<>> /\ delivered' = <<>>
  /\ ended' = FALSE /\ reason' = "none"

\* maximum is LIMIT + OFFSET, or NoLimit when a filter or a sort forbids it.
BeginScan(maximum) ==
  /\ NewScan
  /\ phase' = "beginning"
  /\ Reset(TRUE, maximum)

\* A placeholder of the endpoint has no equality predicate: an empty relation,
\* and no request.
BeginUnbound ==
  /\ NewScan
  /\ phase' = "open"
  /\ Reset(FALSE, 0)

\* The options, the base URL or the endpoint are not usable.
BeginFails ==
  /\ phase = "closed" /\ scan < MaxScans
  /\ phase' = "failed" /\ reason' = "configuration"
  /\ UNCHANGED <<state, scan, served, requests, pages, delivered, ended>>

-----------------------------------------------------------------------------
\* fetch_next_page, called by begin_scan and by the loop of iter_scan.

LimitReached == maximum_rows # NoLimit /\ row_index >= maximum_rows

Buffered == row_index < Len(rows)

Fetching ==
  \/ phase = "beginning"
  \/ phase = "iterating" /\ ~LimitReached /\ ~Buffered /\ next # None

Fail(why) ==
  /\ phase' = "failed" /\ reason' = why
  /\ UNCHANGED <<initial_request, rows, row_index, maximum_rows, scan, delivered, ended>>

\* Seeded fault: one page past max_pages.
FaultPastPageLimit == pages_fetched > MaxPages

PageLimitReached == pages_fetched >= MaxPages

\* Seeded fault: the page limit ends the scan as if the collection did.
FaultSilentPageLimit ==
  /\ Fetching /\ PageLimitReached
  /\ next' = None
  /\ UNCHANGED <<phase, initial_request, rows, row_index, maximum_rows, history,
                 seen_tokens, pages_fetched>>

FetchRefused ==
  /\ Fetching /\ PageLimitReached
  /\ Fail("max_pages")
  /\ UNCHANGED <<next, seen_tokens, pages_fetched, served, requests, pages>>

\* The token is taken, but no request can be made of it.
Unusable(token) == token \in ForeignTokens \/ (token \in CursorTokens /\ ~CursorParam)

FetchUnusable ==
  /\ Fetching /\ ~PageLimitReached /\ Unusable(next)
  /\ next' = None
  /\ Fail("token")
  /\ UNCHANGED <<seen_tokens, pages_fetched, served, requests, pages>>

\* Seeded fault: the cursor is not put in the query of the next request.
FaultAsksAgain == Append(requests, Initial)

Asks == Append(requests, IF next = None THEN Initial ELSE next)

\* The call fails, or its answer has no rows where response_path looks.
FetchFails ==
  /\ Fetching /\ ~PageLimitReached /\ ~Unusable(next)
  /\ next' = None
  /\ requests' = Asks
  /\ Fail("response")
  /\ UNCHANGED <<seen_tokens, pages_fetched, served, pages>>

\* normalize_page: an empty page ends the collection, whatever it carries.
NextOf(page) == IF page.rows = 0 THEN None ELSE page.token

\* Seeded fault: no loop detection.
FaultNoLoopCheck(token) == token # token

\* seen_tokens.insert(next) returned false.
Repeats(token) == token # None /\ token \in seen_tokens

\* The rows of a page, numbered after those already served.
RowsOf(page) == [i \in 1..page.rows |-> <<scan, served + i>>]

FetchPage(page) ==
  /\ Fetching /\ ~PageLimitReached /\ ~Unusable(next)
  /\ requests' = Asks
  /\ pages' = Append(pages, page)
  /\ pages_fetched' = pages_fetched + 1
  /\ served' = served + page.rows
  /\ \/ /\ Repeats(NextOf(page))
        /\ next' = None
        /\ Fail("duplicate")
        /\ UNCHANGED seen_tokens
     \/ /\ ~Repeats(NextOf(page))
        /\ next' = NextOf(page)
        /\ seen_tokens' = seen_tokens \cup ({NextOf(page)} \ {None})
        /\ rows' = rows \o RowsOf(page)
        /\ phase' = IF phase = "beginning" THEN "open" ELSE phase
        /\ UNCHANGED <<initial_request, row_index, maximum_rows, scan, delivered, ended, reason>>

-----------------------------------------------------------------------------
\* iter_scan, one action per way through its loop besides the fetch.

IterScan ==
  /\ phase = "open"
  /\ phase' = "iterating"
  /\ UNCHANGED <<state, history>>

\* Seeded fault: the end of a page is taken for the end of the collection.
FaultEndOfPage ==
  /\ phase = "iterating"
  /\ LimitReached \/ ~Buffered
  /\ phase' = "open"
  /\ ended' = TRUE
  /\ UNCHANGED <<state, scan, served, requests, pages, delivered, reason>>

ReturnNone ==
  /\ phase = "iterating"
  /\ LimitReached \/ (~Buffered /\ next = None)
  /\ phase' = "open"
  /\ ended' = TRUE
  /\ UNCHANGED <<state, scan, served, requests, pages, delivered, reason>>

ReturnRow ==
  /\ phase = "iterating" /\ ~LimitReached /\ Buffered
  /\ row_index' = row_index + 1
  /\ phase' = "open"
  /\ delivered' = Append(delivered, rows[row_index + 1])
  /\ UNCHANGED <<initial_request, next, seen_tokens, rows, pages_fetched, maximum_rows,
                 scan, served, requests, pages, ended, reason>>

\* project_row: no object_path in the row, or a value its column cannot hold
\* under type_error 'error'.
RowFails ==
  /\ phase = "iterating" /\ ~LimitReached /\ Buffered
  /\ row_index' = row_index + 1
  /\ phase' = "failed" /\ reason' = "row"
  /\ UNCHANGED <<initial_request, next, seen_tokens, rows, pages_fetched, maximum_rows,
                 scan, served, requests, pages, delivered, ended>>

\* A new pass reads the buffered rows again, and goes on from there.
ReScan ==
  /\ phase = "open"
  /\ row_index' = 0
  /\ delivered' = <<>> /\ ended' = FALSE
  /\ UNCHANGED <<phase, initial_request, next, seen_tokens, rows, pages_fetched,
                 maximum_rows, scan, served, requests, pages, reason>>

\* The token set, the counters and the limit are left as they are.
EndScan ==
  /\ phase = "open"
  /\ phase' = "closed"
  /\ initial_request' = FALSE /\ next' = None /\ rows' = <<>>
  /\ UNCHANGED <<seen_tokens, row_index, pages_fetched, maximum_rows, history>>

-----------------------------------------------------------------------------

Pages == [rows : 0..PageRows, token : Tokens \cup {None}]

Begin == BeginUnbound \/ BeginFails \/ \E maximum \in Limits \cup {NoLimit} : BeginScan(maximum)

Fetch == FetchRefused \/ FetchUnusable \/ FetchFails \/ \E page \in Pages : FetchPage(page)

Iterate == IterScan \/ ReturnNone \/ ReturnRow \/ RowFails

Next == Begin \/ Fetch \/ Iterate \/ ReScan \/ EndScan

Spec == Init /\ [][Next]_vars

-----------------------------------------------------------------------------
\* Properties.

Reasons == {"none", "configuration", "max_pages", "token", "response", "duplicate", "row"}

TypeOK ==
  /\ phase \in {"closed", "beginning", "open", "iterating", "failed"}
  /\ initial_request \in BOOLEAN
  /\ next \in Tokens \cup {None}
  /\ seen_tokens \subseteq Tokens
  /\ rows \in Seq(Row)
  /\ row_index \in Nat /\ pages_fetched \in 0..MaxPages
  /\ maximum_rows \in Limits \cup {0, NoLimit}
  /\ scan \in 0..MaxScans /\ served \in Nat
  /\ requests \in Seq(Tokens \cup {Initial})
  /\ pages \in Seq(Pages)
  /\ delivered \in Seq(Row)
  /\ ended \in BOOLEAN
  /\ reason \in Reasons

\* Every pass delivers the rows served to its own scan, in order, none twice
\* and none left out, across page boundaries, re_scan and the reuse of an
\* instance whose end_scan leaves some of its fields behind.
DeliveredInOrder ==
  /\ Len(delivered) <= served
  /\ \A i \in DOMAIN delivered : delivered[i] = <<scan, i>>

LastPage == pages[Len(pages)]

\* A pass ends only when nothing is missing: the limit is used up, the scan has
\* no request to make, or every row was delivered and the last page, which may
\* be an empty one, announced no other.  max_pages never truncates a result.
EndIsComplete ==
  ended =>
    \/ Len(delivered) = maximum_rows
    \/ /\ Len(delivered) = served
       /\ pages # <<>> /\ (LastPage.token = None \/ LastPage.rows = 0)

\* Each request asks for what the page before it announced.
FollowsTokens ==
  \A i \in DOMAIN requests :
    requests[i] = IF i = 1 THEN Initial ELSE pages[i - 1].token

\* A scan is refused as a loop only if its own pages announced a token twice:
\* tokens of an earlier scan of the instance do not count.
LoopsOnly ==
  reason = "duplicate" =>
    \E i, j \in DOMAIN pages : i < j /\ pages[i].token = pages[j].token

\* No token is followed twice, even if the origin leads in circles: a circle is
\* left when it closes.  The first page has no token, so one that leads back to
\* it by its URL is found a round later.
NoTokenTwice ==
  \A i, j \in DOMAIN requests : requests[i] = requests[j] => i = j

\* A scan, however many passes it makes, sends at most max_pages requests.
PagesBounded == Len(requests) <= MaxPages

\* iter_scan asks for another page only for a row that is not buffered and that
\* the statement can still use.
NoNeedlessRequest ==
  [][requests' # requests /\ phase = "iterating" =>
       Len(delivered) = served /\ (maximum_rows = NoLimit \/ served < maximum_rows)]_vars

Active == phase \in {"open", "iterating"}

\* The paged scan implements the scan of one sequence of rows.
Relation ==
  INSTANCE RelationScan WITH
    Row <- Row,
    Limits <- Limits \cup {0},
    status <- IF phase = "failed" THEN "failed"
              ELSE IF ~Active THEN "closed" ELSE IF ended THEN "ended" ELSE "open",
    content <- IF Active THEN rows ELSE <<>>,
    complete <- Active /\ next = None,
    limit <- IF Active THEN maximum_rows ELSE -1,
    delivered <- IF Active THEN delivered ELSE <<>>

ImplementsRelationScan == Relation!Spec
=============================================================================
