---------------------------- MODULE Scan_proofs -----------------------------
(***************************************************************************)
(* Proofs about Scan, for every origin, every max_pages, every limit and   *)
(* every sequence of callbacks.                                            *)
(***************************************************************************)
EXTENDS Scan, SequenceTheorems, TLAPS

Live == phase \in {"beginning", "open", "iterating"}

(* The inductive invariant. *)

\* The buffer holds the rows served to this scan, and the position in it is the
\* number of rows delivered in this pass.
Buffer ==
  Live =>
    /\ scan >= 1
    /\ Len(rows) = served /\ \A i \in 1..served : rows[i] = <<scan, i>>
    /\ row_index = Len(delivered) /\ row_index <= served
    /\ maximum_rows # NoLimit => row_index <= maximum_rows

\* A scan starts from nothing.
Fresh ==
  phase = "beginning" =>
    /\ pages = <<>> /\ requests = <<>> /\ next = None /\ delivered = <<>>
    /\ ~ended

\* next is what the last page announced; a page that is not the last had rows
\* and announced another.
Chain ==
  Live =>
    /\ Len(requests) = Len(pages) /\ Len(pages) = pages_fetched
    /\ pages = <<>> => next = None
    /\ pages = <<>> /\ phase # "beginning" => maximum_rows = 0
    /\ pages # <<>> => next = NextOf(LastPage)
    /\ \A i \in DOMAIN pages : i < Len(pages) => NextOf(pages[i]) # None

\* seen_tokens is the set of the tokens announced so far, each announced once.
Seen ==
  Live =>
    /\ \A t \in Tokens : t \in seen_tokens <=> \E i \in DOMAIN pages : NextOf(pages[i]) = t
    /\ \A i, j \in DOMAIN pages :
         NextOf(pages[i]) = NextOf(pages[j]) /\ NextOf(pages[i]) # None => i = j

\* A pass that has ended stays ended until the next one.
Over ==
  Live /\ ended => LimitReached \/ (~Buffered /\ next = None)

IInv ==
  /\ TypeOK
  /\ Buffer /\ Fresh /\ Chain /\ Seen /\ Over
  /\ DeliveredInOrder /\ EndIsComplete
  /\ FollowsTokens /\ LoopsOnly /\ NoTokenTwice /\ PagesBounded

\* A function on 1..m is a sequence.
LEMMA FunctionIsSeq ==
  ASSUME NEW S, NEW m \in Nat, NEW f \in [1..m -> S]
  PROVE  f \in Seq(S) /\ Len(f) = m
<1>1. f \in Seq(S)
  BY SeqDef
<1>2. DOMAIN f = 1..m /\ DOMAIN f = 1..Len(f) /\ Len(f) \in Nat
  BY <1>1, LenProperties
<1>3. QED BY <1>1, <1>2

\* Appending numbered rows to numbered rows.
LEMMA NumberedRows ==
  ASSUME NEW n, NEW buffer \in Seq(Row), NEW page \in Seq(Row),
         \A i \in 1..Len(buffer) : buffer[i] = <<n, i>>,
         \A i \in 1..Len(page) : page[i] = <<n, Len(buffer) + i>>
  PROVE  /\ buffer \o page \in Seq(Row) /\ Len(buffer \o page) = Len(buffer) + Len(page)
         /\ \A i \in 1..Len(buffer \o page) : (buffer \o page)[i] = <<n, i>>
<1> DEFINE k == Len(buffer)
           m == Len(page)
<1>1. k \in Nat /\ m \in Nat
  BY LenProperties
<1>2. /\ \A i \in 1..k : buffer[i] = <<n, i>>
      /\ \A i \in 1..m : page[i] = <<n, k + i>>
  OBVIOUS
<1>3. /\ buffer \o page \in Seq(Row) /\ Len(buffer \o page) = k + m
      /\ \A i \in 1..(k + m) :
           (buffer \o page)[i] = IF i <= k THEN buffer[i] ELSE page[i - k]
  BY ConcatProperties
<1> HIDE DEF k, m
<1>4. ASSUME NEW i \in 1..(k + m)
      PROVE  (buffer \o page)[i] = <<n, i>>
  <2>1. CASE i <= k
    BY <1>1, <1>2, <1>3, <2>1
  <2>2. CASE i > k
    <3>1. i - k \in 1..m /\ k + (i - k) = i /\ ~(i <= k)
      BY <1>1, <2>2
    <3>2. page[i - k] = <<n, i>>
      BY <1>2, <3>1
    <3>3. QED BY <1>3, <3>1, <3>2
  <2>3. i \in Int /\ k \in Int
    BY <1>1
  <2>4. i <= k \/ i > k
    BY <2>3
  <2>5. QED BY <2>1, <2>2, <2>4
<1>5. 1..Len(buffer \o page) = 1..(k + m)
  BY <1>3
<1>6. QED BY <1>3, <1>4, <1>5 DEF k, m

USE TokensAssumption, CursorParamAssumption, MaxPagesAssumption, LimitsAssumption,
    BoundsAssumption, NoneAssumption

-----------------------------------------------------------------------------

LEMMA InitIInv == Init => IInv
<1> SUFFICES ASSUME Init PROVE IInv
  OBVIOUS
<1> USE DEF Init
<1>1. TypeOK
  <2>1. rows \in Seq(Row) /\ delivered \in Seq(Row)
    OBVIOUS
  <2>2. requests \in Seq(Tokens \cup {Initial}) /\ pages \in Seq(Pages)
    OBVIOUS
  <2>3. row_index \in Nat /\ pages_fetched \in 0..MaxPages /\ scan \in 0..MaxScans /\ served \in Nat
    OBVIOUS
  <2>4. QED BY <2>1, <2>2, <2>3 DEF TypeOK, Reasons
<1>2. ~Live
  BY DEF Live
<1>3. DeliveredInOrder /\ EndIsComplete /\ FollowsTokens /\ LoopsOnly /\ NoTokenTwice /\ PagesBounded
  BY DEF DeliveredInOrder, EndIsComplete, FollowsTokens, LoopsOnly, NoTokenTwice, PagesBounded
<1>4. QED BY <1>1, <1>2, <1>3 DEF IInv, Buffer, Fresh, Chain, Seen, Over

\* A new scan forgets what was known of the one before.
LEMMA NewScanStep ==
  ASSUME IInv, NewScan, NEW maximum \in Limits \cup {0, NoLimit},
         \/ phase' = "beginning" /\ Reset(TRUE, maximum)
         \/ phase' = "open" /\ Reset(FALSE, maximum) /\ maximum = 0
  PROVE  IInv'
<1> USE DEF NewScan, Reset
<1>1. TypeOK'
  <2>0. rows' = <<>> /\ delivered' = <<>> /\ requests' = <<>> /\ pages' = <<>>
    OBVIOUS
  <2>1. rows' \in Seq(Row) /\ delivered' \in Seq(Row)
    BY <2>0
  <2>2. requests' \in Seq(Tokens \cup {Initial}) /\ pages' \in Seq(Pages)
    BY <2>0
  <2>3. row_index' \in Nat /\ pages_fetched' \in 0..MaxPages /\ served' \in Nat
    OBVIOUS
  <2>4. scan' \in 0..MaxScans
    BY DEF IInv, TypeOK
  <2>5. QED BY <2>1, <2>2, <2>3, <2>4 DEF TypeOK, Reasons
<1>2. Buffer' /\ Fresh' /\ Over'
  BY DEF IInv, TypeOK, Buffer, Fresh, Over, Live, NoLimit
<1>3. Chain' /\ Seen'
  BY DEF Chain, Seen, Live
<1>4. DeliveredInOrder' /\ EndIsComplete' /\ FollowsTokens' /\ LoopsOnly' /\ NoTokenTwice' /\ PagesBounded'
  BY DEF DeliveredInOrder, EndIsComplete, FollowsTokens, LoopsOnly, NoTokenTwice, PagesBounded
<1>5. QED BY <1>1, <1>2, <1>3, <1>4 DEF IInv

\* A step that ends the scan and leaves its history alone.
LEMMA ScanStops ==
  ASSUME IInv, TypeOK', ~Live', reason' # "duplicate" \/ reason' = reason,
         scan' = scan, served' = served, requests' = requests, pages' = pages,
         delivered' = delivered, ended' = ended, maximum_rows' = maximum_rows
  PROVE  IInv'
<1>1. Buffer' /\ Fresh' /\ Chain' /\ Seen' /\ Over'
  BY DEF Buffer, Fresh, Chain, Seen, Over, Live
<1>2. DeliveredInOrder' /\ EndIsComplete' /\ FollowsTokens' /\ LoopsOnly' /\ NoTokenTwice' /\ PagesBounded'
  BY DEF IInv, DeliveredInOrder, EndIsComplete, LastPage, FollowsTokens, LoopsOnly, NoTokenTwice, PagesBounded
<1>3. QED BY <1>1, <1>2 DEF IInv

LEMMA BeginFailsStep ==
  ASSUME IInv, BeginFails
  PROVE  IInv'
<1>1. TypeOK'
  BY DEF BeginFails, state, IInv, TypeOK, Reasons
<1>2. QED BY <1>1, ScanStops DEF BeginFails, state, Live

-----------------------------------------------------------------------------
\* The steps of fetch_next_page.

LEMMA FetchRefusedStep ==
  ASSUME IInv, FetchRefused
  PROVE  IInv'
<1>1. TypeOK'
  BY DEF FetchRefused, Fail, IInv, TypeOK, Reasons
<1>2. QED BY <1>1, ScanStops DEF FetchRefused, Fail, Live

LEMMA FetchUnusableStep ==
  ASSUME IInv, FetchUnusable
  PROVE  IInv'
<1>1. TypeOK'
  BY DEF FetchUnusable, Fail, IInv, TypeOK, Reasons
<1>2. QED BY <1>1, ScanStops DEF FetchUnusable, Fail, Live

\* What a request asks for: the token of the last page, which no request of the
\* scan has asked for.
LEMMA RequestStep ==
  ASSUME IInv, Fetching, ~PageLimitReached, requests' = Asks,
         \A i \in DOMAIN pages : pages'[i] = pages[i]
  PROVE  /\ requests' \in Seq(Tokens \cup {Initial})
         /\ Len(requests') = Len(pages) + 1
         /\ FollowsTokens' /\ NoTokenTwice' /\ PagesBounded'
<1> DEFINE asked == IF next = None THEN Initial ELSE next
<1> USE DEF IInv
<1>1. Live /\ Len(requests) = Len(pages) /\ Len(pages) = pages_fetched
  BY DEF Fetching, Live, Chain
<1>0. /\ Len(pages) \in Nat /\ DOMAIN pages = 1..Len(pages)
      /\ DOMAIN requests = 1..Len(pages)
  BY <1>1 DEF TypeOK
<1>2. asked \in Tokens \cup {Initial} /\ requests' = Append(requests, asked)
  BY DEF TypeOK, Asks
<1>3. /\ requests' \in Seq(Tokens \cup {Initial})
      /\ Len(requests') = Len(pages) + 1
      /\ DOMAIN requests' = 1..(Len(pages) + 1)
      /\ requests'[Len(pages) + 1] = asked
      /\ \A i \in 1..Len(pages) : requests'[i] = requests[i]
  BY <1>1, <1>2 DEF TypeOK
<1> HIDE DEF asked
<1>4. pages = <<>> => asked = Initial
  BY <1>1 DEF Chain, asked
<1>5. pages # <<>> => asked = pages[Len(pages)].token /\ asked \in Tokens /\ next = asked
  <2> SUFFICES ASSUME pages # <<>> PROVE asked = pages[Len(pages)].token /\ asked \in Tokens /\ next = asked
    OBVIOUS
  <2>1. phase = "iterating" /\ next # None
    BY DEF Fetching, Fresh
  <2>2. next = NextOf(LastPage)
    BY <1>1 DEF Chain
  <2>3. QED BY <2>1, <2>2 DEF NextOf, LastPage, asked, TypeOK
<1>6. FollowsTokens'
  <2> SUFFICES ASSUME NEW i \in 1..(Len(pages) + 1)
               PROVE  requests'[i] = IF i = 1 THEN Initial ELSE pages'[i - 1].token
    BY <1>3 DEF FollowsTokens
  <2>1. CASE i <= Len(pages)
    <3>1. i \in DOMAIN requests /\ requests'[i] = requests[i]
      BY <1>0, <1>3, <2>1
    <3>2. i # 1 => i - 1 \in DOMAIN pages
      BY <1>0, <2>1
    <3>3. QED BY <3>1, <3>2 DEF FollowsTokens
  <2>2. CASE i = Len(pages) + 1
    <3>1. CASE pages = <<>>
      BY <1>3, <1>4, <2>2, <3>1
    <3>2. CASE pages # <<>>
      BY <1>3, <1>5, <2>2, <3>2 DEF TypeOK
    <3>3. QED BY <3>1, <3>2
  <2>3. QED BY <2>1, <2>2 DEF TypeOK
<1>7. NoTokenTwice'
  <2>1. ASSUME NEW i \in 1..Len(pages)
        PROVE  requests[i] # asked
    <3>1. pages # <<>> /\ asked \in Tokens /\ asked = next
      BY <1>5 DEF TypeOK
    <3>2. CASE i = 1
      BY <1>1, <3>1, <3>2 DEF FollowsTokens, TypeOK
    <3>3. CASE i > 1
      <4>0. i \in DOMAIN requests /\ i - 1 \in DOMAIN pages /\ i - 1 < Len(pages)
        BY <1>0, <3>3
      <4>1. requests[i] = pages[i - 1].token /\ i - 1 \in DOMAIN pages /\ i - 1 < Len(pages)
        BY <4>0, <3>3 DEF FollowsTokens
      <4>2. NextOf(pages[i - 1]) # None
        BY <1>1, <4>1 DEF Chain
      <4>3. NextOf(pages[i - 1]) = requests[i]
        BY <4>1, <4>2 DEF NextOf
      <4>4. next = NextOf(pages[Len(pages)]) /\ Len(pages) \in DOMAIN pages
        BY <1>1, <3>1 DEF Chain, LastPage, TypeOK
      <4>5. NextOf(pages[i - 1]) # NextOf(pages[Len(pages)])
        BY <1>1, <4>1, <4>2, <4>4 DEF Seen
      <4>6. QED BY <3>1, <4>3, <4>4, <4>5
    <3>4. QED BY <3>2, <3>3
  <2>2. QED BY <1>1, <1>3, <2>1 DEF NoTokenTwice, TypeOK
<1>8. PagesBounded'
  BY <1>1, <1>3 DEF PagesBounded, PageLimitReached, TypeOK
<1>9. QED BY <1>3, <1>6, <1>7, <1>8

LEMMA FetchingNotEnded ==
  ASSUME IInv, Fetching
  PROVE  ~ended
BY DEF IInv, Fetching, Fresh, Over, Live

LEMMA FetchFailsStep ==
  ASSUME IInv, FetchFails
  PROVE  IInv'
<1> USE DEF FetchFails, Fail
<1>1. requests' \in Seq(Tokens \cup {Initial}) /\ FollowsTokens' /\ NoTokenTwice' /\ PagesBounded'
  BY RequestStep
<1>2. TypeOK'
  BY <1>1 DEF IInv, TypeOK, Reasons
<1>3. ~Live' /\ ~ended'
  BY FetchingNotEnded DEF Live
<1>4. Buffer' /\ Fresh' /\ Chain' /\ Seen' /\ Over'
  BY <1>3 DEF Buffer, Fresh, Chain, Seen, Over, Live
<1>5. DeliveredInOrder' /\ EndIsComplete' /\ LoopsOnly'
  BY <1>3 DEF IInv, DeliveredInOrder, EndIsComplete, LoopsOnly
<1>6. QED BY <1>1, <1>2, <1>4, <1>5 DEF IInv

\* What FetchPage does to the history, loop or not.
LEMMA PageServed ==
  ASSUME IInv, NEW page \in Pages, FetchPage(page)
  PROVE  /\ pages' \in Seq(Pages) /\ Len(pages') = Len(pages) + 1
         /\ DOMAIN pages' = 1..(Len(pages) + 1) /\ DOMAIN pages = 1..Len(pages)
         /\ pages'[Len(pages) + 1] = page
         /\ \A i \in 1..Len(pages) : pages'[i] = pages[i]
         /\ requests' \in Seq(Tokens \cup {Initial}) /\ Len(requests') = Len(pages')
         /\ FollowsTokens' /\ NoTokenTwice' /\ PagesBounded'
         /\ served' \in Nat /\ served <= served' /\ pages_fetched' \in 0..MaxPages
         /\ page.rows \in 0..PageRows /\ NextOf(page) \in Tokens \cup {None}
<1> USE DEF FetchPage
<1>1. pages \in Seq(Pages) /\ served \in Nat /\ pages_fetched \in 0..MaxPages
  BY DEF IInv, TypeOK
<1>2. /\ pages' \in Seq(Pages) /\ Len(pages') = Len(pages) + 1
      /\ DOMAIN pages' = 1..(Len(pages) + 1) /\ DOMAIN pages = 1..Len(pages)
      /\ pages'[Len(pages) + 1] = page
      /\ \A i \in 1..Len(pages) : pages'[i] = pages[i]
  BY <1>1
<1>3. /\ requests' \in Seq(Tokens \cup {Initial}) /\ Len(requests') = Len(pages')
      /\ FollowsTokens' /\ NoTokenTwice' /\ PagesBounded'
  BY <1>2, RequestStep
<1>4. page.rows \in 0..PageRows /\ page.token \in Tokens \cup {None}
  BY DEF Pages
<1>5. served' \in Nat /\ served <= served'
  BY <1>1, <1>4
<1>6. pages_fetched' \in 0..MaxPages
  BY <1>1 DEF PageLimitReached
<1>7. NextOf(page) \in Tokens \cup {None}
  BY <1>4 DEF NextOf
<1>8. QED BY <1>2, <1>3, <1>4, <1>5, <1>6, <1>7

LEMMA FetchPageLoop ==
  ASSUME IInv, NEW page \in Pages, FetchPage(page), Repeats(NextOf(page))
  PROVE  IInv'
<1> USE DEF FetchPage, Fail
<1>1. TypeOK'
  BY PageServed DEF IInv, TypeOK, Reasons
<1>2. ~Live' /\ ~ended'
  BY FetchingNotEnded DEF Live
<1>3. Buffer' /\ Fresh' /\ Chain' /\ Seen' /\ Over'
  BY <1>2 DEF Buffer, Fresh, Chain, Seen, Over, Live
<1>4. LoopsOnly'
  <2>1. Live
    BY DEF Fetching, Live
  <2>2. NextOf(page) \in Tokens /\ NextOf(page) \in seen_tokens /\ NextOf(page) # None
    BY PageServed DEF Repeats
  <2>3. PICK i \in DOMAIN pages : NextOf(pages[i]) = NextOf(page)
    BY <2>1, <2>2 DEF IInv, Seen
  <2>4. pages[i].token = page.token
    BY <2>2, <2>3 DEF NextOf
  <2>5. /\ i \in DOMAIN pages' /\ Len(pages) + 1 \in DOMAIN pages' /\ i < Len(pages) + 1
        /\ pages'[i].token = pages'[Len(pages) + 1].token
    <3>1. Len(pages) \in Nat
      BY DEF IInv, TypeOK
    <3>2. i \in 1..Len(pages) /\ pages'[i] = pages[i]
      BY PageServed
    <3>3. QED BY <2>4, <3>1, <3>2, PageServed
  <2>6. QED BY <2>5 DEF LoopsOnly
<1>5. DeliveredInOrder' /\ EndIsComplete'
  <2>1. Len(delivered') <= served'
    BY PageServed DEF IInv, TypeOK, DeliveredInOrder
  <2>2. QED BY <1>2, <2>1 DEF IInv, DeliveredInOrder, EndIsComplete
<1>6. QED BY <1>1, <1>3, <1>4, <1>5, PageServed DEF IInv

LEMMA FetchPageGood ==
  ASSUME IInv, NEW page \in Pages, FetchPage(page), ~Repeats(NextOf(page))
  PROVE  IInv'
<1> DEFINE n == Len(pages)
<1>1. /\ next' = NextOf(page)
      /\ seen_tokens' = seen_tokens \cup ({NextOf(page)} \ {None})
      /\ rows' = rows \o RowsOf(page)
      /\ phase' = IF phase = "beginning" THEN "open" ELSE phase
      /\ UNCHANGED <<initial_request, row_index, maximum_rows, scan, delivered, ended, reason>>
      /\ served' = served + page.rows /\ pages_fetched' = pages_fetched + 1
      /\ Fetching /\ ~PageLimitReached
  BY DEF FetchPage
<1>2. Live /\ Live' /\ phase' # "beginning" /\ ~ended'
  BY <1>1, FetchingNotEnded DEF Fetching, Live
<1>3. /\ Buffer /\ Fresh /\ Chain /\ Seen /\ TypeOK
      /\ Len(rows) = served /\ n = pages_fetched
  BY <1>2 DEF IInv, Buffer, Chain
<1>4. /\ rows' \in Seq(Row) /\ Len(rows') = served'
      /\ \A i \in 1..served' : rows'[i] = <<scan, i>>
  <2>1. served \in Nat /\ page.rows \in Nat /\ scan \in 1..MaxScans /\ rows \in Seq(Row)
    BY <1>2, <1>3, PageServed DEF TypeOK, Buffer
  <2>2. Len(rows) = served /\ \A i \in 1..served : rows[i] = <<scan, i>>
    BY <1>2, <1>3 DEF Buffer
  <2>0. \A i \in 1..page.rows : <<scan, served + i>> \in Row
    BY <2>1 DEF Row
  <2>5. RowsOf(page) \in [1..page.rows -> Row] /\ \A i \in 1..page.rows : RowsOf(page)[i] = <<scan, served + i>>
    BY <2>0 DEF RowsOf
  <2>6. RowsOf(page) \in Seq(Row) /\ Len(RowsOf(page)) = page.rows
    BY <2>1, <2>5, FunctionIsSeq
  <2>3. /\ rows \o RowsOf(page) \in Seq(Row)
        /\ Len(rows \o RowsOf(page)) = served + page.rows
        /\ \A i \in 1..(served + page.rows) : (rows \o RowsOf(page))[i] = <<scan, i>>
    <3>1. /\ \A i \in 1..Len(rows) : rows[i] = <<scan, i>>
          /\ \A i \in 1..Len(RowsOf(page)) : RowsOf(page)[i] = <<scan, Len(rows) + i>>
      BY <2>2, <2>5, <2>6
    <3>2. rows \in Seq(Row) /\ RowsOf(page) \in Seq(Row)
      BY <2>1, <2>6
    <3>3. /\ rows \o RowsOf(page) \in Seq(Row)
          /\ Len(rows \o RowsOf(page)) = Len(rows) + Len(RowsOf(page))
          /\ \A i \in 1..Len(rows \o RowsOf(page)) : (rows \o RowsOf(page))[i] = <<scan, i>>
      BY <3>1, <3>2, NumberedRows
    <3>4. QED BY <2>2, <2>6, <3>3
  <2>4. QED BY <1>1, <2>3
<1>5. TypeOK'
  <2>1. seen_tokens' \subseteq Tokens /\ next' \in Tokens \cup {None}
    BY <1>1, <1>3, PageServed DEF TypeOK
  <2>2. phase' \in {"open", "iterating"}
    BY <1>1 DEF Fetching
  <2>3. QED BY <1>1, <1>3, <1>4, <2>1, <2>2, PageServed DEF TypeOK
<1>6. Buffer' /\ Fresh' /\ Over'
  <2>1. served \in Nat /\ served' \in Nat /\ served <= served' /\ row_index \in Nat
    BY <1>3, PageServed DEF TypeOK
  <2>2. scan >= 1 /\ row_index = Len(delivered) /\ row_index <= served
        /\ (maximum_rows # NoLimit => row_index <= maximum_rows)
    BY <1>2, <1>3 DEF Buffer
  <2>3. UNCHANGED <<scan, row_index, delivered, maximum_rows>>
    BY <1>1
  <2>4. Buffer'
    BY <1>4, <2>1, <2>2, <2>3 DEF Buffer
  <2>5. QED BY <1>2, <2>4 DEF Fresh, Over
<1>7. Chain'
  <2>1. n \in Nat /\ pages' # <<>> /\ Len(pages') = n + 1 /\ pages'[n + 1] = page
    BY <1>3, PageServed DEF TypeOK
  <2>2. pages # <<>> => next # None
    BY <1>1, <1>3 DEF Fetching, Fresh
  <2>3. ASSUME NEW i \in DOMAIN pages', i < Len(pages')
        PROVE  NextOf(pages'[i]) # None
    <3>1. i \in 1..n /\ pages'[i] = pages[i] /\ i \in DOMAIN pages /\ pages # <<>>
      BY <2>1, <2>3, PageServed
    <3>2. CASE i < n
      BY <1>2, <1>3, <3>1, <3>2 DEF Chain
    <3>3. CASE i = n
      BY <1>2, <1>3, <2>2, <3>1, <3>3 DEF Chain, LastPage
    <3>4. QED BY <2>1, <3>1, <3>2, <3>3
  <2>4. QED BY <1>1, <1>3, <2>1, <2>3, PageServed DEF Chain, LastPage
<1>8. Seen'
  <2>1. /\ n \in Nat /\ DOMAIN pages = 1..n /\ DOMAIN pages' = 1..(n + 1)
        /\ pages'[n + 1] = page /\ \A i \in 1..n : pages'[i] = pages[i]
    BY <1>3, PageServed DEF TypeOK
  <2>2. NextOf(page) \in Tokens \cup {None} /\ (NextOf(page) # None => NextOf(page) \notin seen_tokens)
    BY PageServed DEF Repeats
  <2>3. \A t \in Tokens : t \in seen_tokens <=> \E i \in 1..n : NextOf(pages[i]) = t
    BY <1>2, <1>3, <2>1 DEF Seen
  <2>4. None \notin Tokens
    OBVIOUS
  <2>5. ASSUME NEW t \in Tokens
        PROVE  t \in seen_tokens' <=> \E i \in 1..(n + 1) : NextOf(pages'[i]) = t
    <3>1. t \in seen_tokens' <=> t \in seen_tokens \/ t = NextOf(page)
      BY <1>1, <2>4
    <3>2. (\E i \in 1..(n + 1) : NextOf(pages'[i]) = t)
            <=> (\E i \in 1..n : NextOf(pages[i]) = t) \/ NextOf(page) = t
      BY <2>1
    <3>3. QED BY <2>3, <3>1, <3>2
  <2>6. ASSUME NEW i \in 1..(n + 1), NEW j \in 1..(n + 1),
               NextOf(pages'[i]) = NextOf(pages'[j]), NextOf(pages'[i]) # None
        PROVE  i = j
    <3>1. CASE i \in 1..n /\ j \in 1..n
      BY <1>2, <1>3, <2>1, <2>6, <3>1 DEF Seen
    <3>2. \A k \in 1..n : NextOf(pages'[k]) # None => NextOf(pages'[k]) # NextOf(page)
      BY <2>1, <2>2, <2>3
    <3>3. QED BY <2>1, <2>6, <3>1, <3>2
  <2>7. QED BY <2>1, <2>5, <2>6 DEF Seen
<1>9. DeliveredInOrder' /\ EndIsComplete' /\ LoopsOnly'
  <2>1. Len(delivered') <= served'
    BY <1>1, <1>3, PageServed DEF IInv, DeliveredInOrder, TypeOK
  <2>2. LoopsOnly'
    <3> SUFFICES ASSUME reason = "duplicate"
                 PROVE \E i, j \in DOMAIN pages' : i < j /\ pages'[i].token = pages'[j].token
      BY <1>1 DEF LoopsOnly
    <3>1. PICK i, j \in DOMAIN pages : i < j /\ pages[i].token = pages[j].token
      BY DEF IInv, LoopsOnly
    <3>2. i \in DOMAIN pages' /\ j \in DOMAIN pages' /\ pages'[i] = pages[i] /\ pages'[j] = pages[j]
      BY <1>3, <3>1, PageServed DEF TypeOK
    <3>3. QED BY <3>1, <3>2
  <2>3. QED BY <1>1, <1>2, <2>1, <2>2 DEF IInv, DeliveredInOrder, EndIsComplete
<1>10. QED BY <1>5, <1>6, <1>7, <1>8, <1>9, PageServed DEF IInv

-----------------------------------------------------------------------------
\* The steps of iter_scan, re_scan and end_scan.

LEMMA IterScanStep ==
  ASSUME IInv, IterScan
  PROVE  IInv'
<1> USE DEF IterScan, state, history
<1>1. TypeOK'
  BY DEF IInv, TypeOK
<1>2. Live /\ phase # "beginning" /\ phase' # "beginning"
  BY DEF Live
<1>3. Buffer' /\ Fresh' /\ Chain'
  BY <1>2 DEF IInv, Buffer, Fresh, Chain, LastPage
<1>4. Seen' /\ Over'
  BY <1>2 DEF IInv, Seen, Over, LimitReached, Buffered
<1>5. DeliveredInOrder' /\ EndIsComplete' /\ FollowsTokens' /\ LoopsOnly' /\ NoTokenTwice' /\ PagesBounded'
  BY DEF IInv, DeliveredInOrder, EndIsComplete, LastPage, FollowsTokens, LoopsOnly, NoTokenTwice, PagesBounded
<1>6. QED BY <1>1, <1>3, <1>4, <1>5 DEF IInv

\* What a pass that goes on has seen of the relation.
LEMMA ReturnNoneStep ==
  ASSUME IInv, ReturnNone
  PROVE  IInv'
<1> USE DEF ReturnNone, state
<1>1. TypeOK'
  BY DEF IInv, TypeOK
<1>2. Live /\ Live' /\ phase # "beginning" /\ phase' # "beginning"
  BY DEF Live
<1>3. Buffer' /\ Fresh' /\ Chain'
  BY <1>2 DEF IInv, Buffer, Fresh, Chain, LastPage
<1>4. Seen' /\ Over'
  BY <1>2 DEF IInv, Seen, Over, LimitReached, Buffered
<1>5. DeliveredInOrder' /\ FollowsTokens' /\ LoopsOnly' /\ NoTokenTwice' /\ PagesBounded'
  BY DEF IInv, DeliveredInOrder, FollowsTokens, LoopsOnly, NoTokenTwice, PagesBounded
<1>6. EndIsComplete'
  <2>1. /\ row_index = Len(delivered) /\ row_index <= served /\ Len(rows) = served
        /\ row_index \in Nat /\ served \in Nat
        /\ (maximum_rows # NoLimit => row_index <= maximum_rows)
    BY <1>2 DEF IInv, Buffer, TypeOK
  <2>2. CASE LimitReached
    <3>1. row_index = maximum_rows
      BY <2>1, <2>2 DEF LimitReached, IInv, TypeOK
    <3>2. QED BY <2>1, <3>1 DEF EndIsComplete
  <2>3. CASE ~LimitReached /\ ~Buffered /\ next = None
    <3>1. Len(delivered) = served
      BY <2>1, <2>3 DEF Buffered
    <3>2. pages # <<>>
      BY <1>2, <2>1, <2>3 DEF IInv, Chain, LimitReached, NoLimit
    <3>3. NextOf(LastPage) = None
      BY <1>2, <2>3, <3>2 DEF IInv, Chain
    <3>4. LastPage.token = None \/ LastPage.rows = 0
      BY <3>3 DEF NextOf
    <3>5. QED BY <3>1, <3>2, <3>4 DEF EndIsComplete, LastPage
  <2>4. QED BY <2>2, <2>3
<1>7. QED BY <1>1, <1>3, <1>4, <1>5, <1>6 DEF IInv

LEMMA ReturnRowStep ==
  ASSUME IInv, ReturnRow
  PROVE  IInv'
<1> USE DEF ReturnRow
<1>1. Live /\ Live' /\ phase # "beginning" /\ phase' # "beginning" /\ phase' = "open"
  BY DEF Live
<1>2. /\ row_index = Len(delivered) /\ row_index < served /\ Len(rows) = served
      /\ row_index \in Nat /\ served \in Nat /\ rows \in Seq(Row) /\ delivered \in Seq(Row)
      /\ (maximum_rows # NoLimit => row_index < maximum_rows)
  BY <1>1 DEF IInv, Buffer, TypeOK, LimitReached, Buffered
<1>3. ~ended
  BY <1>1 DEF IInv, Over
<1>4. row_index + 1 \in 1..served /\ rows[row_index + 1] = <<scan, row_index + 1>>
  BY <1>1, <1>2 DEF IInv, Buffer
<1>5. rows[row_index + 1] \in Row
  BY <1>2, <1>4, ElementOfSeq
<1>6. /\ delivered' \in Seq(Row) /\ Len(delivered') = row_index + 1
      /\ \A i \in 1..row_index : delivered'[i] = delivered[i]
      /\ delivered'[row_index + 1] = <<scan, row_index + 1>>
  BY <1>2, <1>4, <1>5
<1>7. TypeOK'
  BY <1>2, <1>6 DEF IInv, TypeOK
<1>8. Buffer' /\ Fresh' /\ Over'
  <2>1. maximum_rows # NoLimit => row_index + 1 <= maximum_rows
    BY <1>2 DEF IInv, TypeOK
  <2>2. QED BY <1>1, <1>2, <1>3, <1>6, <2>1 DEF IInv, Buffer, Fresh, Over
<1>9. Chain' /\ Seen'
  BY <1>1 DEF IInv, Chain, Seen, LastPage
<1>10. DeliveredInOrder'
  <2>1. Len(delivered') <= served'
    BY <1>2, <1>6
  <2>2. ASSUME NEW i \in 1..(row_index + 1)
        PROVE  delivered'[i] = <<scan, i>>
    <3>1. CASE i = row_index + 1
      BY <1>6, <3>1
    <3>2. CASE i # row_index + 1
      <4>1. i \in 1..row_index /\ i \in DOMAIN delivered
        BY <1>2, <3>2
      <4>2. QED BY <1>6, <4>1 DEF IInv, DeliveredInOrder
    <3>3. QED BY <3>1, <3>2
  <2>3. DOMAIN delivered' = 1..(row_index + 1)
    BY <1>6
  <2>4. QED BY <2>1, <2>2, <2>3 DEF DeliveredInOrder
<1>11. EndIsComplete' /\ FollowsTokens' /\ LoopsOnly' /\ NoTokenTwice' /\ PagesBounded'
  BY <1>3 DEF IInv, EndIsComplete, FollowsTokens, LoopsOnly, NoTokenTwice, PagesBounded
<1>12. QED BY <1>7, <1>8, <1>9, <1>10, <1>11 DEF IInv

LEMMA RowFailsStep ==
  ASSUME IInv, RowFails
  PROVE  IInv'
<1>1. TypeOK'
  BY DEF RowFails, IInv, TypeOK, Reasons
<1>2. QED BY <1>1, ScanStops DEF RowFails, Live

LEMMA ReScanStep ==
  ASSUME IInv, ReScan
  PROVE  IInv'
<1> USE DEF ReScan
<1>1. delivered' \in Seq(Row) /\ Len(delivered') = 0 /\ DOMAIN delivered' = {} /\ ~ended'
  OBVIOUS
<1>2. Live /\ Live' /\ phase' # "beginning" /\ phase # "beginning"
  BY DEF Live
<1>3. TypeOK'
  BY <1>1 DEF IInv, TypeOK
<1>4. Buffer' /\ Fresh' /\ Over'
  BY <1>1, <1>2 DEF IInv, Buffer, Fresh, Over, TypeOK, NoLimit
<1>5. Chain' /\ Seen'
  BY <1>2 DEF IInv, Chain, Seen, LastPage
<1>6. DeliveredInOrder' /\ EndIsComplete'
  BY <1>1 DEF IInv, TypeOK, DeliveredInOrder, EndIsComplete
<1>7. FollowsTokens' /\ LoopsOnly' /\ NoTokenTwice' /\ PagesBounded'
  BY DEF IInv, FollowsTokens, LoopsOnly, NoTokenTwice, PagesBounded
<1>8. QED BY <1>3, <1>4, <1>5, <1>6, <1>7 DEF IInv

LEMMA EndScanStep ==
  ASSUME IInv, EndScan
  PROVE  IInv'
<1>1. TypeOK'
  <2>1. rows' \in Seq(Row)
    BY DEF EndScan
  <2>2. QED BY <2>1 DEF EndScan, history, IInv, TypeOK
<1>2. QED BY <1>1, ScanStops DEF EndScan, history, Live

-----------------------------------------------------------------------------

LEMMA StutterStep ==
  ASSUME IInv, UNCHANGED vars
  PROVE  IInv'
<1> USE DEF vars, state, history
<1>1. TypeOK' /\ Buffer' /\ Fresh'
  BY DEF IInv, TypeOK, Buffer, Fresh, Live
<1>2. Chain' /\ Seen' /\ Over'
  BY DEF IInv, Chain, Seen, Over, Live, LastPage, LimitReached, Buffered
<1>3. DeliveredInOrder' /\ EndIsComplete' /\ FollowsTokens' /\ LoopsOnly' /\ NoTokenTwice' /\ PagesBounded'
  BY DEF IInv, DeliveredInOrder, EndIsComplete, LastPage, FollowsTokens, LoopsOnly, NoTokenTwice, PagesBounded
<1>4. QED BY <1>1, <1>2, <1>3 DEF IInv

LEMMA NextIInv == IInv /\ [Next]_vars => IInv'
<1> SUFFICES ASSUME IInv, [Next]_vars PROVE IInv'
  OBVIOUS
<1>1. CASE Begin
  <2>1. ASSUME NEW maximum \in Limits \cup {NoLimit}, BeginScan(maximum)
        PROVE  IInv'
    BY <2>1, NewScanStep DEF BeginScan
  <2>2. CASE BeginUnbound
    BY <2>2, NewScanStep DEF BeginUnbound
  <2>3. CASE BeginFails
    BY <2>3, BeginFailsStep
  <2>4. QED BY <1>1, <2>1, <2>2, <2>3 DEF Begin
<1>2. CASE Fetch
  <2>1. ASSUME NEW page \in Pages, FetchPage(page)
        PROVE  IInv'
    BY <2>1, FetchPageLoop, FetchPageGood
  <2>2. QED BY <1>2, <2>1, FetchRefusedStep, FetchUnusableStep, FetchFailsStep DEF Fetch
<1>3. CASE Iterate
  BY <1>3, IterScanStep, ReturnNoneStep, ReturnRowStep, RowFailsStep DEF Iterate
<1>4. CASE ReScan
  BY <1>4, ReScanStep
<1>5. CASE EndScan
  BY <1>5, EndScanStep
<1>6. CASE UNCHANGED vars
  BY <1>6, StutterStep
<1>7. QED BY <1>1, <1>2, <1>3, <1>4, <1>5, <1>6 DEF Next

THEOREM Invariance == Spec => []IInv
<1>1. Init => IInv
  BY InitIInv
<1>2. IInv /\ [Next]_vars => IInv'
  BY NextIInv
<1>3. QED BY <1>1, <1>2, PTL DEF Spec

-----------------------------------------------------------------------------
\* A scan's fields have their types, and pages_fetched never passes max_pages
\* (begin_scan, fetch_next_page, iter_scan, re_scan, end_scan).
THEOREM TypeCorrectness == Spec => []TypeOK
BY Invariance, PTL DEF IInv

\* Every pass over a foreign table, however its pages fall, delivers the rows
\* of its own scan in order, each once (iter_scan, re_scan).
THEOREM RowsInOrder == Spec => []DeliveredInOrder
BY Invariance, PTL DEF IInv

\* iter_scan says None only when the limit is used up or the collection is:
\* no page limit and no empty buffer truncates a result.
THEOREM NothingTruncated == Spec => []EndIsComplete
BY Invariance, PTL DEF IInv

\* Requests follow the chain of tokens the pages announce (fetch_next_page).
THEOREM TokensFollowed == Spec => []FollowsTokens
BY Invariance, PTL DEF IInv

\* The loop check accuses no origin that announces each token once, even on an
\* instance that has scanned before.
THEOREM NoFalseLoop == Spec => []LoopsOnly
BY Invariance, PTL DEF IInv

\* One scan follows no token twice: iter_scan stops a pagination that goes in circles.
THEOREM NoTokenFollowedTwice == Spec => []NoTokenTwice
BY Invariance, PTL DEF IInv

\* One scan makes max_pages requests at most.
THEOREM RequestsBounded == Spec => []PagesBounded
BY Invariance, PTL DEF IInv

\* iter_scan makes no request whose rows the statement cannot use.
THEOREM RequestsNeeded == Spec => NoNeedlessRequest
<1>1. ASSUME IInv, Next, requests' # requests, phase = "iterating"
      PROVE  Len(delivered) = served /\ (maximum_rows = NoLimit \/ served < maximum_rows)
  <2>1. Fetching
    BY <1>1 DEF Next, Begin, BeginScan, BeginUnbound, NewScan, BeginFails, Fetch, FetchRefused, FetchUnusable,
       FetchFails, FetchPage, Fail, Iterate, IterScan, ReturnNone, ReturnRow, RowFails, ReScan,
       EndScan, state, history
  <2>2. ~LimitReached /\ ~Buffered
    BY <1>1, <2>1 DEF Fetching
  <2>3. /\ row_index = Len(delivered) /\ row_index <= served /\ Len(rows) = served
        /\ row_index \in Nat /\ served \in Nat
    BY <1>1 DEF IInv, Buffer, Live, TypeOK
  <2>4. Len(delivered) = served
    BY <2>2, <2>3 DEF Buffered
  <2>5. maximum_rows = NoLimit \/ (maximum_rows \in Nat /\ row_index < maximum_rows)
    BY <1>1, <2>2, <2>3 DEF LimitReached, IInv, TypeOK
  <2>6. QED BY <2>3, <2>4, <2>5
<1>2. IInv /\ [Next]_vars =>
        [requests' # requests /\ phase = "iterating" =>
           Len(delivered) = served /\ (maximum_rows = NoLimit \/ served < maximum_rows)]_vars
  BY <1>1
<1>3. QED BY <1>2, Invariance, PTL DEF Spec, NoNeedlessRequest

-----------------------------------------------------------------------------
\* The refinement: fetching the first page opens the relation, a later page
\* makes more of it known, and a step of the loop that moves no row is hidden.

Status == IF phase = "failed" THEN "failed"
          ELSE IF ~Active THEN "closed" ELSE IF ended THEN "ended" ELSE "open"
Content == IF Active THEN rows ELSE <<>>
Complete == Active /\ next = None
Limit == IF Active THEN maximum_rows ELSE -1
Pass == IF Active THEN delivered ELSE <<>>

\* A step that leaves the scan outside its passes shows its status only.
LEMMA FailRefines ==
  ASSUME phase \in {"closed", "beginning", "open", "iterating"}, Active => ~ended, phase' = "failed"
  PROVE  Relation!Next
<1>1. Status \in {"closed", "open"}
  BY DEF Status, Active
<1>2. /\ Status' = "failed" /\ Content' = <<>> /\ ~Complete' /\ Limit' = -1 /\ Pass' = <<>>
  BY DEF Status, Content, Complete, Limit, Pass, Active
<1>3. Relation!Fail
  BY <1>1, <1>2 DEF Relation!Fail, Relation!Stop, Status, Content, Complete, Limit, Pass
<1>4. QED BY <1>3 DEF Relation!Next

\* The rows already known stay where they are when a page is appended.
LEMMA OpenRefines ==
  ASSUME IInv, ~Active, phase # "failed", Active', IInv', delivered' = <<>>, ~ended'
  PROVE  Relation!Next
<1>1. /\ rows' \in Seq(Row) /\ maximum_rows' \in (Limits \cup {0}) \cup {-1}
  BY DEF IInv, TypeOK, NoLimit
<1>2. /\ Status = "closed" /\ Status' = "open" /\ Content' = rows' /\ Complete' \in BOOLEAN
      /\ Limit' = maximum_rows' /\ Pass' = <<>>
  BY DEF Status, Content, Complete, Limit, Pass, Active
<1>3. Relation!Open
  BY <1>1, <1>2 DEF Relation!Open, Status, Content, Complete, Limit, Pass
<1>4. QED BY <1>3 DEF Relation!Next

LEMMA FetchPageRefines ==
  ASSUME IInv, IInv', NEW page \in Pages, FetchPage(page)
  PROVE  Relation!Next
<1>1. ~ended
  BY FetchingNotEnded DEF FetchPage
<1>2. CASE Repeats(NextOf(page))
  BY <1>1, <1>2, FailRefines DEF FetchPage, Fail, Fetching
<1>3. CASE ~Repeats(NextOf(page)) /\ phase = "beginning"
  <2>1. delivered = <<>> /\ ~ended
    BY <1>3 DEF IInv, Fresh
  <2>2. phase' = "open" /\ delivered' = delivered /\ ended' = ended
    BY <1>3 DEF FetchPage
  <2>3. QED BY <1>3, <2>1, <2>2, OpenRefines DEF Active
<1>4. CASE ~Repeats(NextOf(page)) /\ phase = "iterating"
  <2>1. /\ phase' = phase /\ Active /\ Active' /\ next # None
        /\ rows' = rows \o RowsOf(page)
        /\ UNCHANGED <<maximum_rows, delivered, ended>>
    BY <1>4 DEF FetchPage, Active, Fetching
  <2>2. rows' \in Seq(Row)
    BY DEF IInv, TypeOK
  <2>3. Relation!IsExtension(rows', rows)
    <3>1. /\ scan' = scan /\ Len(rows) = served /\ Len(rows') = served'
          /\ \A i \in 1..served : rows[i] = <<scan, i>>
          /\ \A i \in 1..served' : rows'[i] = <<scan, i>>
      BY <1>4, <2>1 DEF FetchPage, IInv, Buffer, Live, Active
    <3>2. served \in Nat /\ served' \in Nat /\ served <= served'
      BY PageServed DEF IInv, TypeOK
    <3>3. QED BY <3>1, <3>2 DEF Relation!IsExtension
  <2>4. /\ Status = "open" /\ Status' = "open" /\ Content = rows /\ Content' = rows'
        /\ ~Complete /\ Complete' \in BOOLEAN /\ Limit' = Limit /\ Pass' = Pass
    BY <1>1, <1>4, <2>1 DEF Status, Content, Complete, Limit, Pass, Active
  <2>5. Relation!Learn
    BY <2>2, <2>3, <2>4 DEF Relation!Learn, Status, Content, Complete, Limit, Pass
  <2>6. QED BY <2>5 DEF Relation!Next
<1>5. QED BY <1>2, <1>3, <1>4 DEF FetchPage, Fetching

LEMMA ReturnNoneRefines ==
  ASSUME IInv, ReturnNone
  PROVE  Relation!Next \/ UNCHANGED Relation!vars
<1> USE DEF ReturnNone, state
<1>1. /\ Active /\ Active' /\ phase # "failed" /\ phase' # "failed" /\ Live
      /\ UNCHANGED <<rows, next, maximum_rows, delivered>> /\ ended'
  BY DEF Active, Live
<1>2. /\ Status' = "ended" /\ UNCHANGED <<Content, Complete, Limit, Pass>>
      /\ Content = rows /\ Complete = (next = None) /\ Limit = maximum_rows /\ Pass = delivered
  BY <1>1 DEF Status, Content, Complete, Limit, Pass
<1>3. CASE ended
  <2>1. Status = "ended"
    BY <1>1, <1>3 DEF Status
  <2>2. QED BY <1>2, <2>1 DEF Relation!vars, Status, Content, Complete, Limit, Pass
<1>4. CASE ~ended
  <2>1. Status = "open"
    BY <1>1, <1>4 DEF Status
  <2>2. /\ row_index = Len(delivered) /\ row_index <= served /\ Len(rows) = served
        /\ row_index \in Nat /\ served \in Nat
        /\ (maximum_rows # NoLimit => row_index <= maximum_rows)
        /\ maximum_rows \in Nat \cup {NoLimit}
    BY <1>1 DEF IInv, Buffer, TypeOK
  <2>3. \/ Len(delivered) = maximum_rows
        \/ next = None /\ Len(delivered) = Len(rows)
    BY <2>2 DEF LimitReached, Buffered, NoLimit
  <2>4. Relation!End
    BY <1>2, <2>1, <2>3 DEF Relation!End, Status, Content, Complete, Limit, Pass
  <2>5. QED BY <2>4 DEF Relation!Next
<1>5. QED BY <1>3, <1>4

LEMMA ReturnRowRefines ==
  ASSUME IInv, ReturnRow
  PROVE  Relation!Next
<1> USE DEF ReturnRow
<1>1. /\ Active /\ Active' /\ phase # "failed" /\ phase' # "failed" /\ Live /\ phase # "beginning"
      /\ UNCHANGED <<rows, next, maximum_rows, ended>>
  BY DEF Active, Live
<1>2. ~ended
  BY <1>1 DEF IInv, Over
<1>3. /\ Status = "open" /\ UNCHANGED <<Status, Content, Complete, Limit>>
      /\ Content = rows /\ Limit = maximum_rows /\ Pass = delivered /\ Pass' = delivered'
  BY <1>1, <1>2 DEF Status, Content, Complete, Limit, Pass
<1>4. /\ row_index = Len(delivered) /\ row_index < Len(rows) /\ row_index \in Nat
      /\ (maximum_rows # NoLimit => row_index < maximum_rows)
  <2>1. ~LimitReached /\ Buffered
    OBVIOUS
  <2>2. row_index = Len(delivered) /\ row_index \in Nat /\ maximum_rows \in Nat \cup {NoLimit}
    BY <1>1 DEF IInv, Buffer, TypeOK
  <2>3. QED BY <2>1, <2>2 DEF LimitReached, Buffered, NoLimit
<1>5. delivered' = Append(delivered, rows[Len(delivered) + 1])
  BY <1>4
<1>6. Relation!Deliver
  BY <1>3, <1>4, <1>5 DEF Relation!Deliver, Status, Content, Complete, Limit, Pass, NoLimit
<1>7. QED BY <1>6 DEF Relation!Next

LEMMA ReScanRefines ==
  ASSUME ReScan
  PROVE  Relation!Next
<1>1. /\ Active /\ Active' /\ phase # "failed" /\ phase' # "failed"
      /\ UNCHANGED <<rows, next, maximum_rows>> /\ delivered' = <<>> /\ ~ended'
  BY DEF ReScan, Active
<1>2. /\ Status \in {"open", "ended"} /\ Status' = "open" /\ Pass' = <<>>
      /\ UNCHANGED <<Content, Complete, Limit>>
  BY <1>1 DEF Status, Content, Complete, Limit, Pass
<1>3. Relation!Restart
  BY <1>2 DEF Relation!Restart, Status, Content, Complete, Limit, Pass
<1>4. QED BY <1>3 DEF Relation!Next

LEMMA EndScanRefines ==
  ASSUME EndScan
  PROVE  Relation!Next
<1>1. Active /\ phase # "failed" /\ ~Active' /\ phase' # "failed"
  BY DEF EndScan, Active
<1>2. /\ Status \in {"open", "ended"} /\ Status' = "closed"
      /\ Content' = <<>> /\ ~Complete' /\ Limit' = -1 /\ Pass' = <<>>
  BY <1>1 DEF Status, Content, Complete, Limit, Pass
<1>3. Relation!Close
  BY <1>2 DEF Relation!Close, Relation!Stop, Status, Content, Complete, Limit, Pass
<1>4. QED BY <1>3 DEF Relation!Next

\* What the executor cannot see.
LEMMA StepHidden ==
  ASSUME Active' <=> Active, phase' # "failed" /\ phase # "failed",
         Active => UNCHANGED <<next, rows, maximum_rows, delivered, ended>>
  PROVE  UNCHANGED Relation!vars
BY DEF Relation!vars

\* begin_scan, iter_scan, re_scan and end_scan over pages implement a scan of
\* one sequence of rows.
THEOREM Refinement == Spec => ImplementsRelationScan
<1>1. Init => Relation!Init
  BY DEF Init, Relation!Init, Active
<1>2. IInv /\ IInv' /\ [Next]_vars => [Relation!Next]_Relation!vars
  <2> SUFFICES ASSUME IInv, IInv', [Next]_vars
               PROVE  Relation!Next \/ UNCHANGED Relation!vars
    OBVIOUS
  <2>1. CASE Begin
    <3>1. CASE \E maximum \in Limits \cup {NoLimit} : BeginScan(maximum)
      BY <3>1, StepHidden DEF BeginScan, NewScan, Active
    <3>2. CASE BeginUnbound
      BY <3>2, OpenRefines DEF BeginUnbound, NewScan, Active
    <3>3. CASE BeginFails
      BY <3>3, FailRefines DEF BeginFails, Active
    <3>4. QED BY <2>1, <3>1, <3>2, <3>3 DEF Begin
  <2>2. CASE Fetch
    <3>1. CASE FetchRefused \/ FetchUnusable \/ FetchFails
      <4>1. Fetching /\ phase' = "failed"
        BY <3>1 DEF FetchRefused, FetchUnusable, FetchFails, Fail
      <4>2. QED BY <4>1, FetchingNotEnded, FailRefines DEF Fetching
    <3>2. QED BY <2>2, <3>1, FetchPageRefines DEF Fetch
  <2>3. CASE Iterate
    <3>1. CASE IterScan
      BY <3>1, StepHidden DEF IterScan, Active, state, history
    <3>2. CASE RowFails
      <4>1. ~ended
        BY <3>2 DEF RowFails, IInv, Over, Live
      <4>2. QED BY <3>2, <4>1, FailRefines DEF RowFails
    <3>3. QED BY <2>3, <3>1, <3>2, ReturnNoneRefines, ReturnRowRefines DEF Iterate
  <2>4. CASE ReScan
    BY <2>4, ReScanRefines
  <2>5. CASE EndScan
    BY <2>5, EndScanRefines
  <2>6. CASE UNCHANGED vars
    BY <2>6 DEF vars, state, history, Relation!vars, Active
  <2>7. QED BY <2>1, <2>2, <2>3, <2>4, <2>5, <2>6 DEF Next
<1>3. QED BY <1>1, <1>2, Invariance, PTL DEF Spec, Relation!Spec, ImplementsRelationScan
=============================================================================
