----------------------------- MODULE PageLinks ------------------------------
(***************************************************************************)
(* How a page says where the next one is: find_next of                     *)
(* src/src/response.rs, and what resolve_page_url of src/src/http.rs makes *)
(* of an address found there.                                              *)
(*                                                                         *)
(* A body is the scalars it has at JSON pointers (`texts`: strings and     *)
(* numbers; anything else is absent) and its booleans (`flags`).           *)
(***************************************************************************)
EXTENDS Integers, Sequences

\* A text that may be an address is a record: `form` is how it is written, "absolute",
\* "query", "rooted" or "plain", and `to` the request it stands for.

NextUrlPaths ==
  <<"/meta/pagination/next", "/meta/pagination/next_url", "/pagination/next", "/pagination/next_url",
    "/links/next", "/links/next_url", "/next", "/next_url", "/_links/next/href">>

HasMorePaths == <<"/meta/pagination/has_more", "/pagination/has_more", "/has_more">>

CursorPaths ==
  <<"/meta/pagination/next_cursor", "/pagination/next_cursor", "/next_cursor", "/cursor">>

UrlToken(text) == [kind |-> "url", text |-> text]

CursorToken(text) == [kind |-> "cursor", text |-> text]

Least(positions) == {i \in positions : \A j \in positions : i <= j}

\* The first pointer of a list that a body has, if any.
FirstOf(pointers, map) ==
  {pointers[i] : i \in Least({j \in DOMAIN pointers : pointers[j] \in DOMAIN map})}

\* classify_token: what does not look like an address is a cursor.
ClassifyToken(text) == IF text.form = "plain" THEN CursorToken(text) ELSE UrlToken(text)

HasMore(body) == \E pointer \in FirstOf(HasMorePaths, body.flags) : body.flags[pointer]

\* Where a token may be found, in order: the table's cursor_path, a Link header,
\* the usual members for addresses, and those for cursors when there is more.
Candidates(page, table) ==
  LET texts == page.body.texts
  IN  <<{ClassifyToken(texts[pointer]) : pointer \in {table.cursor_path} \cap DOMAIN texts},
        {UrlToken(text) : text \in page.link},
        {UrlToken(texts[pointer]) : pointer \in FirstOf(NextUrlPaths, texts)},
        {CursorToken(texts[pointer]) : pointer \in IF HasMore(page.body) THEN FirstOf(CursorPaths, texts) ELSE {}}>>

\* The token of the next page, if there is one.
FindNext(page, table) ==
  LET candidates == Candidates(page, table)
  IN  UNION {candidates[i] : i \in Least({j \in DOMAIN candidates : candidates[j] # {}})}

\* normalize_page: the token of an empty page is not followed.
NextOf(page, table) ==
  IF table.pagination = "none" \/ page.rows = <<>> THEN {} ELSE FindNext(page, table)

\* Seeded fault: a query-only address forgets the path of the current one.
FaultFromBase(base, current, text) ==
  IF text.form = "absolute" THEN text.to ELSE [text.to EXCEPT !.origin = base.origin, !.path = base.path]

\* resolve_page_url: a query replaces the one of the current address, a rooted path
\* starts at the base's origin, any other reference at the current address.
ResolvePageUrl(base, current, text) ==
  CASE text.form = "absolute" -> text.to
    [] text.form = "query" -> [text.to EXCEPT !.origin = current.origin, !.path = current.path]
    [] text.form = "rooted" -> [text.to EXCEPT !.origin = base.origin]
    [] OTHER -> [text.to EXCEPT !.origin = current.origin]

SameOrigin(base, address) == base.origin = address.origin
=============================================================================
