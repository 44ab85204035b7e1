--------------------------- MODULE WriteStatement ---------------------------
(***************************************************************************)
(* INSERT, UPDATE and DELETE on a foreign table (src/src/fdw.rs):          *)
(* begin_modify, insert, update, delete and end_modify, called once for    *)
(* every row that the executor takes from a scan of the same table.  The   *)
(* scan fetches its pages as it goes (module Scan), so requests that read  *)
(* and requests that write alternate, and the origin acts on a write when  *)
(* it gets to it (module RemoteCall): during the call, or later.           *)
(***************************************************************************)
EXTENDS Integers, Sequences, SequencesExt, FiniteSets

CONSTANTS
  Ids,             \* identities of the origin's rows, in the order of its pages
  Kinds,           \* the statements issued: insert, update, delete
  IdempotentKinds, \* those sent with PUT or DELETE
  PageRows,        \* rows of a page
  MaxCalls,        \* bound: mutations sent by the session
  MaxEffects,      \* bound: times the origin carries one call out
  MaxChanges       \* bound: rows other clients add or remove

ASSUME IdsAssumption == Ids \subseteq Nat \ {0} /\ IsFiniteSet(Ids)
ASSUME KindsAssumption ==
  Kinds \subseteq {"insert", "update", "delete"} /\ IdempotentKinds \subseteq Kinds
ASSUME BoundsAssumption ==
  PageRows \in Nat \ {0} /\ MaxCalls \in Nat /\ MaxEffects \in Nat /\ MaxChanges \in Nat

Calls == 1..MaxCalls
None == -1   \* no next page

VARIABLES
  keyset,      \* the origin's pages continue after the last row served, or else at a position
  collection,  \* the origin's rows
  pc,          \* idle, scan, call, done, failed
  kind,        \* of the statement, or "none"
  buffered,    \* rows the executor has yet to be given
  next,        \* where the next page begins, or None
  calls,       \* mutations sent by the session
  first,       \* the first one of the statement
  target,      \* row each mutation is about
  op,          \* statement it belongs to, by kind
  idempotent, effects, result,  \* the calls, as RemoteCall describes them
  initial,     \* history: the origin's rows when the statement began
  changed,     \* history: rows changed since, but not by it: by other clients, or
               \* by an earlier statement's call that the origin gets to only now
  changes      \* number of those changes in all

remote == <<idempotent, effects, result>>
vars == <<keyset, collection, pc, kind, buffered, next, calls, first, target, op, remote,
          initial, changed, changes>>

Contract == INSTANCE RemoteCall WITH MayRedirect <- FALSE

Init ==
  /\ keyset \in BOOLEAN
  /\ collection \in SUBSET Ids
  /\ pc = "idle" /\ kind = "none"
  /\ buffered = <<>> /\ next = None
  /\ calls = 0 /\ first = 1
  /\ target = [c \in Calls |-> None]
  /\ op = [c \in Calls |-> "none"]
  /\ Contract!Init
  /\ initial = {} /\ changed = {} /\ changes = 0

-----------------------------------------------------------------------------
\* The statement.

\* Rows in the order of the origin's pages.
Ordered(ids) ==
  CHOOSE sequence \in [1..Cardinality(ids) -> ids] :
    \A i, j \in DOMAIN sequence : i < j => sequence[i] < sequence[j]

\* begin_scan and begin_modify; an INSERT takes its rows from the executor.
Begin(k) ==
  /\ pc \in {"idle", "done", "failed"}
  /\ pc' = "scan"
  /\ kind' = k
  /\ first' = calls + 1
  /\ IF k = "insert"
     THEN next' = None /\ \E new \in SUBSET (Ids \ collection) : buffered' = Ordered(new)
     ELSE next' = 0 /\ buffered' = <<>>
  /\ initial' = collection /\ changed' = {}
  /\ UNCHANGED <<keyset, collection, calls, target, op, remote, changes>>

\* The rows that follow a position: the last identity served, or a count of rows.
Following(position) ==
  IF keyset THEN Ordered({id \in collection : id > position})
  ELSE SubSeq(Ordered(collection), position + 1, Cardinality(collection))

\* Seeded fault: the last page's token is not taken.
FaultKeepToken(page, more) ==
  IF ~more THEN next ELSE IF keyset THEN Last(page) ELSE next + Len(page)

\* The token of a page with more rows after it.
Token(page, more) ==
  IF ~more THEN None ELSE IF keyset THEN Last(page) ELSE next + Len(page)

FetchPage ==
  /\ pc = "scan" /\ buffered = <<>> /\ next # None
  /\ LET rest == Following(next)
         page == SubSeq(rest, 1, IF Len(rest) < PageRows THEN Len(rest) ELSE PageRows)
     IN  /\ buffered' = page
         /\ next' = Token(page, Len(rest) > PageRows)
  /\ UNCHANGED <<keyset, collection, pc, kind, calls, first, target, op, remote, initial, changed, changes>>

\* iter_scan or begin_modify fails, or the request cannot be built (the operation
\* is disabled, the identity or the body is not usable): nothing is sent.
Reject ==
  /\ pc = "scan"
  /\ pc' = "failed"
  /\ UNCHANGED <<keyset, collection, kind, buffered, next, calls, first, target, op, remote,
                 initial, changed, changes>>

\* insert, update or delete for the next row: execute_mutation begins.
Send ==
  /\ pc = "scan" /\ buffered # <<>> /\ calls < MaxCalls
  /\ pc' = "call"
  /\ calls' = calls + 1
  /\ target' = [target EXCEPT ![calls + 1] = Head(buffered)]
  /\ op' = [op EXCEPT ![calls + 1] = kind]
  /\ buffered' = Tail(buffered)
  /\ Contract!Start(calls + 1)
  /\ idempotent' = [idempotent EXCEPT ![calls + 1] = kind \in IdempotentKinds]
  /\ UNCHANGED <<keyset, collection, kind, next, first, initial, changed, changes>>

\* Seeded fault: the statement goes on after a mutation has failed.
FaultGoOn(r) == "scan"

\* `?` in the callbacks: an error ends the statement.
AfterCall(r) == IF r = "ok" THEN "scan" ELSE "failed"

\* execute_mutation returns.
Return(r) ==
  /\ pc = "call"
  /\ Contract!Return(calls, r)
  /\ pc' = AfterCall(r)
  /\ UNCHANGED <<keyset, collection, kind, buffered, next, calls, first, target, op, initial, changed, changes>>

\* Seeded fault: the end of a page is taken for the end of the rows.
FaultEndOfPage == buffered = <<>>

Exhausted == buffered = <<>> /\ next = None

\* end_modify and end_scan.
Finish ==
  /\ pc = "scan" /\ Exhausted
  /\ pc' = "done"
  /\ UNCHANGED <<keyset, collection, kind, buffered, next, calls, first, target, op, remote,
                 initial, changed, changes>>

-----------------------------------------------------------------------------
\* The origin (external), and its other clients.

Effect(c) ==
  /\ effects[c] < MaxEffects
  /\ Contract!Effect(c)
  /\ collection' = CASE op[c] = "insert" -> collection \cup {target[c]}
                     [] op[c] = "update" -> collection
                     [] op[c] = "delete" -> collection \ {target[c]}
  /\ changed' = IF c < first THEN changed \cup {target[c]} ELSE changed
  /\ UNCHANGED <<keyset, pc, kind, buffered, next, calls, first, target, op, initial, changes>>

OtherClient(id) ==
  /\ changes < MaxChanges
  /\ changes' = changes + 1
  /\ collection' = IF id \in collection THEN collection \ {id} ELSE collection \cup {id}
  /\ changed' = changed \cup {id}
  /\ UNCHANGED <<keyset, pc, kind, buffered, next, calls, first, target, op, remote, initial>>

-----------------------------------------------------------------------------

Statement ==
  \/ \E k \in Kinds : Begin(k)
  \/ FetchPage
  \/ Reject
  \/ Send
  \/ \E r \in {"ok", "error"} : Return(r)
  \/ Finish

Next ==
  \/ Statement
  \/ \E c \in Calls : Effect(c)
  \/ \E id \in Ids : OtherClient(id)

Spec == Init /\ [][Next]_vars

-----------------------------------------------------------------------------
\* Properties.

TypeOK ==
  /\ collection \subseteq Ids
  /\ pc \in {"idle", "scan", "call", "done", "failed"}
  /\ kind \in Kinds \cup {"none"}
  /\ buffered \in Seq(Ids)
  /\ next \in Nat \cup {None}
  /\ calls \in 0..MaxCalls /\ first \in 1..(MaxCalls + 1)
  /\ target \in [Calls -> Ids \cup {None}]
  /\ op \in [Calls -> Kinds \cup {"none"}]
  /\ idempotent \in [Calls -> BOOLEAN]
  /\ effects \in [Calls -> Nat]
  /\ result \in [Calls -> {"unused", "pending", "ok", "error"}]
  /\ initial \subseteq Ids /\ changed \subseteq Ids
  /\ changes \in 0..MaxChanges

\* "a multi-row statement sends one request at a time and can partially succeed":
\* a statement that stops has carried out every row before the one it stopped at,
\* so that one row at most is in doubt.
OneRowInDoubt ==
  \A c \in first..calls :
    c = calls \/ (result[c] = "ok" /\ effects[c] > 0)

\* No row is given to a statement twice, and so none is changed twice by a method
\* that is not idempotent, as long as pages do not shift under the scan.
EachRowOnce ==
  keyset =>
    \A id \in Ids :
      LET about == {c \in first..calls : target[c] = id /\ op[c] # "insert"}
      IN  /\ Cardinality(about) <= 1
          /\ \A c \in about : idempotent[c] \/ effects[c] <= 1

\* A statement that succeeds has changed every row that was there when it began,
\* but for those something else changed meanwhile, unless pages shift under the
\* scan: those of a DELETE do when they are counted by position.
NothingLeft ==
  pc = "done" /\ kind # "insert" /\ (keyset \/ (kind = "update" /\ changed = {})) =>
    \A id \in initial \ changed :
      \E c \in first..calls : target[c] = id /\ effects[c] > 0
=============================================================================
