---------------------------- MODULE RelationScan ----------------------------
(***************************************************************************)
(* What PostgreSQL's executor may assume of a scan of a foreign table: the *)
(* contract of begin_scan, iter_scan, re_scan and end_scan (src/src/fdw.rs)*)
(* seen from the outside, without pages, tokens or buffers.                *)
(*                                                                         *)
(* A scan reads one sequence of rows, which becomes known as it goes and   *)
(* never changes once known.  Every pass delivers a prefix of it, in order *)
(* and without gaps; a pass that ends has delivered all of it, or as many  *)
(* rows as the statement can use.  A scan that cannot go on fails, it does *)
(* not end.                                                                *)
(***************************************************************************)
EXTENDS Integers, Sequences

CONSTANTS
  Row,          \* the rows a scan can read
  Limits        \* the numbers of rows after which a scan may stop

VARIABLES
  status,       \* closed, open, ended (the pass is over) or failed
  content,      \* the rows of the relation known so far
  complete,     \* TRUE when content is the whole relation
  limit,        \* how many rows the statement can use; -1 if not known
  delivered     \* the rows delivered in the current pass

vars == <<status, content, complete, limit, delivered>>

Init ==
  /\ status = "closed" /\ content = <<>> /\ complete = FALSE
  /\ limit = -1 /\ delivered = <<>>

IsExtension(longer, shorter) ==
  /\ Len(shorter) <= Len(longer)
  /\ \A i \in 1..Len(shorter) : longer[i] = shorter[i]

Open ==
  /\ status = "closed"
  /\ status' = "open"
  /\ content' \in Seq(Row)
  /\ complete' \in BOOLEAN
  /\ limit' \in Limits \cup {-1}
  /\ delivered' = <<>>

\* More of the relation becomes known; nothing of it is forgotten or altered.
Learn ==
  /\ status = "open" /\ ~complete
  /\ content' \in Seq(Row) /\ IsExtension(content', content)
  /\ complete' \in BOOLEAN
  /\ UNCHANGED <<status, limit, delivered>>

Deliver ==
  /\ status = "open"
  /\ Len(delivered) < Len(content)
  /\ limit # -1 => Len(delivered) < limit
  /\ delivered' = Append(delivered, content[Len(delivered) + 1])
  /\ UNCHANGED <<status, content, complete, limit>>

End ==
  /\ status = "open"
  /\ \/ complete /\ Len(delivered) = Len(content)
     \/ Len(delivered) = limit
  /\ status' = "ended"
  /\ UNCHANGED <<content, complete, limit, delivered>>

\* A new pass over the same rows.
Restart ==
  /\ status \in {"open", "ended"}
  /\ status' = "open"
  /\ delivered' = <<>>
  /\ UNCHANGED <<content, complete, limit>>

\* The scan is given up, or over: nothing of it remains.
Stop(s) ==
  /\ status' = s
  /\ content' = <<>> /\ complete' = FALSE /\ limit' = -1 /\ delivered' = <<>>

Fail == status \in {"closed", "open"} /\ Stop("failed")

Close == status \in {"open", "ended"} /\ Stop("closed")

Next == Open \/ Learn \/ Deliver \/ End \/ Restart \/ Fail \/ Close

Spec == Init /\ [][Next]_vars
=============================================================================
