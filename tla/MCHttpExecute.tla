--------------------------- MODULE MCHttpExecute ----------------------------
(* Instances of HttpExecute for TLC. *)
EXTENDS HttpExecute

\* A scan's GET, which is retried, and an INSERT's POST, which is not.
MCOperations == {[method |-> "GET", json |-> TRUE], [method |-> "POST", json |-> FALSE]}

\* Longer than the cap.
MCRetryAfter == {3}
=============================================================================
