----------------------------- MODULE RemoteCall -----------------------------
(***************************************************************************)
(* What the FDW's callers may assume of one HTTP call, whatever happens on *)
(* the wire: the contract that execute_mutation and execute_json (src/     *)
(* src/http.rs) offer to scans and writes.                                 *)
(*                                                                         *)
(* The effect of a call that HTTP does not define as idempotent happens at *)
(* most once, whatever the call reports and however late the origin acts.  *)
(* A call reported as done had an effect, unless the origin answered by a  *)
(* redirect and the answer came from the redirect's target.  An error says *)
(* nothing: the effect may have happened, or may still happen.             *)
(***************************************************************************)
EXTENDS Integers

CONSTANTS
  Calls,          \* identities of the calls a session makes
  MayRedirect     \* TRUE when the server configuration follows redirects

VARIABLES
  idempotent,     \* for each call: does HTTP define its method as idempotent
  effects,        \* for each call: how many times the origin carried it out
  result          \* for each call: unused, pending, ok or error

vars == <<idempotent, effects, result>>

Init ==
  /\ idempotent = [c \in Calls |-> FALSE]
  /\ effects = [c \in Calls |-> 0]
  /\ result = [c \in Calls |-> "unused"]

Start(c) ==
  /\ result[c] = "unused"
  /\ \E i \in BOOLEAN : idempotent' = [idempotent EXCEPT ![c] = i]
  /\ result' = [result EXCEPT ![c] = "pending"]
  /\ UNCHANGED effects

\* The origin carries the call out, possibly after the caller gave up on it.
Effect(c) ==
  /\ result[c] # "unused"
  /\ idempotent[c] \/ effects[c] = 0
  /\ effects' = [effects EXCEPT ![c] = @ + 1]
  /\ UNCHANGED <<idempotent, result>>

Return(c, r) ==
  /\ result[c] = "pending"
  /\ r = "ok" => MayRedirect \/ effects[c] > 0
  /\ result' = [result EXCEPT ![c] = r]
  /\ UNCHANGED <<idempotent, effects>>

Next ==
  \E c \in Calls :
    \/ Start(c)
    \/ Effect(c)
    \/ \E r \in {"ok", "error"} : Return(c, r)

Spec == Init /\ [][Next]_vars
=============================================================================
