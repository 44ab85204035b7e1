--------------------------- MODULE SourceRegistry ---------------------------
(***************************************************************************)
(* What administrators may assume of the control plane                     *)
(* (src/control-plane/src/db.rs): a registry of sources which each request *)
(* to apply, import or delete changes in one step, all of it or nothing,   *)
(* whatever the other requests do at the same time.                        *)
(***************************************************************************)
EXTENDS SourceModel

VARIABLES
  servers,      \* for each name, its foreign server
  sources       \* for each name, the definition on record

vars == <<servers, sources>>

\* Before the control plane is used: any servers of SQL users, none on record.
Init ==
  /\ servers \in [Names -> Unmanaged]
  /\ sources = [n \in Names |-> None]

\* Every source of a bundle is set up as its definition says.  Servers of other
\* wrappers are left alone, and so is every server unless replacing was asked for.
Apply(operation) ==
  /\ operation.kind = "apply"
  /\ \A i \in DOMAIN operation.bundle :
       LET name == operation.bundle[i].name
           definition == operation.bundle[i].definition
       IN  /\ servers[name].wrapper # "other"
           /\ operation.replace \/ servers[name] = Absent
           /\ \E tables \in SUBSET Tables :
                Complete(definition, tables) /\ servers'[name] = ServerOf(definition, tables)
           /\ sources'[name] = definition

Delete(operation) ==
  /\ operation.kind = "delete"
  /\ \A i \in DOMAIN operation.bundle :
       LET name == operation.bundle[i].name
       IN  /\ servers[name].wrapper = "openapi_fdw"
           /\ servers'[name] = Absent
           /\ sources'[name] = None

\* Nothing else changes.
Perform(operation) ==
  /\ Apply(operation) \/ Delete(operation)
  /\ servers' \in [Names -> Server] /\ sources' \in [Names -> Definitions \cup {None}]
  /\ \A n \in Names :
       (\A i \in DOMAIN operation.bundle : operation.bundle[i].name # n) =>
         servers'[n] = servers[n] /\ sources'[n] = sources[n]

Next == \E operation \in Operations : Perform(operation)

Spec == Init /\ [][Next]_vars
=============================================================================
