---------------------------- MODULE SourceModel -----------------------------
(***************************************************************************)
(* The values the control plane works with (src/control-plane/src/model.rs *)
(* and sql.rs): source definitions, the foreign servers made of them, and  *)
(* the requests that ask for them.                                         *)
(***************************************************************************)
EXTENDS Integers, Sequences, FiniteSets

CONSTANTS
  Names,        \* names of sources, which are names of foreign servers
  Tables,       \* names of tables an OpenAPI document may give rise to
  Definitions,  \* source definitions
  Selected,     \* for each definition, the tables it selects; {} selects all
  Operations    \* the requests administrators may send

None == "none"  \* no definition

ASSUME DefinitionsAssumption == None \notin Definitions
ASSUME TablesAssumption == IsFiniteSet(Tables)
ASSUME SelectedAssumption == Selected \in [Definitions -> SUBSET Tables]

\* A foreign server; one made by SQL has no definition.
Server ==
  [wrapper : {"none", "openapi_fdw", "other"},
   definition : Definitions \cup {None},
   tables : SUBSET Tables]

Absent == [wrapper |-> "none", definition |-> None, tables |-> {}]

\* What SQL users may leave under a name; the tables they make are not followed.
Unmanaged == {server \in Server : server.definition = None /\ server.tables = {}}

\* What source_plan makes of a definition, once its tables are imported.
ServerOf(definition, tables) ==
  [wrapper |-> "openapi_fdw", definition |-> definition, tables |-> tables]

Entry == [name : Names, definition : Definitions \cup {None}]

\* A bundle names no source twice (Bundle::validate); a delete names one.
ASSUME SomeOperation == Operations # {}
ASSUME OperationsAssumption ==
  \A operation \in Operations :
    /\ operation \in [kind : {"apply", "delete"}, replace : BOOLEAN, bundle : Seq(Entry)]
    /\ operation.bundle # <<>>
    /\ \A i, j \in DOMAIN operation.bundle :
         operation.bundle[i].name = operation.bundle[j].name => i = j
    /\ operation.kind = "apply" =>
         \A i \in DOMAIN operation.bundle : operation.bundle[i].definition # None
    /\ operation.kind = "delete" =>
         Len(operation.bundle) = 1 /\ operation.bundle[1].definition = None

\* LIMIT TO leaves some of the selected tables at most; apply_bundle counts them.
Complete(definition, tables) ==
  tables # {} /\ (Selected[definition] # {} => tables = Selected[definition])
=============================================================================
