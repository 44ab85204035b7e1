---------------------------- MODULE ImportDialog ----------------------------
(***************************************************************************)
(* The dialog that imports a bundle (src/control-plane/assets/app.js):     *)
(* openImport, planImport, applyImport, invalidateImportPlan and           *)
(* loadImportFile.  Handlers run to their next await; the answers they     *)
(* wait for arrive in any order, whatever the dialog shows by then.        *)
(* Names are apart from those of ControlPlane, so that a module may extend *)
(* both.                                                                   *)
(***************************************************************************)
EXTENDS Integers, FiniteSets

CONSTANTS
  Texts,       \* what the editor may hold
  Bundles,     \* those that are JSON
  NoPlan,      \* no plan
  MaxRequests, \* bound: requests and file reads under way
  MaxActions   \* bound: things the administrator does

ASSUME TextsAssumption == Bundles \subseteq Texts
ASSUME BoundsAssumption == MaxRequests \in Nat /\ MaxActions \in Nat

VARIABLES
  open,      \* the dialog
  text,      \* import-json
  replace,   \* replace-import
  armed,     \* state.importBundle: a bundle and a choice of replace, or NoPlan
  panel,     \* the plan that import-plan-panel shows, or NoPlan when hidden
  enabled,   \* apply-import-button
  plans,     \* plan requests under way
  applies,   \* apply requests under way
  reloads,   \* applyImport calls waiting for loadState
  files,     \* files being read
  actions    \* number of things done

page == <<open, text, replace, armed, panel, enabled>>
dialogVars == <<page, plans, applies, reloads, files, actions>>

Request == [id : 1..MaxActions, bundle : Bundles, replace : BOOLEAN]

DialogInit ==
  /\ open = FALSE /\ text \in Texts /\ replace = FALSE
  /\ armed = NoPlan /\ panel = NoPlan /\ enabled = FALSE
  /\ plans = {} /\ applies = {} /\ reloads = 0 /\ files = {}
  /\ actions = 0

-----------------------------------------------------------------------------
\* The administrator, for whom only the dialog is there while it is open.

Act == actions < MaxActions /\ actions' = actions + 1

Pending == Cardinality(plans) + Cardinality(applies) + Cardinality(files)

\* Seeded fault: the plan stays in force.
FaultInvalidate == panel' = NoPlan /\ enabled' = FALSE /\ UNCHANGED armed

\* invalidateImportPlan.
Invalidate == armed' = NoPlan /\ panel' = NoPlan /\ enabled' = FALSE

OpenImport ==
  /\ ~open /\ Act
  /\ open' = TRUE
  /\ Invalidate
  /\ UNCHANGED <<text, replace, plans, applies, reloads, files>>

Cancel ==
  /\ open /\ Act
  /\ open' = FALSE
  /\ UNCHANGED <<text, replace, armed, panel, enabled, plans, applies, reloads, files>>

\* An input event of import-json, a change event of replace-import.
Edit(t, r) ==
  /\ open /\ <<t, r>> # <<text, replace>> /\ Act
  /\ text' = t /\ replace' = r
  /\ Invalidate
  /\ UNCHANGED <<open, plans, applies, reloads, files>>

\* loadImportFile, then its file.text().
ChooseFile(t) ==
  /\ open /\ Pending < MaxRequests /\ Act
  /\ files' = files \cup {t}
  /\ UNCHANGED <<page, plans, applies, reloads>>

FileRead(t) ==
  /\ t \in files
  /\ files' = files \ {t}
  /\ text' = t
  /\ Invalidate
  /\ UNCHANGED <<open, replace, plans, applies, reloads, actions>>

FileFails(t) ==
  /\ t \in files
  /\ files' = files \ {t}
  /\ UNCHANGED <<page, plans, applies, reloads, actions>>

-----------------------------------------------------------------------------
\* planImport.

\* Seeded fault: the text is sent as it is.
FaultParses(t) == TRUE

\* JSON.parse.
Parses(t) == t \in Bundles

PlanImport ==
  /\ open /\ Act
  /\ Invalidate
  /\ \/ ~Parses(text) /\ UNCHANGED plans
     \/ /\ Parses(text) /\ Pending < MaxRequests
        /\ plans' = plans \cup {[id |-> actions', bundle |-> text, replace |-> replace]}
  /\ UNCHANGED <<open, text, replace, applies, reloads, files>>

\* Seeded fault: what is planned is read again once the plan is there.
FaultPlanned(plan) == [plan EXCEPT !.bundle = IF text \in Bundles THEN text ELSE @, !.replace = replace]

\* The bundle and the choice that the request took.
Planned(plan) == plan

PlanAnswered(plan) ==
  /\ plan \in plans
  /\ plans' = plans \ {plan}
  /\ armed' = Planned(plan) /\ panel' = plan /\ enabled' = TRUE
  /\ UNCHANGED <<open, text, replace, applies, reloads, files, actions>>

PlanFails(plan) ==
  /\ plan \in plans
  /\ plans' = plans \ {plan}
  /\ Invalidate
  /\ UNCHANGED <<open, text, replace, applies, reloads, files, actions>>

-----------------------------------------------------------------------------
\* applyImport: setBusy disables the button, and enables it in the end.

\* Seeded fault: no finally.
FaultReleased == enabled

Released == TRUE

ApplyImport ==
  /\ open /\ enabled /\ Act
  /\ \/ armed = NoPlan /\ UNCHANGED <<enabled, applies>>
     \/ /\ armed # NoPlan /\ Pending < MaxRequests
        /\ enabled' = FALSE
        /\ applies' = applies \cup {[armed EXCEPT !.id = actions']}
  /\ UNCHANGED <<open, text, replace, armed, panel, plans, reloads, files>>

ApplyAnswered(apply) ==
  /\ apply \in applies
  /\ applies' = applies \ {apply}
  /\ open' = FALSE
  /\ reloads' = reloads + 1
  /\ UNCHANGED <<text, replace, armed, panel, enabled, plans, files, actions>>

Reloaded ==
  /\ reloads > 0
  /\ reloads' = reloads - 1
  /\ enabled' = Released
  /\ UNCHANGED <<open, text, replace, armed, panel, plans, applies, files, actions>>

ApplyFails(apply) ==
  /\ apply \in applies
  /\ applies' = applies \ {apply}
  /\ enabled' = Released
  /\ UNCHANGED <<open, text, replace, armed, panel, plans, reloads, files, actions>>

-----------------------------------------------------------------------------

Answer ==
  \/ \E plan \in plans : PlanAnswered(plan) \/ PlanFails(plan)
  \/ \E apply \in applies : ApplyAnswered(apply) \/ ApplyFails(apply)
  \/ \E t \in Texts : FileRead(t) \/ FileFails(t)
  \/ Reloaded

DialogNext ==
  \/ OpenImport
  \/ Cancel
  \/ \E t \in Texts, r \in BOOLEAN : Edit(t, r)
  \/ \E t \in Texts : ChooseFile(t)
  \/ PlanImport
  \/ ApplyImport
  \/ Answer

\* Requests are answered, or fail.
DialogSpec == DialogInit /\ [][DialogNext]_dialogVars /\ WF_dialogVars(Answer)

-----------------------------------------------------------------------------
\* Properties.

DialogTypeOK ==
  /\ open \in BOOLEAN /\ text \in Texts /\ replace \in BOOLEAN
  /\ armed \in Request \cup {NoPlan} /\ panel \in Request \cup {NoPlan} /\ enabled \in BOOLEAN
  /\ plans \in SUBSET Request /\ applies \in SUBSET Request /\ files \in SUBSET Texts
  /\ reloads \in Nat /\ actions \in 0..MaxActions

\* What may be applied is what the panel shows, at any time and whatever answers
\* arrive: with a bundle in force its plan is shown, and without one nothing is.
ShownIsArmed == armed = panel

\* Nothing is sent to be applied but a bundle, with a choice of replace, that the
\* server has planned and whose plan is on the screen when the button is pressed.
AppliedAsShown ==
  [][\A apply \in applies' \ applies :
       panel # NoPlan /\ apply.bundle = panel.bundle /\ apply.replace = panel.replace]_dialogVars

\* A button that was pressed comes back, unless the plan has been given up.
ButtonReturns == applies # {} ~> (enabled \/ panel = NoPlan)
=============================================================================
