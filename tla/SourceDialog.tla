---------------------------- MODULE SourceDialog ----------------------------
(***************************************************************************)
(* The form and the dialog that create a source (src/control-plane/        *)
(* assets/app.js): discover, renderDiscovery, refreshSourcePlan and        *)
(* applySource.  The dialog is modal: the form cannot be edited while it   *)
(* is open, but every handler waits for an answer, and several may wait.   *)
(***************************************************************************)
EXTENDS Integers, Sequences, SequencesExt, FiniteSets

CONSTANTS
  Forms,       \* contents of the form: the source and replace-source
  NoForm,      \* none of them
  Tables,      \* tables of the document
  MaxPlans,    \* bound: plan requests under way
  MaxActions   \* bound: things the administrator does

VARIABLES
  form,        \* what sourceFromForm and replace-source would give
  discovering, \* the discover request under way, as a set
  discovery,   \* state.discovery: the form it was made of, as a set
  open,        \* the dialog
  offered,     \* discovered-tables: the tables that have a check box
  checked,     \* selectedTables: those that are checked
  preview,     \* sql-preview: of which form and tables, or a message
  enabled,     \* apply-source-button
  plans,       \* plan requests under way
  applies,     \* apply requests under way
  reloads,     \* applySource calls waiting for loadState
  actions      \* number of things done

vars == <<form, discovering, discovery, open, offered, checked, preview, enabled, plans, applies, reloads, actions>>

\* The SQL of a source, and a text that is no SQL.
Plan(f, tables) == [of |-> "plan", form |-> f, tables |-> tables]
Message == [of |-> "message", form |-> NoForm, tables |-> {}]

Init ==
  /\ form \in Forms
  /\ discovering = {} /\ discovery = {}
  /\ open = FALSE /\ offered = {} /\ checked = {} /\ preview = Message /\ enabled = TRUE
  /\ plans = <<>> /\ applies = {} /\ reloads = 0
  /\ actions = 0

Act == actions < MaxActions /\ actions' = actions + 1

-----------------------------------------------------------------------------
\* discover.

EditForm(f) ==
  /\ ~open /\ f # form /\ Act
  /\ form' = f
  /\ UNCHANGED <<discovering, discovery, open, offered, checked, preview, enabled, plans, applies, reloads>>

\* discover-button is disabled while a discovery is under way.
Discover ==
  /\ ~open /\ discovering = {} /\ Act
  /\ discovering' = {form}
  /\ UNCHANGED <<form, discovery, open, offered, checked, preview, enabled, plans, applies, reloads>>

\* refreshSourcePlan reads the check boxes as they are now.
Selection(tables) == tables

\* refreshSourcePlan, up to its await.
Refresh(tables) ==
  /\ enabled' = (tables # {})
  /\ IF tables = {} THEN preview' = Message /\ UNCHANGED plans
     ELSE /\ Len(plans) < MaxPlans
          /\ plans' = Append(plans, Plan(form, Selection(tables)))
          /\ UNCHANGED preview

\* renderDiscovery makes a check box for each table that was found, all of them
\* checked, then refreshes.
DiscoverAnswered(tables) ==
  /\ discovering # {} /\ tables # {}
  /\ discovery' = discovering /\ discovering' = {}
  /\ open' = TRUE
  /\ offered' = tables /\ checked' = tables
  /\ enabled' = TRUE
  /\ \E f \in discovering : preview' = Plan(f, tables)
  /\ Len(plans) < MaxPlans /\ plans' = Append(plans, Plan(form, Selection(tables)))
  /\ UNCHANGED <<form, applies, reloads, actions>>

DiscoverFails ==
  /\ discovering # {}
  /\ discovering' = {}
  /\ UNCHANGED <<form, discovery, open, offered, checked, preview, enabled, plans, applies, reloads, actions>>

-----------------------------------------------------------------------------
\* The dialog.

Toggle(t) ==
  /\ open /\ t \in offered /\ Act
  /\ checked' = IF t \in checked THEN checked \ {t} ELSE checked \cup {t}
  /\ Refresh(checked')
  /\ UNCHANGED <<form, discovering, discovery, open, offered, applies, reloads>>

Cancel ==
  /\ open /\ Act
  /\ open' = FALSE
  /\ UNCHANGED <<form, discovering, discovery, offered, checked, preview, enabled, plans, applies, reloads>>

\* refreshSourcePlan, after its await: plan i is answered, by its SQL or an error.
PlanAnswered(i, answer) ==
  /\ i \in DOMAIN plans
  /\ answer \in {plans[i], Message}
  /\ preview' = answer
  /\ plans' = RemoveAt(plans, i)
  /\ UNCHANGED <<form, discovering, discovery, open, offered, checked, enabled, applies, reloads, actions>>

\* applySource: setBusy disables the button, and enables it in the end.
ApplySource ==
  /\ open /\ enabled /\ Act
  /\ enabled' = FALSE
  /\ applies' = applies \cup {[id |-> actions', form |-> form, tables |-> checked]}
  /\ UNCHANGED <<form, discovering, discovery, open, offered, checked, preview, plans, reloads>>

ApplyAnswered(apply) ==
  /\ apply \in applies
  /\ applies' = applies \ {apply}
  /\ preview' = Plan(apply.form, apply.tables)
  /\ open' = FALSE
  /\ reloads' = reloads + 1
  /\ UNCHANGED <<form, discovering, discovery, offered, checked, enabled, plans, actions>>

Reloaded ==
  /\ reloads > 0
  /\ reloads' = reloads - 1
  /\ enabled' = TRUE
  /\ UNCHANGED <<form, discovering, discovery, open, offered, checked, preview, plans, applies, actions>>

ApplyFails(apply) ==
  /\ apply \in applies
  /\ applies' = applies \ {apply}
  /\ preview' = Message
  /\ enabled' = TRUE
  /\ UNCHANGED <<form, discovering, discovery, open, offered, checked, plans, reloads, actions>>

-----------------------------------------------------------------------------

Next ==
  \/ \E f \in Forms : EditForm(f)
  \/ Discover
  \/ \E tables \in SUBSET Tables : DiscoverAnswered(tables)
  \/ DiscoverFails
  \/ \E t \in Tables : Toggle(t)
  \/ Cancel
  \/ \E i \in 1..MaxPlans : \E answer \in {plans[j] : j \in DOMAIN plans} \cup {Message} : PlanAnswered(i, answer)
  \/ ApplySource
  \/ \E apply \in applies : ApplyAnswered(apply) \/ ApplyFails(apply)
  \/ Reloaded

Spec == Init /\ [][Next]_vars

-----------------------------------------------------------------------------
\* Properties.

\* Once nothing is under way, the SQL on the screen is the one of the form and of
\* the tables selected: "Review this redacted SQL before applying it."
PreviewIsCurrent ==
  open /\ plans = <<>> /\ preview.of = "plan" /\ checked # {} => preview = Plan(form, checked)
=============================================================================
