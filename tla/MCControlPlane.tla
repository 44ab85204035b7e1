--------------------------- MODULE MCControlPlane ---------------------------
(* Instances of ControlPlane for TLC. *)
EXTENDS ControlPlane

CONSTANTS a, b, one, both

\* A definition that selects one of the tables, and one that selects them all.
MCSelected == [d \in Definitions |-> IF d = one THEN {CHOOSE t \in Tables : TRUE} ELSE Tables]

MCEntry(n, d) == [name |-> n, definition |-> d]

MCApply(replace, bundle) == [kind |-> "apply", replace |-> replace, bundle |-> bundle]

MCDelete(n) == [kind |-> "delete", replace |-> FALSE, bundle |-> <<MCEntry(n, None)>>]

\* Two bundles that lock in opposite orders, with and without replace, and a delete.
MCCrossing ==
  {MCApply(TRUE, <<MCEntry(a, both), MCEntry(b, one)>>),
   MCApply(FALSE, <<MCEntry(b, one), MCEntry(a, one)>>),
   MCDelete(b)}
=============================================================================
