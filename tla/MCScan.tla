------------------------------- MODULE MCScan -------------------------------
(* Instances of Scan for TLC. *)
EXTENDS Scan

MCLimits == {1, 3}
=============================================================================
