-------------------------- MODULE MCSteeringOperation --------------------------
(* Small instances of SteeringOperation for TLC. *)
EXTENDS SteeringOperation

CONSTANTS c1, c2, p1, p2

OneChild    == {c1}
TwoChildren == {c1, c2}
OneParent   == {p1}
TwoParents  == {p1, p2}

ExactOnly   == {"bh-config"}
AutoOnly    == {"auto"}

AllModes    == Modes
OffAndAuto  == {"auto", "force-off"}

NoTimeouts  == {TRUE}
AnyOutcome  == BOOLEAN
================================================================================
