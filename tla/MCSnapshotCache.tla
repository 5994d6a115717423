------------------------------ MODULE MCSnapshotCache ---------------------------
(* Small instances of SnapshotCache for TLC. *)
EXTENDS SnapshotCache

AllRequests  == {"topology", "refresh", "node", "settings"}
OneRequest   == {"topology"}
SomeReports  == {"visible", "absent"}
AbsentOnly   == {"absent"}
MayTimeOut   == BOOLEAN
NoTimeouts   == {TRUE}
================================================================================
