------------------------------ MODULE MCStatus ------------------------------
(* Small instances of MonitorStatus for TLC.                               *)
EXTENDS MonitorStatus
=============================================================================
