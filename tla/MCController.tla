---------------------------- MODULE MCController ----------------------------
(* Small instances of MonitorController for TLC.                           *)
EXTENDS MonitorController
=============================================================================
