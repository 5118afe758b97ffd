----------------------------- MODULE MCSilence -----------------------------
(* Small instances of SilenceCache for TLC.                                *)
EXTENDS SilenceCache
=============================================================================
