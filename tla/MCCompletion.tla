---------------------------- MODULE MCCompletion ----------------------------
(* Small instances of JobCompletionWatcher for TLC.                        *)
EXTENDS JobCompletionWatcher
=============================================================================
