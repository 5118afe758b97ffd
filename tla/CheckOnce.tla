------------------------------ MODULE CheckOnce ------------------------------
(***************************************************************************)
(* What a checker promises to its caller: one verdict, given once and      *)
(* never taken back, and no connection held for ever, whatever the service *)
(* that is checked does or fails to do.  It may take a connection before   *)
(* its verdict, not after it.  The verdict is "lost" if the process is.    *)
(***************************************************************************)
VARIABLES
    verdict,    \* "pending", "up", "down" or "lost"
    held        \* whether a connection is held

vars == <<verdict, held>>

Init == verdict = "pending" /\ held = FALSE

Acquire ==
    /\ verdict = "pending" /\ ~held
    /\ held' = TRUE /\ UNCHANGED verdict

(* The verdict mostly ends the connection with it.                         *)
Decide ==
    /\ verdict = "pending"
    /\ verdict' \in {"up", "down", "lost"}
    /\ held' \in BOOLEAN

Release ==
    /\ verdict # "pending" /\ held
    /\ held' = FALSE /\ UNCHANGED verdict

Next == Acquire \/ Decide \/ Release

Spec == Init /\ [][Next]_vars

FairSpec == Spec /\ WF_vars(Decide) /\ WF_vars(Release)
=============================================================================
