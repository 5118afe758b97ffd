------------------------ MODULE JobCompletionWatcher ------------------------
(***************************************************************************)
(* How the result of a check reaches the metrics and the alerts.  A        *)
(* checker pod writes lastResult into the status of its Monitor and exits; *)
(* Kubernetes counts the pod in the status of its Job; the controller      *)
(* watches the Jobs and, the first time it sees one finished, GETs the     *)
(* Monitor and exports what its lastResult says then.  All Jobs here are   *)
(* checks of one Monitor, which has an alertmanagerUrl.                    *)
(*                                                                         *)
(* A watch opens with an ADDED event for each Job there is.  The callback  *)
(* ignores them, like the MODIFIED events of unfinished Jobs, and they are *)
(* left out: a Job that finishes while no watch is open is not noticed     *)
(* before it is modified again.                                            *)
(***************************************************************************)
EXTENDS Naturals, Sequences

CONSTANTS
    Jobs,         \* the Jobs created for the Monitor
    Verdicts,     \* what a check may find: "up", "down"
    Keep,         \* keys of finished Jobs remembered (100 in the code)
    MaxTouches,   \* bound: modifications of a Job after it finished, in all
    MaxStale,     \* bound: times a reconciler puts an old status back
    MaxRestarts   \* bound: restarts of the controller

ASSUME KeepAssumption == Keep \in Nat \ {0}
ASSUME VerdictsAssumption == Verdicts \subseteq {"up", "down"}
ASSUME BoundsAssumption == MaxTouches \in Nat /\ MaxStale \in Nat /\ MaxRestarts \in Nat

VARIABLES
    phase,        \* of each Job: "running", "reported", "finished"
    own,          \* number of the result each Job reported, 0 for none
    results,      \* the verdicts reported, in the order they were
    lastResult,   \* number of the result in the Monitor's status, 0 for none
    open,         \* whether a watch of the Jobs is open
    inbox,        \* finished Jobs of MODIFIED events not delivered yet
    processed,    \* the keys in processedJobs, in insertion order
    handlers,     \* calls of handleJobCompletion under way
    handled,      \* the Jobs this process has handled, in order
    dropped,      \* Jobs whose handler failed to GET the Monitor
    exports,      \* what was exported to Prometheus, in order
    alerts,       \* alerts sent
    touches, stale, restarts

jobVars == <<phase, own, results, touches>>
watchVars == <<open, inbox, processed, handled>>
exportVars == <<exports, dropped, alerts>>
vars == <<jobVars, lastResult, watchVars, handlers, exportVars, stale, restarts>>

Export == [job : Jobs, result : Nat]
Handler == [job : Jobs, no : Nat, step : {"get", "record"}, read : Nat]

-----------------------------------------------------------------------------
(* The Jobs and the status, outside of this component.                     *)

Notify(j) == inbox' = IF open THEN Append(inbox, j) ELSE inbox

(* The checker patches lastResult, then exits: the Job finishes after it.  *)
Report(j, verdict) ==
    /\ phase[j] = "running"
    /\ phase' = [phase EXCEPT ![j] = "reported"]
    /\ results' = Append(results, verdict)
    /\ own' = [own EXCEPT ![j] = Len(results) + 1]
    /\ lastResult' = Len(results) + 1
    /\ UNCHANGED <<touches, watchVars, handlers, exportVars, stale, restarts>>

(* Mutant: the Job counts the pod before the checker's patch has landed.   *)
FinishEarly(j) ==
    /\ phase[j] = "running"
    /\ phase' = [phase EXCEPT ![j] = "finished"]
    /\ own' = [own EXCEPT ![j] = Len(results) + 1]
    /\ Notify(j)
    /\ UNCHANGED <<results, touches, lastResult, open, processed, handled, handlers,
                   exportVars, stale, restarts>>

(* A Job finishes, whether or not its checker could report.                *)
Finish(j) ==
    /\ phase[j] \in {"running", "reported"}
    /\ phase' = [phase EXCEPT ![j] = "finished"]
    /\ Notify(j)
    /\ UNCHANGED <<own, results, touches, lastResult, open, processed, handled,
                   handlers, exportVars, stale, restarts>>

Touch(j) ==
    /\ phase[j] = "finished"
    /\ touches < MaxTouches
    /\ touches' = touches + 1
    /\ Notify(j)
    /\ UNCHANGED <<phase, own, results, lastResult, open, processed, handled,
                   handlers, exportVars, stale, restarts>>

(* A reconciler replaces the status by an older one.                       *)
StaleReplace ==
    /\ stale < MaxStale
    /\ stale' = stale + 1
    /\ \E old \in 0..Len(results) : old < lastResult /\ lastResult' = old
    /\ UNCHANGED <<jobVars, watchVars, handlers, exportVars, restarts>>

-----------------------------------------------------------------------------
(* The watch callback.                                                     *)

(* Mutant: when the set is full it is emptied, newest key included.        *)
ForgetAll(keys) == IF Len(keys) > Keep THEN <<>> ELSE keys

(* Mutant: the set is never pruned.                                        *)
ForgetNone(keys) == keys

Prune(keys) ==
    IF Len(keys) > Keep THEN SubSeq(keys, Len(keys) - Keep + 1, Len(keys)) ELSE keys

IsProcessed(j) == \E i \in 1..Len(processed) : processed[i] = j

(* Mutant: any finished Job of the Monitor stands for all of them.         *)
DeliverOncePerMonitor ==
    /\ open /\ inbox # <<>>
    /\ inbox' = Tail(inbox)
    /\ \/ /\ processed # <<>>
          /\ UNCHANGED <<processed, handled, handlers>>
       \/ /\ processed = <<>>
          /\ processed' = <<Head(inbox)>>
          /\ handled' = Append(handled, Head(inbox))
          /\ handlers' = handlers \cup {[job |-> Head(inbox), no |-> Len(handled) + 1,
                                         step |-> "get", read |-> 0]}
    /\ UNCHANGED <<jobVars, lastResult, open, exportVars, stale, restarts>>

(* An event of a finished Job starts a handler, which is not awaited,      *)
(* unless the key of the Job is remembered.                                *)
Deliver ==
    /\ open /\ inbox # <<>>
    /\ inbox' = Tail(inbox)
    /\ \/ /\ IsProcessed(Head(inbox))
          /\ UNCHANGED <<processed, handled, handlers>>
       \/ /\ ~IsProcessed(Head(inbox))
          /\ processed' = Prune(Append(processed, Head(inbox)))
          /\ handled' = Append(handled, Head(inbox))
          /\ handlers' = handlers \cup {[job |-> Head(inbox), no |-> Len(handled) + 1,
                                         step |-> "get", read |-> 0]}
    /\ UNCHANGED <<jobVars, lastResult, open, exportVars, stale, restarts>>

(* The API server answers the GET; the answer is handled in a later step.  *)
GetMonitor(h) ==
    /\ h \in handlers /\ h.step = "get"
    /\ handlers' = (handlers \ {h}) \cup {[h EXCEPT !.step = "record", !.read = lastResult]}
    /\ UNCHANGED <<jobVars, lastResult, watchVars, exportVars, stale, restarts>>

GetFails(h) ==
    /\ h \in handlers /\ h.step = "get"
    /\ handlers' = handlers \ {h}
    /\ dropped' = dropped \cup {h.job}
    /\ UNCHANGED <<jobVars, lastResult, watchVars, exports, alerts, stale, restarts>>

(* The handler exports the result it read, if there was one, and sends an  *)
(* alert if the state it takes for the previous one, which it reads from   *)
(* the same lastResult, differs from the current one.                      *)
Record(h) ==
    /\ h \in handlers /\ h.step = "record"
    /\ handlers' = handlers \ {h}
    /\ \/ h.read = 0 /\ UNCHANGED <<exports, alerts>>
       \/ /\ h.read > 0
          /\ exports' = Append(exports, [job |-> h.job, result |-> h.read])
          /\ LET currentState == results[h.read]
                 previousState == results[h.read]
             IN  alerts' = IF previousState # currentState THEN alerts + 1 ELSE alerts
    /\ UNCHANGED <<jobVars, lastResult, watchVars, dropped, stale, restarts>>

-----------------------------------------------------------------------------
(* The watch is opened once when the controller starts.  When it ends, the *)
(* done callback logs it, and nothing opens another.                       *)
CloseWatch ==
    /\ open
    /\ open' = FALSE /\ inbox' = <<>>
    /\ UNCHANGED <<jobVars, lastResult, processed, handled, handlers, exportVars,
                   stale, restarts>>

(* The controller restarts: its memory is lost, a new watch is opened.     *)
Restart ==
    /\ restarts < MaxRestarts
    /\ restarts' = restarts + 1
    /\ open' = TRUE /\ inbox' = <<>>
    /\ processed' = <<>> /\ handled' = <<>> /\ handlers' = {}
    /\ UNCHANGED <<jobVars, lastResult, exportVars, stale>>

Init ==
    /\ phase = [j \in Jobs |-> "running"] /\ own = [j \in Jobs |-> 0]
    /\ results = <<>> /\ lastResult = 0
    /\ open = TRUE /\ inbox = <<>>
    /\ processed = <<>> /\ handled = <<>> /\ handlers = {}
    /\ exports = <<>> /\ dropped = {} /\ alerts = 0
    /\ touches = 0 /\ stale = 0 /\ restarts = 0

Next ==
    \/ \E j \in Jobs :
        \/ \E verdict \in Verdicts : Report(j, verdict)
        \/ Finish(j)
        \/ Touch(j)
    \/ StaleReplace
    \/ Deliver
    \/ \E h \in handlers : GetMonitor(h) \/ GetFails(h) \/ Record(h)
    \/ CloseWatch
    \/ Restart

Spec == Init /\ [][Next]_vars

(* The event loop delivers what was received, and a request is answered or *)
(* fails.  Jobs, faults and restarts owe nothing.                          *)
FairSpec ==
    /\ Spec
    /\ WF_vars(Deliver)
    /\ \A j \in Jobs :
        WF_vars(\E h \in handlers : h.job = j /\ (GetMonitor(h) \/ GetFails(h) \/ Record(h)))

-----------------------------------------------------------------------------
(* The shape of the state.                                                 *)
TypeOK ==
    /\ phase \in [Jobs -> {"running", "reported", "finished"}]
    /\ own \in [Jobs -> 0..Len(results)]
    /\ results \in Seq(Verdicts) /\ lastResult \in 0..Len(results)
    /\ open \in BOOLEAN /\ inbox \in Seq(Jobs)
    /\ processed \in Seq(Jobs) /\ handled \in Seq(Jobs) /\ Len(processed) <= Keep
    /\ handlers \subseteq Handler
    /\ exports \in Seq(Export) /\ dropped \subseteq Jobs /\ alerts \in Nat
    /\ touches \in Nat /\ stale \in Nat /\ restarts \in Nat

(* One process handles a Job again only after Keep other Jobs have pushed  *)
(* its key out of processedJobs: late modifications of the newest Keep     *)
(* finished Jobs are never exported twice.                                 *)
NoRepeatInWindow ==
    \A a, b \in 1..Len(handled) :
        a < b /\ handled[a] = handled[b] => b - a > Keep

(* What is exported when a Job has finished is the result of that Job or a *)
(* later one, unless a reconciler put an old status back.                  *)
ExportIsNotOlder ==
    stale = 0 =>
        \A i \in 1..Len(exports) : exports[i].result >= own[exports[i].job]

(* A Job whose finished state was received while the watch was open ends   *)
(* up exported, or its GET failed; nothing else loses it but the end of    *)
(* the watch or of the process, or the Monitor having no result at all.    *)
Received(j) == open /\ own[j] > 0 /\ \E i \in 1..Len(inbox) : inbox[i] = j

ReceivedIsExported ==
    \A j \in Jobs :
        Received(j) ~> \/ \E i \in 1..Len(exports) : exports[i].job = j
                       \/ j \in dropped
                       \/ ~open \/ restarts > 0 \/ stale > 0

-----------------------------------------------------------------------------
(* guide/alerting.md:7: "When a monitor changes state ... Yuptime sends an *)
(* alert".  An export whose state differs from the one before sends one.   *)
StateOf(export) == results[export.result]

AlertedOnChange ==
    [][Len(exports') > Len(exports) /\ exports # <<>>
         /\ StateOf(exports'[Len(exports')]) # StateOf(exports[Len(exports)])
       => alerts' = alerts + 1]_vars
=============================================================================
