--------------------------- MODULE MonitorStatus ---------------------------
(***************************************************************************)
(* How the status of one Monitor is written.  Every watch event about the  *)
(* object starts a call of the reconciliation handler, which ends by       *)
(* marking the object valid or invalid: it GETs the object, builds a new   *)
(* status from the one it read, and replaces /status by it.  The checker   *)
(* pods write lastResult of the same status by a merge patch.  Each write  *)
(* that changes the object is a MODIFIED event, which starts a handler     *)
(* again, so the controller is fed back its own writes; handlers overlap   *)
(* at their awaits, and the replacement carries no resourceVersion.        *)
(***************************************************************************)
EXTENDS Naturals, Sequences

CONSTANTS
    Slots,        \* a set of numbers: handler calls that may be in flight
    MaxEdits,     \* bound: edits of the spec
    MaxChecks,    \* bound: checks that report
    MaxFaults,    \* bound: API calls of the handler that fail
    MaxRestarts   \* bound: restarts of the controller

ASSUME SlotsAssumption == Slots \subseteq Nat
ASSUME BoundsAssumption ==
    MaxEdits \in Nat /\ MaxChecks \in Nat /\ MaxFaults \in Nat /\ MaxRestarts \in Nat

VARIABLES
    versions,   \* what each generation of the spec is worth, the last is current
    status,     \* the status stored in the API server, or NoStatus
    inbox,      \* events not delivered yet: the generation each one carries
    calls,      \* the handler call in each slot, or Idle
    now,        \* what a timestamp would show: alternates at every write
    checks,     \* checks that reported so far
    faults,     \* API calls that failed so far
    restarts    \* restarts so far

vars == <<versions, status, inbox, calls, now, checks, faults, restarts>>

Generation == Len(versions)
Marks == {"Validated", "ValidationFailed", "ReconcileFailed"}

(* A spec is valid, or parsed by the schema and rejected by the validator, *)
(* or malformed: the schema's parse throws and the handler is in its catch *)
(* block before it has made any call.  Each is first to get its own mark.  *)
Worth == {"valid", "rejected", "malformed"}
FirstMark == [valid |-> "Validated", rejected |-> "ValidationFailed",
              malformed |-> "ReconcileFailed"]

(* A status: the number of the check in lastResult (0: none), the          *)
(* observedGeneration (0: none), the reason of condition Valid, which also *)
(* gives the status of Valid and Ready, and its lastTransitionTime.        *)
Status == [result : Nat, observed : Nat, valid : Marks \cup {"none"}, since : {0, 1}]
Empty == [result |-> 0, observed |-> 0, valid |-> "none", since |-> 0]
NoStatus == [Empty EXCEPT !.valid = "no status"]

(* A handler call: the generation of the resource it was given, the mark   *)
(* it is to make, its next API call, the status it read, and whether it is *)
(* in the catch block already.                                             *)
Call == [gen : Nat, mark : Marks, step : {"get", "patch"},
         read : Status \cup {NoStatus}, caught : BOOLEAN]
Idle == [gen |-> 0, mark |-> "ReconcileFailed", step |-> "get",
         read |-> NoStatus, caught |-> TRUE]

-----------------------------------------------------------------------------
(* updateConditions: the transition time of a condition is kept while its  *)
(* status (True or False) stays the same.                                  *)

(* Mutant: every write is a transition.                                    *)
AlwaysNow(old, mark) == now

TransitionTime(old, mark) ==
    IF old.valid # "none" /\ ((old.valid = "Validated") <=> (mark = "Validated"))
    THEN old.since
    ELSE now

(* Mutant: markValid records the current generation, not the one validated.*)
MarkedAsCurrent(call) ==
    LET old == IF call.read = NoStatus THEN Empty ELSE call.read
    IN  [old EXCEPT !.valid = call.mark,
                    !.since = TransitionTime(old, call.mark),
                    !.observed = IF call.mark = "Validated" THEN Generation ELSE @]

(* The status markValid or markInvalid builds: what was read, with new     *)
(* conditions and, for markValid, the generation the handler was given.    *)
Marked(call) ==
    LET old == IF call.read = NoStatus THEN Empty ELSE call.read
    IN  [old EXCEPT !.valid = call.mark,
                    !.since = TransitionTime(old, call.mark),
                    !.observed = IF call.mark = "Validated" THEN call.gen ELSE @]

(* Mutant: changes of the status are no events for the controller.         *)
WriteUnseen(new) ==
    /\ status' = new
    /\ now' = 1 - now
    /\ inbox' = inbox

(* A write of the status is an event only if it changes the object.        *)
Write(new) ==
    /\ status' = new
    /\ now' = 1 - now
    /\ inbox' = IF new = status THEN inbox ELSE Append(inbox, Generation)

-----------------------------------------------------------------------------
(* The user edits the spec, to a valid or to an invalid one.               *)
Edit(worth) ==
    /\ Generation <= MaxEdits
    /\ versions' = Append(versions, worth)
    /\ inbox' = Append(inbox, Generation + 1)
    /\ UNCHANGED <<status, calls, now, checks, faults, restarts>>

(* Mutant: the merge does not create the status it is to go into.          *)
CheckReportsIntoNothing ==
    /\ \E g \in 1..Generation : versions[g] = "valid"
    /\ checks < MaxChecks
    /\ checks' = checks + 1
    /\ Write([status EXCEPT !.result = checks + 1])
    /\ UNCHANGED <<versions, calls, faults, restarts>>

(* A checker pod reports: only a monitor that was valid has a Job.         *)
CheckReports ==
    /\ \E g \in 1..Generation : versions[g] = "valid"
    /\ checks < MaxChecks
    /\ checks' = checks + 1
    /\ Write([(IF status = NoStatus THEN Empty ELSE status) EXCEPT !.result = checks + 1])
    /\ UNCHANGED <<versions, calls, faults, restarts>>

(* The watch delivers an event: the handler parses and validates the       *)
(* resource it is given and reconciles it, and is then to mark the object. *)
(* For a malformed one it is to do so from the catch block, where nothing  *)
(* catches an error any more.                                              *)
Deliver(c) ==
    /\ inbox # <<>>
    /\ calls[c] = Idle
    /\ \A d \in Slots : calls[d] = Idle => c <= d
    /\ inbox' = Tail(inbox)
    /\ calls' = [calls EXCEPT ![c] =
           [gen |-> Head(inbox),
            mark |-> FirstMark[versions[Head(inbox)]],
            step |-> "get", read |-> NoStatus,
            caught |-> versions[Head(inbox)] = "malformed"]]
    /\ UNCHANGED <<versions, status, now, checks, faults, restarts>>

(* An error sends the handler to its catch block, which marks the object   *)
(* invalid; an error there is logged and the handler ends.                 *)
Fails(c) ==
    calls' = [calls EXCEPT ![c] =
        IF @.caught THEN Idle
        ELSE [@ EXCEPT !.mark = "ReconcileFailed", !.step = "get",
                       !.read = NoStatus, !.caught = TRUE]]

Get(c) ==
    /\ calls[c] # Idle
    /\ calls[c].step = "get"
    /\ calls' = [calls EXCEPT ![c].step = "patch", ![c].read = status]
    /\ UNCHANGED <<versions, status, inbox, now, checks, faults, restarts>>

(* The patch replaces /status, which must exist: RFC 6902 refuses to       *)
(* replace a member that is not there.                                     *)
Patch(c) ==
    /\ calls[c] # Idle
    /\ calls[c].step = "patch"
    /\ \/ /\ status = NoStatus
          /\ Fails(c)
          /\ UNCHANGED <<status, inbox, now>>
       \/ /\ status # NoStatus
          /\ Write(Marked(calls[c]))
          /\ calls' = [calls EXCEPT ![c] = Idle]
    /\ UNCHANGED <<versions, checks, faults, restarts>>

(* A call to the API fails, before or after it has taken effect.           *)
Fault(c) ==
    /\ calls[c] # Idle
    /\ faults < MaxFaults
    /\ faults' = faults + 1
    /\ Fails(c)
    /\ \/ UNCHANGED <<status, inbox, now>>
       \/ /\ calls[c].step = "patch"
          /\ status # NoStatus
          /\ Write(Marked(calls[c]))
    /\ UNCHANGED <<versions, checks, restarts>>

(* The controller restarts: handlers and events are lost, the object is    *)
(* listed and handled again.                                               *)
Restart ==
    /\ restarts < MaxRestarts
    /\ restarts' = restarts + 1
    /\ calls' = [c \in Slots |-> Idle]
    /\ inbox' = <<Generation>>
    /\ UNCHANGED <<versions, status, now, checks, faults>>

-----------------------------------------------------------------------------
Init ==
    /\ versions \in {<<worth>> : worth \in Worth}
    /\ status = NoStatus
    /\ inbox = <<1>>
    /\ calls = [c \in Slots |-> Idle]
    /\ now = 0 /\ checks = 0 /\ faults = 0 /\ restarts = 0

Next ==
    \/ \E worth \in Worth : Edit(worth)
    \/ CheckReports
    \/ \E c \in Slots : Deliver(c) \/ Get(c) \/ Patch(c) \/ Fault(c)
    \/ Restart

Spec == Init /\ [][Next]_vars

(* The event loop delivers the events and runs the handlers; users,        *)
(* checks, faults and restarts owe nothing.                                *)
FairSpec == Spec /\ \A c \in Slots : WF_vars(Deliver(c)) /\ WF_vars(Get(c)) /\ WF_vars(Patch(c))

-----------------------------------------------------------------------------
(* The shape of the state.                                                 *)
TypeOK ==
    /\ versions \in Seq(Worth) /\ versions # <<>>
    /\ status \in Status \cup {NoStatus}
    /\ inbox \in Seq(1..Generation)
    /\ calls \in [Slots -> Call]
    /\ now \in {0, 1}
    /\ checks \in Nat /\ faults \in Nat /\ restarts \in Nat

Quiet == inbox = <<>> /\ \A c \in Slots : calls[c] = Idle

(* A status that calls generation g valid is right about g, however late   *)
(* the handler that wrote it and whatever the spec has become since.       *)
ValidatedWasValid ==
    status.valid = "Validated" =>
        status.observed \in 1..Generation /\ versions[status.observed] = "valid"

(* When no event and no handler is left, a status there is describes the   *)
(* current spec, although stale handlers may have written after fresh ones:*)
(* each wrong write was fed back and corrected.  After one API fault it may*)
(* call a valid spec invalid, but not one valid that the validator rejects:*)
(* the catch block makes a second attempt.  For a malformed spec the catch *)
(* block makes the only one, and one fault leaves "Validated" standing.    *)
QuietStatusIsCurrent ==
    Quiet /\ status # NoStatus =>
        /\ versions[Generation] = "valid" /\ faults = 0 =>
               status.valid = "Validated" /\ status.observed = Generation
        /\ versions[Generation] = "rejected" /\ faults <= 1 => status.valid # "Validated"
        /\ versions[Generation] = "malformed" /\ faults = 0 => status.valid # "Validated"

(* If handlers stop overlapping, the feedback of the controller's own      *)
(* writes dies out.                                                        *)
Alone == \A c, d \in Slots : calls[c] # Idle /\ calls[d] # Idle => c = d

FeedbackDiesOut == <>[]Alone => <>[]Quiet

-----------------------------------------------------------------------------
(* guide/architecture.md:213, 218: "Yuptime stores all state in            *)
(* Kubernetes", check results in the status.  What was stored is replaced  *)
(* only by the result of a later check.                                    *)
ResultsAreKept == [][status.result <= status'.result]_vars
=============================================================================
