------------------------- MODULE MaintenanceWindows -------------------------
(***************************************************************************)
(* The cache of maintenance windows.  The reconciler looks for the next    *)
(* occurrence of a window when it is given its object, and never else: a   *)
(* window is open from that one occurrence on, for its duration.  Another  *)
(* event about the object moves it to the occurrence that is next by then. *)
(* The deletion of the object changes nothing, no delete handler being     *)
(* registered, nor does an edit that is invalid.                           *)
(***************************************************************************)
EXTENDS Recurrence, Selectors, Sequences

CONSTANTS
    Windows,      \* the names "namespace/name" a window may have
    Specs,        \* what users write
    Monitors,     \* the monitors asked about
    MaxTime,      \* bound: the last hour
    MaxPuts,      \* bound: creations and edits of a name
    MaxRestarts   \* bound: restarts of the controller

(* rule is the set of the recurrence rule of the window, if it has one;    *)
(* valid: start and end are given, and the rule has a frequency.           *)
ASSUME SpecsAssumption ==
    \A spec \in Specs :
        /\ spec.valid \in BOOLEAN /\ spec.enabled \in BOOLEAN
        /\ spec.start \in Int /\ spec.end \in Int
        /\ \A r, s \in spec.rule : r = s
        /\ \A r \in spec.rule : r.until \subseteq [at : Int, basic : BOOLEAN]
ASSUME BoundsAssumption ==
    MaxTime \in Nat /\ MaxPuts \in Nat /\ MaxRestarts \in Nat

VARIABLES
    now,         \* the clock
    stored,      \* the set of the spec stored under each name, if any
    inbox,       \* the specs in the events about each name, not delivered yet
    cached,      \* the set of the maintenanceWindowCache entry, if any
    reconciled,  \* when this process last cached each name
    puts,        \* how often each name was created or edited
    restarts     \* restarts so far

vars == <<now, stored, inbox, cached, reconciled, puts, restarts>>

-----------------------------------------------------------------------------
(* A user, or a write of the status, changes the object; time passes.      *)
PutWindow(w, spec) ==
    /\ puts[w] < MaxPuts
    /\ puts' = [puts EXCEPT ![w] = @ + 1]
    /\ stored' = [stored EXCEPT ![w] = {spec}]
    /\ inbox' = [inbox EXCEPT ![w] = Append(@, spec)]
    /\ UNCHANGED <<now, cached, reconciled, restarts>>

DeleteWindow(w) ==
    /\ stored[w] # {}
    /\ stored' = [stored EXCEPT ![w] = {}]
    /\ UNCHANGED <<now, inbox, cached, reconciled, puts, restarts>>

Tick ==
    /\ now < MaxTime
    /\ now' = now + 1
    /\ UNCHANGED <<stored, inbox, cached, reconciled, puts, restarts>>

-----------------------------------------------------------------------------
(* Mutant: a window without a rule begins when it is cached.               *)
EntryFromNow(spec) ==
    LET occurrences == UNION {GetNextOccurrence(rule, now) : rule \in spec.rule}
    IN  [spec |-> spec,
         duration |-> spec.end - spec.start,
         next |-> IF occurrences = {} THEN now ELSE Min(occurrences)]

(* What is cached of a spec; without a next occurrence the window begins   *)
(* at its start.                                                           *)
Entry(spec) ==
    LET occurrences == UNION {GetNextOccurrence(rule, now) : rule \in spec.rule}
    IN  [spec |-> spec,
         duration |-> spec.end - spec.start,
         next |-> IF occurrences = {} THEN spec.start ELSE Min(occurrences)]

(* Mutant: what is invalid is cached as well.                              *)
ReconcileUnvalidated(w) ==
    /\ inbox[w] # <<>>
    /\ inbox' = [inbox EXCEPT ![w] = Tail(@)]
    /\ cached' = [cached EXCEPT ![w] = {Entry(Head(inbox[w]))}]
    /\ reconciled' = [reconciled EXCEPT ![w] = now]
    /\ UNCHANGED <<now, stored, puts, restarts>>

(* An event is handled.                                                    *)
ReconcileMaintenanceWindow(w) ==
    /\ inbox[w] # <<>>
    /\ inbox' = [inbox EXCEPT ![w] = Tail(@)]
    /\ \/ /\ Head(inbox[w]).valid
          /\ cached' = [cached EXCEPT ![w] = {Entry(Head(inbox[w]))}]
          /\ reconciled' = [reconciled EXCEPT ![w] = now]
       \/ /\ ~Head(inbox[w]).valid
          /\ UNCHANGED <<cached, reconciled>>
    /\ UNCHANGED <<now, stored, puts, restarts>>

(* The controller restarts with an empty cache; what is stored is listed,  *)
(* and replayed by the watch.                                              *)
Restart ==
    /\ restarts < MaxRestarts
    /\ restarts' = restarts + 1
    /\ cached' = [w \in Windows |-> {}]
    /\ inbox' = [w \in Windows |->
                    IF stored[w] = {} THEN <<>>
                    ELSE LET spec == CHOOSE s \in stored[w] : TRUE IN <<spec, spec>>]
    /\ UNCHANGED <<now, stored, reconciled, puts>>

-----------------------------------------------------------------------------
(* isInMaintenanceWindow and getActiveMaintenanceWindows.                  *)

IsOpen(entry) == entry.next <= now /\ now < entry.next + entry.duration

(* They are given the labels of a monitor and nothing else: a window with  *)
(* names or namespaces is passed over, tags and expressions are not seen.  *)
Covers(match, labels) ==
    /\ match.names = {} /\ match.namespaces = {}
    /\ HasLabels(labels, match.labels)

IsActive(w, monitor) ==
    \E entry \in cached[w] :
        entry.spec.enabled /\ IsOpen(entry) /\ Covers(entry.spec.match, monitor.labels)

-----------------------------------------------------------------------------
Init ==
    /\ now = 0
    /\ stored = [w \in Windows |-> {}]
    /\ inbox = [w \in Windows |-> <<>>]
    /\ cached = [w \in Windows |-> {}]
    /\ reconciled = [w \in Windows |-> 0]
    /\ puts = [w \in Windows |-> 0]
    /\ restarts = 0

Next ==
    \/ \E w \in Windows :
        \/ \E spec \in Specs : PutWindow(w, spec)
        \/ DeleteWindow(w)
        \/ ReconcileMaintenanceWindow(w)
    \/ Tick
    \/ Restart

Spec == Init /\ [][Next]_vars

-----------------------------------------------------------------------------
(* The shape of the state.                                                 *)
TypeOK ==
    /\ now \in 0..MaxTime
    /\ stored \in [Windows -> SUBSET Specs]
    /\ inbox \in [Windows -> Seq(Specs)]
    /\ DOMAIN cached = Windows
    /\ reconciled \in [Windows -> 0..now]
    /\ puts \in [Windows -> 0..MaxPuts] /\ restarts \in 0..MaxRestarts
    /\ \A w \in Windows :
        /\ \A r, s \in stored[w] : r = s
        /\ \A r, s \in cached[w] : r = s
        /\ \A entry \in cached[w] :
            /\ entry.spec \in Specs /\ entry.spec.valid
            /\ entry.duration = entry.spec.end - entry.spec.start

(* Where the match is by nothing but labels, names and namespaces, no      *)
(* monitor is suppressed that the object does not select.  And where the   *)
(* rule is plain, none is at a time it does not name: the window that is   *)
(* open began at an occurrence of its rule, or at its start.               *)
ActiveIsMeant ==
    \A w \in Windows, monitor \in Monitors : IsActive(w, monitor) =>
        \A entry \in cached[w] :
            /\ entry.spec.match.tags = {} /\ entry.spec.match.expressions = {}
               => MatchesSelector(entry.spec.match, monitor)
            /\ \/ entry.spec.start <= now /\ now < entry.spec.end
               \/ \E rule \in entry.spec.rule : Plain(rule) =>
                    \E o \in (now - entry.duration + 1)..now : Occurs(rule, o)

(* The occurrence one period after an event about a window is honoured,    *)
(* unless another event is handled before it is over: no rule that is      *)
(* plain passes it over, and no monitor is missed that is not selected by  *)
(* its name or namespace.                                                  *)
NextIsHonoured ==
    \A w \in Windows, monitor \in Monitors : \A entry \in cached[w] :
        \A rule \in entry.spec.rule : \A o \in (now - entry.duration + 1)..now :
            /\ Plain(rule) /\ Occurs(rule, o)
            /\ Day(o) = Day(reconciled[w]) + Stride(rule)
            /\ entry.spec.enabled /\ MatchesSelector(entry.spec.match, monitor)
            /\ entry.spec.match.names = {} /\ entry.spec.match.namespaces = {}
            => IsActive(w, monitor)

(* A window without a rule, once the events about it are handled, is open  *)
(* exactly from its start to its end, whatever events and restarts there   *)
(* were.                                                                   *)
OneShotIsExact ==
    \A w \in Windows : \A spec \in stored[w] :
        /\ inbox[w] = <<>> /\ spec.valid /\ spec.rule = {}
        => /\ cached[w] # {}
           /\ \A entry \in cached[w] :
                IsOpen(entry) <=> spec.start <= now /\ now < spec.end

(* What lib/rrule.ts says of a daily rule at any time is right: it finds   *)
(* the last occurrence, however many there were.                           *)
MembershipIsExact ==
    \A w \in Windows : \A entry \in cached[w] : \A rule \in entry.spec.rule :
        /\ Plain(rule) /\ rule.freq = "DAILY"
        /\ entry.duration <= (DaysPerYear - 1) * HoursPerDay
        => (IsInMaintenanceWindow(rule, entry.duration, now)
            <=> \E o \in (now - entry.duration + 1)..now : Occurs(rule, o))

-----------------------------------------------------------------------------
(* What the documents say and the code does not keep.                      *)

(* A window is open only at an occurrence of its rule, whatever its parts, *)
(* or from its start to its end.  lib/rrule.ts:2 is a "Simple RRULE parser *)
(* for RFC 5545 Recurrence Rules", and docs/reference/crds/maintenance-    *)
(* window.md:137 has "BYMONTH=1,4,7,10".  The code drops BYMONTH, and an   *)
(* UNTIL in the form of the RFC never ends a rule.                         *)
OpensOnlyAsRuled ==
    \A w \in Windows : \A entry \in cached[w] : \A rule \in entry.spec.rule :
        Regular(rule) /\ entry.spec \in stored[w] /\ IsOpen(entry) =>
            \/ entry.spec.start <= now /\ now < entry.spec.end
            \/ \E o \in (now - entry.duration + 1)..now : Occurs(rule, o)

(* No monitor is suppressed that the object does not select, by whatever   *)
(* it selects: docs/reference/crds/maintenancewindow.md:56 "Selects which  *)
(* monitors are affected", "By label expressions" among it (65).  The code *)
(* looks at no expression and no tag.                                      *)
SuppressedAreSelected ==
    \A w \in Windows, monitor \in Monitors : IsActive(w, monitor) =>
        \A entry \in cached[w] : MatchesSelector(entry.spec.match, monitor)

(* A cached window opens for every occurrence of its rule to come, as      *)
(* docs/guide/suppressions.md:14 has it: "suppress alerts on a recurring   *)
(* schedule".  The code looks for one, and looks again only at an event;   *)
(* for a rule that is not weekly and has BYDAY it finds none.              *)
EveryOccurrenceOpens ==
    \A w \in Windows : \A entry \in cached[w] : \A rule \in entry.spec.rule :
        \A o \in (now - entry.duration + 1)..now :
            /\ Regular(rule) /\ Occurs(rule, o) /\ o > reconciled[w]
            /\ entry.spec \in stored[w]
            => IsOpen(entry)

(* A window that is open stays open for its duration, which is "How long   *)
(* the maintenance window lasts" (docs/reference/crds/maintenancewindow.md:*)
(* 45), if its spec is the same.  An event about it moves it on.           *)
OpenForItsDuration ==
    [][\A w \in Windows : \A entry \in cached[w], later \in cached'[w] :
        /\ IsOpen(entry) /\ later.spec = entry.spec
        /\ now' < entry.next + entry.duration
        => IsOpen(later)']_vars
=============================================================================
