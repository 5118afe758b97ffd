------------------------- MODULE MonitorController -------------------------
(***************************************************************************)
(* The scheduling core of the controller: the Monitor objects in the       *)
(* Kubernetes API, the informer that lists and then watches them, the      *)
(* resource cache it feeds, and the Monitor reconciler, which arms one     *)
(* "first check" timer per monitor name and, when the timer fires, creates *)
(* the Job that runs the check.                                            *)
(*                                                                         *)
(* The controller is one JavaScript process, so a handler runs atomically  *)
(* up to its next await on I/O.  A delivered event therefore updates the   *)
(* cache and runs the whole synchronous part of the handler in one step    *)
(* (parsing, validation, and the has / setTimeout / add sequence of the    *)
(* reconciler, in the order in which the events came); what waits for the  *)
(* API server, cancelJob, returns in a step of its own, between which the  *)
(* handlers of later events run.                                           *)
(***************************************************************************)
EXTENDS Naturals, Sequences

CONSTANTS
    Monitors,        \* the names "namespace/name" a Monitor may have
    Absent,          \* stands for "no object of that name"
    CancelOutcomes,  \* how the list call of cancelJob may end: "ok", "error"
    Faults,          \* what else may fail: "list", "create", "watch"
    MaxChanges,      \* bound: creations, edits and status patches, in all
    MaxRestarts      \* bound: restarts of the controller

ASSUME AbsentAssumption == Absent \notin [uid : Nat, spec : {"enabled", "disabled", "invalid"}]
ASSUME OutcomesAssumption == CancelOutcomes \subseteq {"ok", "error"}
ASSUME BoundsAssumption == MaxChanges \in Nat /\ MaxRestarts \in Nat

VARIABLES
    cluster,      \* the Monitor stored under each name, or Absent
    jobs,         \* the Jobs created for checks
    born,         \* how many times each name has been created
    changes,      \* creations, edits and status patches so far
    stage,        \* the informer: "down", "list", "watch", "closed"
    listed,       \* the answer of list(), minus what has been handled
    inbox,        \* watch events of each name, not delivered yet
    cache,        \* the in-memory copy of each Monitor
    scheduled,    \* the reconciler's scheduledMonitors set
    timers,       \* pending setTimeout callbacks of first checks
    cancelling,   \* cancelJob calls under way for each name
    claims,       \* timers armed for each name by this process
    releases,     \* times this process took the name out of scheduled
    restarts,     \* restarts so far
    everEnabled   \* <<name, uid>> of every object ever stored as enabled

apiVars == <<cluster, jobs, born, changes, everEnabled>>
informerVars == <<stage, listed, inbox, cache>>
reconcilerVars == <<scheduled, timers, cancelling, claims, releases>>
vars == <<apiVars, informerVars, reconcilerVars, restarts>>

Specs == {"enabled", "disabled", "invalid"}
Object == [uid : Nat, spec : Specs]
Event == [type : {"ADDED", "MODIFIED", "DELETED"}, obj : Object]

(* A pending timer holds the object its closure captured and the number of *)
(* its claim; the Job it creates carries them, and the process that made   *)
(* it.  The Job name ends in a timestamp: two claims never share one.      *)
Timer == [mon : Monitors, uid : Nat, n : Nat]
Job == [mon : Monitors, uid : Nat, n : Nat, life : Nat]

Exists(m) == cluster[m] # Absent
Enabled(m) == Exists(m) /\ cluster[m].spec = "enabled"

-----------------------------------------------------------------------------
(* The label the job builder puts on a Job and the value cancelJob selects *)
(* on: one has the "/" of the monitor id replaced, the other has not.      *)
JobLabel(m) == <<"dash", m>>
JobSelector(m) == <<"slash", m>>
Selected(m) == {j \in jobs : JobLabel(j.mon) = JobSelector(m)}

-----------------------------------------------------------------------------
(* The API server: users create, edit and delete Monitors; the status      *)
(* subresource is patched (by the controller itself and by the checkers).  *)
(* Every change is an event on the watch, if one is open.                  *)

Publish(m, type, obj) ==
    inbox' = IF stage = "watch"
             THEN [inbox EXCEPT ![m] = Append(@, [type |-> type, obj |-> obj])]
             ELSE inbox

Store(m, obj) ==
    /\ cluster' = [cluster EXCEPT ![m] = obj]
    /\ everEnabled' = IF obj.spec = "enabled"
                      THEN everEnabled \cup {<<m, obj.uid>>}
                      ELSE everEnabled

CreateMonitor(m, s) ==
    /\ ~Exists(m)
    /\ changes < MaxChanges
    /\ changes' = changes + 1
    /\ born' = [born EXCEPT ![m] = @ + 1]
    /\ Store(m, [uid |-> born[m] + 1, spec |-> s])
    /\ Publish(m, "ADDED", cluster'[m])
    /\ UNCHANGED <<jobs, stage, listed, cache, reconcilerVars, restarts>>

EditMonitor(m, s) ==
    /\ Exists(m)
    /\ s # cluster[m].spec
    /\ changes < MaxChanges
    /\ changes' = changes + 1
    /\ Store(m, [cluster[m] EXCEPT !.spec = s])
    /\ Publish(m, "MODIFIED", cluster'[m])
    /\ UNCHANGED <<jobs, born, stage, listed, cache, reconcilerVars, restarts>>

PatchStatus(m) ==
    /\ Exists(m)
    /\ stage = "watch"
    /\ changes < MaxChanges
    /\ changes' = changes + 1
    /\ Publish(m, "MODIFIED", cluster[m])
    /\ UNCHANGED <<cluster, jobs, born, everEnabled, stage, listed, cache,
                   reconcilerVars, restarts>>

DeleteMonitor(m) ==
    /\ Exists(m)
    /\ Publish(m, "DELETED", cluster[m])
    /\ cluster' = [cluster EXCEPT ![m] = Absent]
    /\ UNCHANGED <<jobs, born, changes, everEnabled, stage, listed, cache,
                   reconcilerVars, restarts>>

(* Kubernetes collects a Job whose owner (by uid) no longer exists.        *)
CollectOrphan(j) ==
    /\ j \in jobs
    /\ ~(Exists(j.mon) /\ cluster[j.mon].uid = j.uid)
    /\ jobs' = jobs \ {j}
    /\ UNCHANGED <<cluster, born, changes, everEnabled, informerVars,
                   reconcilerVars, restarts>>

-----------------------------------------------------------------------------
(* The Monitor handler up to its first await on I/O: an invalid spec is    *)
(* only marked so; an enabled monitor arms a timer unless its name is in   *)
(* scheduled already; a disabled one starts cancelJob.                     *)

(* Mutant: the name is not added to scheduled.                             *)
ClaimNotRemembered(m, obj) ==
    /\ claims' = [claims EXCEPT ![m] = @ + 1]
    /\ timers' = timers \cup {[mon |-> m, uid |-> obj.uid, n |-> claims[m] + 1]}
    /\ UNCHANGED scheduled

Claim(m, obj) ==
    /\ claims' = [claims EXCEPT ![m] = @ + 1]
    /\ timers' = timers \cup {[mon |-> m, uid |-> obj.uid, n |-> claims[m] + 1]}
    /\ scheduled' = scheduled \cup {m}

(* Mutant: whatever is not disabled is scheduled, validated or not.        *)
ReconcileUnvalidated(m, obj) ==
    /\ obj.spec # "disabled"
    /\ \/ m \in scheduled /\ UNCHANGED <<scheduled, timers, claims>>
       \/ m \notin scheduled /\ Claim(m, obj)
    /\ UNCHANGED cancelling

ReconcileEnabled(m, obj) ==
    /\ obj.spec = "enabled"
    /\ \/ m \in scheduled /\ UNCHANGED <<scheduled, timers, claims>>
       \/ m \notin scheduled /\ Claim(m, obj)
    /\ UNCHANGED cancelling

ReconcileDisabled(m, obj) ==
    /\ obj.spec = "disabled"
    /\ cancelling' = [cancelling EXCEPT ![m] = @ + 1]
    /\ UNCHANGED <<scheduled, timers, claims>>

RejectInvalid(obj) ==
    /\ obj.spec = "invalid"
    /\ UNCHANGED <<scheduled, timers, claims, cancelling>>

Handle(m, obj) ==
    /\ \/ ReconcileEnabled(m, obj)
       \/ ReconcileDisabled(m, obj)
       \/ RejectInvalid(obj)
    /\ UNCHANGED releases

(* Mutant: one return takes two calls off the count.                       *)
CancelReturnsTwice(m) ==
    /\ cancelling[m] > 0
    /\ cancelling' = [cancelling EXCEPT ![m] = @ - 2]
    /\ UNCHANGED <<apiVars, informerVars, scheduled, releases, timers, claims, restarts>>

(* cancelJob comes back: on success the Jobs it selected are gone and the  *)
(* name leaves scheduled; an error is logged and the name stays.           *)
CancelReturns(m) ==
    /\ cancelling[m] > 0
    /\ cancelling' = [cancelling EXCEPT ![m] = @ - 1]
    /\ \/ /\ "ok" \in CancelOutcomes
          /\ jobs' = jobs \ Selected(m)
          /\ scheduled' = scheduled \ {m}
          /\ releases' = IF m \in scheduled
                         THEN [releases EXCEPT ![m] = @ + 1]
                         ELSE releases
       \/ "error" \in CancelOutcomes /\ UNCHANGED <<jobs, scheduled, releases>>
    /\ UNCHANGED <<cluster, born, changes, everEnabled, informerVars, timers,
                   claims, restarts>>

(* The timer fires and scheduleCheck creates the Job, or fails to: the     *)
(* error is logged and nothing tries again.                                *)
FireTimer(t) ==
    /\ t \in timers
    /\ timers' = timers \ {t}
    /\ \/ jobs' = jobs \cup {[mon |-> t.mon, uid |-> t.uid, n |-> t.n, life |-> restarts]}
       \/ "create" \in Faults /\ UNCHANGED jobs
    /\ UNCHANGED <<cluster, born, changes, everEnabled, informerVars, scheduled,
                   cancelling, claims, releases, restarts>>

-----------------------------------------------------------------------------
(* The informer of the Monitor kind.                                       *)

Nothing == [m \in Monitors |-> Absent]
NoEvents == [m \in Monitors |-> <<>>]
NoCancelUnderWay == \A m \in Monitors : cancelling[m] = 0

StartController ==
    /\ stage = "down"
    /\ stage' = "list"
    /\ \/ listed' = cluster
       \/ "list" \in Faults /\ listed' = Nothing
    /\ UNCHANGED <<apiVars, inbox, cache, reconcilerVars, restarts>>

(* The listed objects are handled one after the other, each awaited.       *)
HandleListed(m) ==
    /\ stage = "list"
    /\ listed[m] # Absent
    /\ NoCancelUnderWay
    /\ cache' = [cache EXCEPT ![m] = listed[m]]
    /\ listed' = [listed EXCEPT ![m] = Absent]
    /\ Handle(m, listed[m])
    /\ UNCHANGED <<apiVars, stage, inbox, restarts>>

(* Mutant: the watch starts with the changes that follow it.               *)
ReplayNothing == NoEvents

(* The watch is opened without a resourceVersion, so it first replays the  *)
(* existing objects as ADDED.                                              *)
Replay == [m \in Monitors |->
              IF Exists(m) THEN <<[type |-> "ADDED", obj |-> cluster[m]]>> ELSE <<>>]

OpenWatch ==
    /\ stage = "list"
    /\ listed = Nothing
    /\ NoCancelUnderWay
    /\ stage' = "watch"
    /\ inbox' = Replay
    /\ UNCHANGED <<apiVars, listed, cache, reconcilerVars, restarts>>

(* Mutant: MODIFIED is delivered without the cache being updated.          *)
DeliverUncached(m) ==
    /\ stage = "watch"
    /\ inbox[m] # <<>>
    /\ Head(inbox[m]).type \in {"ADDED", "MODIFIED"}
    /\ inbox' = [inbox EXCEPT ![m] = Tail(@)]
    /\ cache' = IF Head(inbox[m]).type = "ADDED"
                THEN [cache EXCEPT ![m] = Head(inbox[m]).obj]
                ELSE cache
    /\ Handle(m, Head(inbox[m]).obj)
    /\ UNCHANGED <<apiVars, stage, listed, restarts>>

(* Mutant: events wait for something, and are handled in any order.        *)
DeliverAny(m) ==
    /\ stage = "watch"
    /\ \E i \in DOMAIN inbox[m] :
        /\ inbox[m][i].type \in {"ADDED", "MODIFIED"}
        /\ inbox' = [inbox EXCEPT ![m] = SubSeq(@, 1, i - 1) \o SubSeq(@, i + 1, Len(@))]
        /\ cache' = [cache EXCEPT ![m] = inbox[m][i].obj]
        /\ Handle(m, inbox[m][i].obj)
    /\ UNCHANGED <<apiVars, stage, listed, restarts>>

DeliverUpsert(m) ==
    /\ stage = "watch"
    /\ inbox[m] # <<>>
    /\ Head(inbox[m]).type \in {"ADDED", "MODIFIED"}
    /\ inbox' = [inbox EXCEPT ![m] = Tail(@)]
    /\ cache' = [cache EXCEPT ![m] = Head(inbox[m]).obj]
    /\ Handle(m, Head(inbox[m]).obj)
    /\ UNCHANGED <<apiVars, stage, listed, restarts>>

(* No delete handler is ever registered: only the cache forgets the name.  *)
DeliverDeleted(m) ==
    /\ stage = "watch"
    /\ inbox[m] # <<>>
    /\ Head(inbox[m]).type = "DELETED"
    /\ inbox' = [inbox EXCEPT ![m] = Tail(@)]
    /\ cache' = [cache EXCEPT ![m] = Absent]
    /\ UNCHANGED <<apiVars, stage, listed, reconcilerVars, restarts>>

(* The connection ends: the callback logs it, and nothing reconnects.      *)
CloseWatch ==
    /\ "watch" \in Faults
    /\ stage = "watch"
    /\ stage' = "closed"
    /\ inbox' = NoEvents
    /\ UNCHANGED <<apiVars, listed, cache, reconcilerVars, restarts>>

(* Mutant: scheduled outlives the process, its timers do not.              *)
RestartKeepsScheduled ==
    /\ stage # "down"
    /\ restarts < MaxRestarts
    /\ restarts' = restarts + 1
    /\ stage' = "down"
    /\ listed' = Nothing /\ inbox' = NoEvents /\ cache' = Nothing
    /\ timers' = {}
    /\ cancelling' = [m \in Monitors |-> 0]
    /\ claims' = [m \in Monitors |-> 0]
    /\ releases' = [m \in Monitors |-> 0]
    /\ UNCHANGED <<apiVars, scheduled>>

(* The process exits, by a crash or a signal, and loses all it holds in    *)
(* memory; Kubernetes will start it again.                                 *)
Restart ==
    /\ stage # "down"
    /\ restarts < MaxRestarts
    /\ restarts' = restarts + 1
    /\ stage' = "down"
    /\ listed' = Nothing /\ inbox' = NoEvents /\ cache' = Nothing
    /\ scheduled' = {} /\ timers' = {}
    /\ cancelling' = [m \in Monitors |-> 0]
    /\ claims' = [m \in Monitors |-> 0]
    /\ releases' = [m \in Monitors |-> 0]
    /\ UNCHANGED apiVars

-----------------------------------------------------------------------------
Init ==
    /\ cluster = Nothing /\ jobs = {} /\ everEnabled = {}
    /\ born = [m \in Monitors |-> 0] /\ changes = 0
    /\ stage = "down" /\ listed = Nothing /\ inbox = NoEvents /\ cache = Nothing
    /\ scheduled = {} /\ timers = {}
    /\ cancelling = [m \in Monitors |-> 0]
    /\ claims = [m \in Monitors |-> 0] /\ releases = [m \in Monitors |-> 0]
    /\ restarts = 0

MonitorNext(m) ==
    \/ \E s \in Specs : CreateMonitor(m, s) \/ EditMonitor(m, s)
    \/ PatchStatus(m)
    \/ DeleteMonitor(m)
    \/ HandleListed(m)
    \/ DeliverUpsert(m)
    \/ DeliverDeleted(m)
    \/ CancelReturns(m)

Next ==
    \/ \E m \in Monitors : MonitorNext(m)
    \/ \E t \in timers : FireTimer(t)
    \/ \E j \in jobs : CollectOrphan(j)
    \/ StartController
    \/ OpenWatch
    \/ CloseWatch
    \/ Restart

Spec == Init /\ [][Next]_vars

(* What the event loop, the API server and Kubernetes owe: a stopped       *)
(* controller is started, what was listed or received is handled, calls    *)
(* return and timers fire.  Users, faults and crashes owe nothing.         *)
Fairness ==
    /\ WF_vars(StartController)
    /\ WF_vars(OpenWatch)
    /\ \A m \in Monitors :
        /\ WF_vars(HandleListed(m))
        /\ WF_vars(DeliverUpsert(m))
        /\ WF_vars(DeliverDeleted(m))
        /\ WF_vars(CancelReturns(m))
        /\ WF_vars(\E t \in timers : t.mon = m /\ FireTimer(t))

FairSpec == Spec /\ Fairness

-----------------------------------------------------------------------------
(* The shape of the state.                                                 *)
TypeOK ==
    /\ cluster \in [Monitors -> Object \cup {Absent}]
    /\ jobs \subseteq Job
    /\ born \in [Monitors -> Nat] /\ changes \in Nat
    /\ everEnabled \subseteq Monitors \X Nat
    /\ stage \in {"down", "list", "watch", "closed"}
    /\ listed \in [Monitors -> Object \cup {Absent}]
    /\ inbox \in [Monitors -> Seq(Event)]
    /\ cache \in [Monitors -> Object \cup {Absent}]
    /\ scheduled \subseteq Monitors
    /\ timers \subseteq Timer
    /\ cancelling \in [Monitors -> Nat]
    /\ claims \in [Monitors -> Nat] /\ releases \in [Monitors -> Nat]
    /\ restarts \in Nat

(* However list, replay, edits and status patches overlap, a name is armed *)
(* again only after a cancelJob took it out of scheduledMonitors: the k-th *)
(* check of a process, pending or created, had k - 1 releases before it.   *)
NoDoubleScheduling ==
    /\ \A t \in timers : t.n <= releases[t.mon] + 1
    /\ \A j \in jobs : j.life = restarts => j.n <= releases[j.mon] + 1

(* A timer or a Job exists only for an object that was stored, at some     *)
(* moment, valid and enabled: one that never was is never checked, whatever*)
(* is delayed, replayed, deleted or created again under the same name.     *)
OnlyEnabledChecked ==
    /\ \A t \in timers : <<t.mon, t.uid>> \in everEnabled
    /\ \A j \in jobs : <<j.mon, j.uid>> \in everEnabled

(* Once the events of an existing monitor are delivered, the cache holds   *)
(* the object the API server holds, also when it was created or changed    *)
(* between the list and the watch.  (A name deleted in that gap stays in   *)
(* the cache: its DELETED event was never sent.)                           *)
CacheCatchesUp ==
    stage = "watch" =>
        \A m \in Monitors : Exists(m) /\ inbox[m] = <<>> => cache[m] = cluster[m]

(* The timers and the Jobs of this process for a name.                     *)
Checks(m) ==
    {t \in timers : t.mon = m} \cup {j \in jobs : j.mon = m /\ j.life = restarts}

(* Of the objects that bear a name one after the other, the controller     *)
(* never goes back to an earlier one: neither the cache nor the object a   *)
(* timer is armed with, though the list is older than the replay, events   *)
(* are late and a name is deleted and created again between them.          *)
NeverGoesBack ==
    [][\A m \in Monitors :
          /\ cache[m] # Absent /\ cache'[m] # Absent => cache[m].uid <= cache'[m].uid
          /\ \A t \in timers' \ timers : t.mon = m =>
                \A c \in Checks(m) : c.uid <= t.uid]_vars

(* Once its events are delivered an enabled monitor is scheduled, unless a *)
(* cancelJob has taken its name out: neither the gap between list and      *)
(* watch, nor a restart, nor a late event makes the controller miss one.   *)
CaughtUpIsScheduled ==
    stage = "watch" =>
        \A m \in Monitors :
            Enabled(m) /\ inbox[m] = <<>> /\ releases[m] = 0 => m \in scheduled

IsEnabled(m, u) == Enabled(m) /\ cluster[m].uid = u

HasJob(m, u) == \E j \in jobs : j.mon = m /\ j.uid = u

(* This process has armed a timer, which is gone without a Job.            *)
CreateFailed(m) ==
    /\ claims[m] > 0
    /\ \A t \in timers : t.mon # m
    /\ \A j \in jobs : j.mon # m

(* The first object of a name, if it stays enabled, gets its Job, across   *)
(* restarts of the controller, unless the watch has ended or the API       *)
(* server refused the Job, after which nothing is tried again.             *)
FirstIsChecked ==
    \A m \in Monitors : IsEnabled(m, 1) ~>
        (~IsEnabled(m, 1) \/ HasJob(m, 1) \/ stage = "closed" \/ CreateFailed(m))

-----------------------------------------------------------------------------
(* What the code's comments and the documentation promise, and the code    *)
(* does not do.                                                            *)

(* monitor-reconciler.ts:188: a disabled monitor leaves scheduledMonitors  *)
(* "so it can be rescheduled if re-enabled".                               *)
ReenabledIsRescheduled ==
    [][\A m \in Monitors :
          /\ stage = "watch" /\ cache[m] # Absent /\ cache[m].spec = "disabled"
          /\ cancelling[m] = 0
          /\ cache'[m] # Absent /\ cache'[m].spec = "enabled"
          => claims'[m] = claims[m] + 1]_vars

(* monitor-reconciler.ts:184: "Cancel pending jobs for disabled monitors". *)
(* When the reconciler is through with a disabled monitor, no Job is made  *)
(* for it any more: the first check that was pending is called off.        *)
DisabledIsNotChecked ==
    [][\A j \in jobs' \ jobs :
          cache[j.mon] # Absent /\ cancelling[j.mon] = 0
          => cache[j.mon].spec # "disabled"]_vars

(* monitor-reconciler.ts:200-208, "Handle monitor deletion": the name is   *)
(* removed from scheduledMonitors.  So when the deletion of a monitor has  *)
(* been delivered and one is created again under its name, the new one is  *)
(* checked if it stays enabled, as the first of the name was.              *)
RecreatedIsChecked ==
    \A m \in Monitors : \A u \in 1 .. MaxChanges :
        stage = "watch" /\ cache[m] = Absent /\ IsEnabled(m, u)
        ~> (~IsEnabled(m, u) \/ HasJob(m, u))

(* guide/monitors.md:27: "Check every 60 seconds".  A monitor that stays   *)
(* enabled is checked a second time.                                       *)
KeepsChecking ==
    \A m \in Monitors :
        <>[]Enabled(m) => <>(\E j, k \in jobs : j # k /\ j.mon = m /\ k.mon = m)
=============================================================================
