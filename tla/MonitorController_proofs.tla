---------------------- MODULE MonitorController_proofs ----------------------
(***************************************************************************)
(* Proofs about MonitorController, for any set of Monitors, any outcome of *)
(* cancelJob, any faults and any bounds.                                   *)
(*                                                                         *)
(* TypeOK is inductive.  Each other invariant is the consequence of a      *)
(* stronger one, defined here, that relates what the property counts or    *)
(* remembers to the state of the reconciler or of the watch.  So is the    *)
(* action property NeverGoesBack, of what is still to be handled.          *)
(***************************************************************************)
EXTENDS MonitorController, SequenceTheorems, TLAPS

-----------------------------------------------------------------------------
(* The type invariant.                                                     *)

LEMMA StoredObjects ==
    /\ Absent \notin Object
    /\ \A o \in Object, s \in Specs :
         [o EXCEPT !.spec = s] \in Object /\ [o EXCEPT !.spec = s].spec = s
  BY AbsentAssumption DEF Object, Specs

(* The handler, run on a stored object, keeps the types of its variables.  *)
LEMMA HandleType ==
    ASSUME TypeOK, NEW m \in Monitors, NEW o \in Object, Handle(m, o)
    PROVE  /\ scheduled' \subseteq Monitors
           /\ timers' \subseteq Timer
           /\ cancelling' \in [Monitors -> Nat]
           /\ claims' \in [Monitors -> Nat]
           /\ releases' \in [Monitors -> Nat]
  <1>1. CASE ReconcileEnabled(m, o)
    BY <1>1 DEF TypeOK, Handle, ReconcileEnabled, Claim, Timer, Object
  <1>2. CASE ReconcileDisabled(m, o)
    BY <1>2 DEF TypeOK, Handle, ReconcileDisabled
  <1>3. CASE RejectInvalid(o)
    BY <1>3 DEF TypeOK, Handle, RejectInvalid
  <1> QED
    BY <1>1, <1>2, <1>3 DEF Handle

(* A published event is one more at the end of the name's queue.           *)
LEMMA PublishType ==
    ASSUME TypeOK, NEW m \in Monitors, NEW o \in Object,
           NEW type \in {"ADDED", "MODIFIED", "DELETED"}, Publish(m, type, o)
    PROVE  inbox' \in [Monitors -> Seq(Event)]
  <1>1. [type |-> type, obj |-> o] \in Event
    BY DEF Event
  <1> QED
    BY <1>1, AppendProperties DEF TypeOK, Publish

LEMMA DeliveredEvent ==
    ASSUME TypeOK, NEW m \in Monitors, inbox[m] # <<>>
    PROVE  /\ Head(inbox[m]) \in Event
           /\ Head(inbox[m]).obj \in Object
           /\ Tail(inbox[m]) \in Seq(Event)
  <1>1. inbox[m] \in Seq(Event)
    BY DEF TypeOK
  <1>2. Head(inbox[m]) \in Event /\ Tail(inbox[m]) \in Seq(Event)
    BY <1>1, HeadTailProperties
  <1> QED
    BY <1>2 DEF Event

LEMMA TypeInit == Init => TypeOK
  BY DEF Init, TypeOK, Nothing, NoEvents

LEMMA TypeStep == TypeOK /\ [Next]_vars => TypeOK'
  <1> SUFFICES ASSUME TypeOK, [Next]_vars
               PROVE  TypeOK'
    OBVIOUS
  <1> USE StoredObjects
  <1>1. ASSUME NEW m \in Monitors, NEW s \in Specs, CreateMonitor(m, s)
        PROVE  TypeOK'
    <2>1. [uid |-> born[m] + 1, spec |-> s] \in Object
      BY DEF TypeOK, Object
    <2>2. /\ cluster' = [cluster EXCEPT ![m] = [uid |-> born[m] + 1, spec |-> s]]
          /\ cluster'[m] \in Object
      BY <1>1, <2>1 DEF TypeOK, CreateMonitor, Store
    <2>3. inbox' \in [Monitors -> Seq(Event)]
      BY <1>1, <2>2, PublishType DEF CreateMonitor
    <2>4. everEnabled' \subseteq Monitors \X Nat
      BY <1>1 DEF TypeOK, CreateMonitor, Store
    <2>5. /\ cluster' \in [Monitors -> Object \cup {Absent}]
          /\ born' \in [Monitors -> Nat] /\ changes' \in Nat
      BY <1>1, <2>1, <2>2 DEF TypeOK, CreateMonitor
    <2> QED
      BY <1>1, <2>3, <2>4, <2>5 DEF TypeOK, CreateMonitor, reconcilerVars
  <1>2. ASSUME NEW m \in Monitors, NEW s \in Specs, EditMonitor(m, s)
        PROVE  TypeOK'
    <2>1. cluster[m] \in Object /\ [cluster[m] EXCEPT !.spec = s] \in Object
      BY <1>2 DEF TypeOK, EditMonitor, Exists
    <2>2. /\ cluster' = [cluster EXCEPT ![m] = [cluster[m] EXCEPT !.spec = s]]
          /\ cluster'[m] \in Object
      BY <1>2, <2>1 DEF TypeOK, EditMonitor, Store
    <2>3. inbox' \in [Monitors -> Seq(Event)]
      BY <1>2, <2>2, PublishType DEF EditMonitor
    <2>4. everEnabled' \subseteq Monitors \X Nat
      BY <1>2, <2>1 DEF TypeOK, EditMonitor, Store, Object
    <2>5. cluster' \in [Monitors -> Object \cup {Absent}] /\ changes' \in Nat
      BY <1>2, <2>1, <2>2 DEF TypeOK, EditMonitor
    <2> QED
      BY <1>2, <2>3, <2>4, <2>5 DEF TypeOK, EditMonitor, reconcilerVars
  <1>3. ASSUME NEW m \in Monitors, PatchStatus(m)
        PROVE  TypeOK'
    <2>1. inbox' \in [Monitors -> Seq(Event)]
      BY <1>3, PublishType DEF TypeOK, PatchStatus, Exists
    <2>2. changes' \in Nat
      BY <1>3 DEF TypeOK, PatchStatus
    <2> QED
      BY <1>3, <2>1, <2>2 DEF TypeOK, PatchStatus, reconcilerVars
  <1>4. ASSUME NEW m \in Monitors, DeleteMonitor(m)
        PROVE  TypeOK'
    <2>1. inbox' \in [Monitors -> Seq(Event)]
      BY <1>4, PublishType DEF TypeOK, DeleteMonitor, Exists
    <2> QED
      BY <1>4, <2>1 DEF TypeOK, DeleteMonitor, reconcilerVars
  <1>5. ASSUME NEW m \in Monitors, HandleListed(m)
        PROVE  TypeOK'
    <2>1. listed[m] \in Object
      BY <1>5 DEF TypeOK, HandleListed
    <2> QED
      BY <1>5, <2>1, HandleType DEF TypeOK, HandleListed, apiVars
  <1>6. ASSUME NEW m \in Monitors, DeliverUpsert(m)
        PROVE  TypeOK'
    BY <1>6, DeliveredEvent, HandleType DEF TypeOK, DeliverUpsert, apiVars
  <1>7. ASSUME NEW m \in Monitors, DeliverDeleted(m)
        PROVE  TypeOK'
    BY <1>7, DeliveredEvent DEF TypeOK, DeliverDeleted, apiVars, reconcilerVars
  <1>8. ASSUME NEW m \in Monitors, CancelReturns(m)
        PROVE  TypeOK'
    <2>1. cancelling' \in [Monitors -> Nat]
      BY <1>8 DEF TypeOK, CancelReturns
    <2>2. jobs' \subseteq jobs /\ scheduled' \subseteq scheduled
      BY <1>8 DEF CancelReturns
    <2>3. releases' \in [Monitors -> Nat]
      BY <1>8 DEF TypeOK, CancelReturns
    <2> QED
      BY <1>8, <2>1, <2>2, <2>3 DEF TypeOK, CancelReturns, informerVars
  <1>9. ASSUME NEW t \in timers, FireTimer(t)
        PROVE  TypeOK'
    <2>1. [mon |-> t.mon, uid |-> t.uid, n |-> t.n, life |-> restarts] \in Job
      BY DEF TypeOK, Timer, Job
    <2>2. jobs' \subseteq Job /\ timers' \subseteq Timer
      BY <1>9, <2>1 DEF TypeOK, FireTimer
    <2> QED
      BY <1>9, <2>2 DEF TypeOK, FireTimer, informerVars
  <1>10. ASSUME NEW j \in jobs, CollectOrphan(j)
         PROVE  TypeOK'
    BY <1>10 DEF TypeOK, CollectOrphan, informerVars, reconcilerVars
  <1>11. CASE StartController
    BY <1>11 DEF TypeOK, StartController, Nothing, apiVars, reconcilerVars
  <1>12. CASE OpenWatch
    <2>1. ASSUME NEW m \in Monitors, Exists(m)
          PROVE  <<[type |-> "ADDED", obj |-> cluster[m]]>> \in Seq(Event)
      BY <2>1 DEF TypeOK, Exists, Event
    <2> QED
      BY <1>12, <2>1 DEF TypeOK, OpenWatch, Replay, apiVars, reconcilerVars
  <1>13. CASE CloseWatch
    BY <1>13 DEF TypeOK, CloseWatch, NoEvents, apiVars, reconcilerVars
  <1>14. CASE Restart
    BY <1>14 DEF TypeOK, Restart, Nothing, NoEvents, apiVars
  <1>15. CASE UNCHANGED vars
    BY <1>15 DEF TypeOK, vars, apiVars, informerVars, reconcilerVars
  <1> QED
    BY <1>1, <1>2, <1>3, <1>4, <1>5, <1>6, <1>7, <1>8, <1>9, <1>10, <1>11, <1>12,
       <1>13, <1>14, <1>15 DEF Next, MonitorNext

(* The variables keep their types in every behaviour.                      *)
THEOREM TypeCorrect == Spec => []TypeOK
  BY TypeInit, TypeStep, PTL DEF Spec

-----------------------------------------------------------------------------
(* The strengthened invariants.                                            *)

(* A name's claims exceed its releases by one exactly while it is in       *)
(* scheduled, and timers and Jobs hold numbers of claims already made.     *)
ClaimsBalance ==
    /\ \A m \in Monitors : claims[m] = releases[m] + (IF m \in scheduled THEN 1 ELSE 0)
    /\ \A t \in timers : t.n <= claims[t.mon]
    /\ \A j \in jobs : j.life = restarts => j.n <= claims[j.mon]
    /\ \A j \in jobs : j.life <= restarts

(* Every enabled object the controller may still handle was stored so.     *)
Stored(m, o) == o # Absent /\ o.spec = "enabled" => <<m, o.uid>> \in everEnabled

EnabledKnown ==
    /\ \A m \in Monitors : Stored(m, cluster[m]) /\ Stored(m, listed[m])
    /\ \A m \in Monitors : \A i \in 1..Len(inbox[m]) : Stored(m, inbox[m][i].obj)

(* The last event on its way about an existing monitor carries the object  *)
(* as it is stored; when none is on its way, the cache holds it.           *)
LastOf(q) == q[Len(q)]

LastEventIsCurrent ==
    stage = "watch" =>
        \A m \in Monitors : Exists(m) =>
            IF inbox[m] = <<>> THEN cache[m] = cluster[m]
            ELSE /\ LastOf(inbox[m]).type # "DELETED"
                 /\ LastOf(inbox[m]).obj = cluster[m]

-----------------------------------------------------------------------------
(* The objects a handler may be given next for a name.                     *)
Awaiting(m) ==
    {o \in Object : o = listed[m] \/ (inbox[m] # <<>> /\ o = Head(inbox[m]).obj)}

(* What a step may do to the reconciler, the Jobs and the process: nothing,*)
(* or one of five things.                                                  *)
LEMMA ReconcilerSteps ==
    ASSUME TypeOK, [Next]_vars
    PROVE  \/ UNCHANGED <<scheduled, timers, claims, releases, jobs, restarts>>
           \/ \E m \in Monitors : \E o \in Awaiting(m) :
                  Handle(m, o) /\ UNCHANGED <<jobs, restarts>>
           \/ \E m \in Monitors : CancelReturns(m)
           \/ \E t \in timers : FireTimer(t)
           \/ \E j \in jobs : CollectOrphan(j)
           \/ Restart
  <1>1. ASSUME NEW m \in Monitors, HandleListed(m)
        PROVE  /\ listed[m] \in Awaiting(m) /\ Handle(m, listed[m])
               /\ UNCHANGED <<jobs, restarts>>
    BY <1>1 DEF TypeOK, HandleListed, apiVars, Awaiting
  <1>2. ASSUME NEW m \in Monitors, DeliverUpsert(m)
        PROVE  /\ Head(inbox[m]).obj \in Awaiting(m)
               /\ Handle(m, Head(inbox[m]).obj) /\ UNCHANGED <<jobs, restarts>>
    BY <1>2, DeliveredEvent DEF DeliverUpsert, apiVars, Awaiting
  <1>3. ASSUME NEW m \in Monitors, NEW s \in Specs,
               \/ CreateMonitor(m, s) \/ EditMonitor(m, s) \/ PatchStatus(m)
               \/ DeleteMonitor(m) \/ DeliverDeleted(m)
        PROVE  UNCHANGED <<scheduled, timers, claims, releases, jobs, restarts>>
    BY <1>3 DEF CreateMonitor, EditMonitor, PatchStatus, DeleteMonitor, DeliverDeleted,
                reconcilerVars, apiVars
  <1>4. ASSUME StartController \/ OpenWatch \/ CloseWatch \/ UNCHANGED vars
        PROVE  UNCHANGED <<scheduled, timers, claims, releases, jobs, restarts>>
    BY <1>4 DEF StartController, OpenWatch, CloseWatch, vars, reconcilerVars, apiVars
  <1>5. Specs # {}
    BY DEF Specs
  <1> QED
    BY <1>1, <1>2, <1>3, <1>4, <1>5 DEF Next, MonitorNext

-----------------------------------------------------------------------------
(* No name is armed twice without a release.                               *)

LEMMA BalanceStep == TypeOK /\ ClaimsBalance /\ [Next]_vars => ClaimsBalance'
  <1> SUFFICES ASSUME TypeOK, ClaimsBalance, [Next]_vars
               PROVE  ClaimsBalance'
    OBVIOUS
  <1>1. CASE UNCHANGED <<scheduled, timers, claims, releases, jobs, restarts>>
    BY <1>1 DEF ClaimsBalance
  <1>2. ASSUME NEW m \in Monitors, NEW o \in Object,
               Handle(m, o), UNCHANGED <<jobs, restarts>>
        PROVE  ClaimsBalance'
    <2>1. CASE UNCHANGED <<scheduled, timers, claims>>
      BY <1>2, <2>1 DEF ClaimsBalance, Handle
    <2>2. CASE m \notin scheduled /\ Claim(m, o)
      <3>1. /\ claims'[m] = claims[m] + 1
            /\ \A k \in Monitors : k # m => claims'[k] = claims[k]
            /\ \A k \in Monitors : claims[k] <= claims'[k]
            /\ \A k \in Monitors : claims[k] \in Nat /\ claims'[k] \in Nat
        BY <2>2 DEF Claim, TypeOK
      <3>2. \A k \in Monitors :
               claims'[k] = releases'[k] + (IF k \in scheduled' THEN 1 ELSE 0)
        BY <1>2, <2>2, <3>1 DEF ClaimsBalance, Handle, Claim, TypeOK
      <3>3. \A t \in timers' : t.n <= claims'[t.mon]
        <4> TAKE t \in timers'
        <4>1. CASE t \in timers
          <5>1. t.mon \in Monitors /\ t.n \in Nat
            BY <4>1 DEF TypeOK, Timer
          <5>2. t.n <= claims[t.mon]
            BY <4>1 DEF ClaimsBalance
          <5>3. claims[t.mon] \in Nat /\ claims'[t.mon] \in Nat
            BY <5>1, <3>1
          <5> QED
            BY <5>1, <5>2, <5>3, <3>1
        <4>2. CASE t \notin timers
          <5>1. t = [mon |-> m, uid |-> o.uid, n |-> claims[m] + 1]
            BY <2>2, <4>2 DEF Claim
          <5>2. t.mon = m /\ t.n = claims[m] + 1
            BY <5>1
          <5>3. claims[m] + 1 \in Nat
            BY DEF TypeOK
          <5> QED
            BY <5>2, <5>3, <3>1
        <4> QED
          BY <4>1, <4>2
      <3>4. \A j \in jobs : j.life = restarts => j.n <= claims'[j.mon]
        <4> SUFFICES ASSUME NEW j \in jobs, j.life = restarts
                     PROVE  j.n <= claims'[j.mon]
          OBVIOUS
        <4>1. j.mon \in Monitors /\ j.n \in Nat /\ j.n <= claims[j.mon]
          BY DEF ClaimsBalance, TypeOK, Job
        <4>2. claims[j.mon] \in Nat /\ claims'[j.mon] \in Nat
          BY <4>1, <3>1 DEF TypeOK
        <4> QED
          BY <4>1, <4>2, <3>1
      <3> QED
        BY <1>2, <3>2, <3>3, <3>4 DEF ClaimsBalance
    <2> QED
      BY <1>2, <2>1, <2>2 DEF Handle, ReconcileEnabled, ReconcileDisabled, RejectInvalid
  <1>3. ASSUME NEW m \in Monitors, CancelReturns(m)
        PROVE  ClaimsBalance'
    <2>1. jobs' \subseteq jobs /\ UNCHANGED <<timers, claims, restarts>>
      BY <1>3 DEF CancelReturns
    <2>2. \A k \in Monitors :
             claims[k] = releases'[k] + (IF k \in scheduled' THEN 1 ELSE 0)
      <3> TAKE k \in Monitors
      <3>1. /\ releases[k] \in Nat /\ releases \in [Monitors -> Nat]
            /\ claims[k] = releases[k] + (IF k \in scheduled THEN 1 ELSE 0)
        BY DEF ClaimsBalance, TypeOK
      <3>2. CASE UNCHANGED <<scheduled, releases>>
        BY <3>1, <3>2
      <3>3. CASE /\ scheduled' = scheduled \ {m}
                 /\ releases' = IF m \in scheduled
                                THEN [releases EXCEPT ![m] = @ + 1]
                                ELSE releases
        <4>1. CASE k = m /\ m \in scheduled
          <5>1. releases'[k] = releases[k] + 1 /\ k \notin scheduled'
            BY <3>1, <3>3, <4>1
          <5> QED
            BY <5>1, <3>1, <4>1
        <4>2. CASE ~(k = m /\ m \in scheduled)
          <5>1. releases'[k] = releases[k] /\ (k \in scheduled' <=> k \in scheduled)
            BY <3>1, <3>3, <4>2
          <5> QED
            BY <5>1, <3>1
        <4> QED
          BY <4>1, <4>2
      <3> QED
        BY <1>3, <3>2, <3>3 DEF CancelReturns
    <2> QED
      BY <2>1, <2>2 DEF ClaimsBalance
  <1>4. ASSUME NEW t \in timers, FireTimer(t)
        PROVE  ClaimsBalance'
    <2>1. /\ timers' \subseteq timers
          /\ UNCHANGED <<scheduled, claims, releases, restarts>>
          /\ \A j \in jobs' : j \in jobs \/
                j = [mon |-> t.mon, uid |-> t.uid, n |-> t.n, life |-> restarts]
      BY <1>4 DEF FireTimer
    <2>2. \A j \in jobs' : j \in jobs \/
             (j.mon = t.mon /\ j.n = t.n /\ j.life = restarts)
      BY <2>1
    <2>3. t.n <= claims[t.mon] /\ restarts <= restarts
      BY DEF ClaimsBalance, TypeOK
    <2> QED
      BY <2>1, <2>2, <2>3 DEF ClaimsBalance
  <1>5. ASSUME NEW j \in jobs, CollectOrphan(j)
        PROVE  ClaimsBalance'
    BY <1>5 DEF CollectOrphan, ClaimsBalance, reconcilerVars
  <1>6. CASE Restart
    <2>1. \A j \in jobs : j.life <= restarts /\ j.life \in Nat
      BY DEF ClaimsBalance, TypeOK, Job
    <2>2. \A j \in jobs' : j.life # restarts' /\ j.life <= restarts'
      <3>1. restarts' = restarts + 1 /\ restarts \in Nat /\ jobs' = jobs
        BY <1>6 DEF Restart, apiVars, TypeOK
      <3> QED
        BY <2>1, <3>1
    <2>3. \A k \in Monitors :
             claims'[k] = releases'[k] + (IF k \in scheduled' THEN 1 ELSE 0)
      BY <1>6 DEF Restart
    <2> QED
      BY <1>6, <2>2, <2>3 DEF Restart, ClaimsBalance
  <1> QED
    BY <1>1, <1>2, <1>3, <1>4, <1>5, <1>6, ReconcilerSteps DEF Awaiting

(* No interleaving of list, replay, edits, cancellations and restarts arms *)
(* a name twice between two releases, whatever fails.                      *)
THEOREM ArmedOncePerRelease == Spec => []NoDoubleScheduling
  <1>1. Init => ClaimsBalance
    BY DEF Init, ClaimsBalance
  <1>2. TypeOK /\ ClaimsBalance => NoDoubleScheduling
    <2> SUFFICES ASSUME TypeOK, ClaimsBalance
                 PROVE  NoDoubleScheduling
      OBVIOUS
    <2>1. \A m \in Monitors : /\ claims[m] \in Nat /\ releases[m] \in Nat
                               /\ claims[m] <= releases[m] + 1
      <3> TAKE m \in Monitors
      <3>1. claims[m] \in Nat /\ releases[m] \in Nat
        BY DEF TypeOK
      <3>2. claims[m] = releases[m] + (IF m \in scheduled THEN 1 ELSE 0)
        BY DEF ClaimsBalance
      <3> QED
        BY <3>1, <3>2
    <2>2. ASSUME NEW t \in timers
          PROVE  t.n <= releases[t.mon] + 1
      <3>1. t.mon \in Monitors /\ t.n \in Nat /\ t.n <= claims[t.mon]
        BY DEF TypeOK, ClaimsBalance, Timer
      <3> QED
        BY <2>1, <3>1
    <2>3. ASSUME NEW j \in jobs, j.life = restarts
          PROVE  j.n <= releases[j.mon] + 1
      <3>1. j.mon \in Monitors /\ j.n \in Nat /\ j.n <= claims[j.mon]
        BY <2>3 DEF TypeOK, ClaimsBalance, Job
      <3> QED
        BY <2>1, <3>1
    <2> QED
      BY <2>2, <2>3 DEF NoDoubleScheduling
  <1> QED
    BY <1>1, <1>2, BalanceStep, TypeCorrect, PTL DEF Spec

-----------------------------------------------------------------------------
(* The cache catches up with the API server.                               *)

LEMMA LastOfAppend ==
    ASSUME NEW q \in Seq(Event), NEW e \in Event
    PROVE  Append(q, e) # <<>> /\ LastOf(Append(q, e)) = e
  <1>1. /\ Append(q, e) # <<>> /\ Len(Append(q, e)) = Len(q) + 1
        /\ Append(q, e)[Len(q) + 1] = e
    BY AppendProperties
  <1> QED
    BY <1>1 DEF LastOf

LEMMA LastOfTail ==
    ASSUME NEW q \in Seq(Event), q # <<>>
    PROVE  IF Tail(q) = <<>> THEN LastOf(q) = Head(q) ELSE LastOf(Tail(q)) = LastOf(q)
  <1>1. /\ Tail(q) \in Seq(Event) /\ Len(Tail(q)) = Len(q) - 1
        /\ \A i \in 1..Len(Tail(q)) : Tail(q)[i] = q[i + 1]
        /\ Len(q) \in Nat \ {0}
    BY HeadTailProperties, EmptySeq
  <1>2. CASE Tail(q) = <<>>
    <2>1. Len(q) = 1
      <3>1. Len(<<>>) = 0
        OBVIOUS
      <3>2. Len(Tail(q)) = 0
        BY <1>2, <3>1, Zenon
      <3>3. Len(q) - 1 = 0 /\ Len(q) \in Nat
        BY <1>1, <3>2
      <3> QED
        BY <3>3
    <2> QED
      BY <1>2, <2>1 DEF LastOf
  <1>3. CASE Tail(q) # <<>>
    <2>1. Len(Tail(q)) \in Nat \ {0}
      BY <1>1, <1>3, EmptySeq
    <2>2. Len(Tail(q)) \in 1..Len(Tail(q)) /\ Len(Tail(q)) + 1 = Len(q)
      BY <1>1, <2>1
    <2> QED
      BY <1>1, <1>3, <2>2 DEF LastOf
  <1> QED
    BY <1>2, <1>3

(* A change that publishes the object it stores keeps the invariant.       *)
LEMMA PublishedIsLast ==
    ASSUME TypeOK, LastEventIsCurrent, NEW m \in Monitors, NEW o \in Object,
           NEW type \in {"ADDED", "MODIFIED"}, Publish(m, type, o),
           cluster'[m] = o, \A k \in Monitors \ {m} : cluster'[k] = cluster[k],
           UNCHANGED <<cache, stage>>
    PROVE  LastEventIsCurrent'
  <1> DEFINE e == [type |-> type, obj |-> o]
  <1>1. e \in Event /\ e.type # "DELETED" /\ e.obj = o
    BY DEF Event
  <1> SUFFICES ASSUME stage = "watch", NEW k \in Monitors, Exists(k)'
               PROVE  IF inbox'[k] = <<>> THEN cache'[k] = cluster'[k]
                      ELSE /\ LastOf(inbox'[k]).type # "DELETED"
                           /\ LastOf(inbox'[k]).obj = cluster'[k]
    BY DEF LastEventIsCurrent
  <1>2. CASE k = m
    <2>1. inbox'[m] = Append(inbox[m], e) /\ inbox[m] \in Seq(Event)
      BY DEF Publish, TypeOK
    <2>2. inbox'[m] # <<>> /\ LastOf(inbox'[m]) = e
      BY <1>1, <2>1, LastOfAppend
    <2> QED
      BY <1>1, <1>2, <2>2
  <1>3. CASE k # m
    <2>1. inbox'[k] = inbox[k] /\ cluster'[k] = cluster[k] /\ Exists(k)
      BY <1>3 DEF Publish, TypeOK, Exists
    <2> QED
      BY <2>1 DEF LastEventIsCurrent
  <1> QED
    BY <1>2, <1>3

(* So does the delivery of the first event of a queue.                     *)
LEMMA DeliveredIsCached ==
    ASSUME TypeOK, LastEventIsCurrent, stage = "watch", NEW m \in Monitors,
           inbox[m] # <<>>, inbox' = [inbox EXCEPT ![m] = Tail(@)],
           cache' = [cache EXCEPT ![m] = IF Head(inbox[m]).type = "DELETED"
                                         THEN Absent ELSE Head(inbox[m]).obj],
           UNCHANGED cluster
    PROVE  LastEventIsCurrent'
  <1> SUFFICES ASSUME NEW k \in Monitors, Exists(k)'
               PROVE  IF inbox'[k] = <<>> THEN cache'[k] = cluster'[k]
                      ELSE /\ LastOf(inbox'[k]).type # "DELETED"
                           /\ LastOf(inbox'[k]).obj = cluster'[k]
    BY DEF LastEventIsCurrent
  <1>1. Exists(k) /\ cluster'[k] = cluster[k]
    BY DEF Exists
  <1>2. CASE k = m
    <2>1. /\ LastOf(inbox[m]).type # "DELETED" /\ LastOf(inbox[m]).obj = cluster[m]
          /\ inbox[m] \in Seq(Event) /\ inbox'[m] = Tail(inbox[m])
      BY <1>1, <1>2 DEF LastEventIsCurrent, TypeOK
    <2>2. CASE Tail(inbox[m]) = <<>>
      <3>1. LastOf(inbox[m]) = Head(inbox[m])
        BY <2>1, <2>2, LastOfTail
      <3>2. cache'[m] = Head(inbox[m]).obj
        BY <2>1, <3>1 DEF TypeOK
      <3> QED
        BY <1>1, <1>2, <2>1, <2>2, <3>1, <3>2
    <2>3. CASE Tail(inbox[m]) # <<>>
      <3>1. LastOf(inbox'[m]) = LastOf(inbox[m])
        BY <2>1, <2>3, LastOfTail
      <3> QED
        BY <1>1, <1>2, <2>1, <2>3, <3>1
    <2> QED
      BY <2>2, <2>3
  <1>3. CASE k # m
    <2>1. inbox'[k] = inbox[k] /\ cache'[k] = cache[k]
      BY <1>3 DEF TypeOK
    <2> QED
      BY <1>1, <2>1 DEF LastEventIsCurrent
  <1> QED
    BY <1>2, <1>3

LEMMA CacheStep == TypeOK /\ LastEventIsCurrent /\ [Next]_vars => LastEventIsCurrent'
  <1> SUFFICES ASSUME TypeOK, LastEventIsCurrent, [Next]_vars
               PROVE  LastEventIsCurrent'
    OBVIOUS
  <1> USE StoredObjects
  <1>1. ASSUME NEW m \in Monitors, NEW s \in Specs, CreateMonitor(m, s)
        PROVE  LastEventIsCurrent'
    <2> DEFINE o == [uid |-> born[m] + 1, spec |-> s]
    <2>1. o \in Object
      BY DEF TypeOK, Object
    <2>2. cluster'[m] = o /\ \A k \in Monitors \ {m} : cluster'[k] = cluster[k]
      BY <1>1 DEF TypeOK, CreateMonitor, Store
    <2> HIDE DEF o
    <2>3. Publish(m, "ADDED", o) /\ UNCHANGED <<cache, stage>>
      BY <1>1, <2>2 DEF CreateMonitor
    <2> QED
      BY <2>1, <2>2, <2>3, PublishedIsLast
  <1>2. ASSUME NEW m \in Monitors, NEW s \in Specs, EditMonitor(m, s)
        PROVE  LastEventIsCurrent'
    <2> DEFINE o == [cluster[m] EXCEPT !.spec = s]
    <2>1. o \in Object
      BY <1>2 DEF TypeOK, EditMonitor, Exists
    <2>2. cluster'[m] = o /\ \A k \in Monitors \ {m} : cluster'[k] = cluster[k]
      BY <1>2 DEF TypeOK, EditMonitor, Store
    <2> HIDE DEF o
    <2>3. Publish(m, "MODIFIED", o) /\ UNCHANGED <<cache, stage>>
      BY <1>2, <2>2 DEF EditMonitor
    <2> QED
      BY <2>1, <2>2, <2>3, PublishedIsLast
  <1>3. ASSUME NEW m \in Monitors, PatchStatus(m)
        PROVE  LastEventIsCurrent'
    <2>1. cluster[m] \in Object
      BY <1>3 DEF TypeOK, PatchStatus, Exists
    <2> QED
      BY <1>3, <2>1, PublishedIsLast DEF PatchStatus
  <1>4. ASSUME NEW m \in Monitors, DeleteMonitor(m)
        PROVE  LastEventIsCurrent'
    <2>1. ASSUME NEW k \in Monitors, Exists(k)'
          PROVE  inbox'[k] = inbox[k] /\ cluster'[k] = cluster[k] /\ Exists(k)
      BY <1>4, <2>1 DEF DeleteMonitor, Exists, Publish, TypeOK
    <2> QED
      BY <1>4, <2>1 DEF DeleteMonitor, LastEventIsCurrent
  <1>5. ASSUME NEW m \in Monitors, DeliverUpsert(m)
        PROVE  LastEventIsCurrent'
    <2>1. Head(inbox[m]).type # "DELETED"
      BY <1>5 DEF DeliverUpsert
    <2> QED
      BY <1>5, <2>1, DeliveredIsCached DEF DeliverUpsert, apiVars
  <1>6. ASSUME NEW m \in Monitors, DeliverDeleted(m)
        PROVE  LastEventIsCurrent'
    BY <1>6, DeliveredIsCached DEF DeliverDeleted, apiVars
  <1>7. CASE OpenWatch
    <2> SUFFICES ASSUME NEW k \in Monitors, Exists(k)'
                 PROVE  /\ inbox'[k] # <<>>
                        /\ LastOf(inbox'[k]).type # "DELETED"
                        /\ LastOf(inbox'[k]).obj = cluster'[k]
      BY DEF LastEventIsCurrent
    <2>1. /\ Exists(k) /\ cluster'[k] = cluster[k]
          /\ inbox'[k] = <<[type |-> "ADDED", obj |-> cluster[k]]>>
      BY <1>7 DEF OpenWatch, apiVars, Replay, Exists
    <2> QED
      BY <2>1 DEF LastOf
  <1>8. ASSUME stage' # "watch"
        PROVE  LastEventIsCurrent'
    BY <1>8 DEF LastEventIsCurrent
  <1>9. ASSUME UNCHANGED <<cluster, inbox, cache, stage>>
        PROVE  LastEventIsCurrent'
    BY <1>9 DEF LastEventIsCurrent, Exists
  <1>10. ASSUME NEW m \in Monitors, HandleListed(m)
         PROVE  stage' # "watch"
    BY <1>10 DEF HandleListed
  <1>11. StartController \/ CloseWatch \/ Restart => stage' # "watch"
    BY DEF StartController, CloseWatch, Restart
  <1>12. ASSUME \/ \E m \in Monitors : CancelReturns(m)
                \/ \E t \in timers : FireTimer(t)
                \/ \E j \in jobs : CollectOrphan(j)
                \/ UNCHANGED vars
         PROVE  UNCHANGED <<cluster, inbox, cache, stage>>
    BY <1>12 DEF CancelReturns, FireTimer, CollectOrphan, informerVars, apiVars, vars
  <1> QED
    BY <1>1, <1>2, <1>3, <1>4, <1>5, <1>6, <1>7, <1>8, <1>9, <1>10, <1>11, <1>12
       DEF Next, MonitorNext

(* A monitor whose events have all been delivered is in the cache as the   *)
(* API server stores it, whatever happened between the list and the watch. *)
THEOREM CacheIsCaughtUp == Spec => []CacheCatchesUp
  <1>1. Init => LastEventIsCurrent
    BY DEF Init, LastEventIsCurrent
  <1>2. LastEventIsCurrent => CacheCatchesUp
    BY DEF LastEventIsCurrent, CacheCatchesUp
  <1> QED
    BY <1>1, <1>2, CacheStep, TypeCorrect, PTL DEF Spec

-----------------------------------------------------------------------------
(* Only what was once valid and enabled is checked.                        *)

(* A change that records what it stores and publishes keeps EnabledKnown.  *)
LEMMA PublishedIsKnown ==
    ASSUME TypeOK, EnabledKnown, NEW m \in Monitors, NEW o \in Object,
           NEW type \in {"ADDED", "MODIFIED", "DELETED"}, Publish(m, type, o),
           o.spec = "enabled" => <<m, o.uid>> \in everEnabled',
           everEnabled \subseteq everEnabled',
           cluster'[m] \in {o, Absent}, \A k \in Monitors \ {m} : cluster'[k] = cluster[k],
           UNCHANGED listed
    PROVE  EnabledKnown'
  <1> DEFINE e == [type |-> type, obj |-> o]
  <1>1. e \in Event /\ e.obj = o
    BY DEF Event
  <1>2. \A k \in Monitors : Stored(k, cluster[k])' /\ Stored(k, listed[k])'
    BY DEF EnabledKnown, Stored
  <1>3. ASSUME NEW k \in Monitors, NEW i \in 1..Len(inbox'[k])
        PROVE  Stored(k, inbox[k][i].obj)'
    <2>1. CASE inbox'[k] = inbox[k]
      BY <1>3, <2>1 DEF EnabledKnown, Stored
    <2>2. CASE k = m /\ inbox'[k] = Append(inbox[k], e)
      <3>1. /\ Len(inbox'[k]) = Len(inbox[k]) + 1 /\ Len(inbox[k]) \in Nat
            /\ \A n \in 1..Len(inbox[k]) : inbox'[k][n] = inbox[k][n]
            /\ inbox'[k][Len(inbox[k]) + 1] = e
        <4>1. inbox[k] \in Seq(Event)
          BY DEF TypeOK
        <4> QED
          BY <1>1, <2>2, <4>1, AppendProperties, LenProperties
      <3>2. CASE i \in 1..Len(inbox[k])
        BY <3>1, <3>2 DEF EnabledKnown, Stored
      <3>3. CASE i = Len(inbox[k]) + 1
        BY <1>1, <2>2, <3>1, <3>3 DEF Stored
      <3> QED
        BY <3>1, <3>2, <3>3
    <2> QED
      BY <2>1, <2>2 DEF Publish, TypeOK
  <1> QED
    BY <1>2, <1>3 DEF EnabledKnown

LEMMA KnownStep == TypeOK /\ EnabledKnown /\ [Next]_vars => EnabledKnown'
  <1> SUFFICES ASSUME TypeOK, EnabledKnown, [Next]_vars
               PROVE  EnabledKnown'
    OBVIOUS
  <1> USE StoredObjects
  <1>1. ASSUME NEW m \in Monitors, NEW s \in Specs, CreateMonitor(m, s)
        PROVE  EnabledKnown'
    <2> DEFINE o == [uid |-> born[m] + 1, spec |-> s]
    <2>1. o \in Object
      BY DEF TypeOK, Object
    <2>2. cluster'[m] = o /\ \A k \in Monitors \ {m} : cluster'[k] = cluster[k]
      BY <1>1 DEF TypeOK, CreateMonitor, Store
    <2>3. /\ o.spec = "enabled" => <<m, o.uid>> \in everEnabled'
          /\ everEnabled \subseteq everEnabled'
      BY <1>1 DEF CreateMonitor, Store
    <2> HIDE DEF o
    <2>4. Publish(m, "ADDED", o) /\ UNCHANGED listed
      BY <1>1, <2>2 DEF CreateMonitor
    <2> QED
      BY <2>1, <2>2, <2>3, <2>4, PublishedIsKnown
  <1>2. ASSUME NEW m \in Monitors, NEW s \in Specs, EditMonitor(m, s)
        PROVE  EnabledKnown'
    <2> DEFINE o == [cluster[m] EXCEPT !.spec = s]
    <2>1. o \in Object
      BY <1>2 DEF TypeOK, EditMonitor, Exists
    <2>2. cluster'[m] = o /\ \A k \in Monitors \ {m} : cluster'[k] = cluster[k]
      BY <1>2 DEF TypeOK, EditMonitor, Store
    <2>3. /\ o.spec = "enabled" => <<m, o.uid>> \in everEnabled'
          /\ everEnabled \subseteq everEnabled'
      BY <1>2 DEF EditMonitor, Store
    <2> HIDE DEF o
    <2>4. Publish(m, "MODIFIED", o) /\ UNCHANGED listed
      BY <1>2, <2>2 DEF EditMonitor
    <2> QED
      BY <2>1, <2>2, <2>3, <2>4, PublishedIsKnown
  <1>3. ASSUME NEW m \in Monitors, PatchStatus(m) \/ DeleteMonitor(m)
        PROVE  EnabledKnown'
    <2>1. cluster[m] \in Object
      BY <1>3 DEF TypeOK, PatchStatus, DeleteMonitor, Exists
    <2>2. cluster'[m] \in {cluster[m], Absent}
      BY <1>3 DEF PatchStatus, DeleteMonitor, TypeOK
    <2>3. \A k \in Monitors \ {m} : cluster'[k] = cluster[k]
      BY <1>3 DEF PatchStatus, DeleteMonitor, TypeOK
    <2>4. cluster[m].spec = "enabled" => <<m, cluster[m].uid>> \in everEnabled
      BY <2>1 DEF EnabledKnown, Stored
    <2>5. UNCHANGED <<everEnabled, listed>>
      BY <1>3 DEF PatchStatus, DeleteMonitor
    <2>6. \E type \in {"MODIFIED", "DELETED"} : Publish(m, type, cluster[m])
      BY <1>3 DEF PatchStatus, DeleteMonitor
    <2> QED
      BY <2>1, <2>2, <2>3, <2>4, <2>5, <2>6, PublishedIsKnown
  <1>4. ASSUME NEW m \in Monitors, HandleListed(m)
        PROVE  EnabledKnown'
    <2>1. /\ UNCHANGED <<cluster, everEnabled, inbox>>
          /\ listed' = [listed EXCEPT ![m] = Absent]
      BY <1>4 DEF HandleListed, apiVars
    <2> QED
      BY <2>1 DEF EnabledKnown, Stored, TypeOK
  <1>5. ASSUME NEW m \in Monitors, DeliverUpsert(m) \/ DeliverDeleted(m)
        PROVE  EnabledKnown'
    <2>1. /\ UNCHANGED <<cluster, everEnabled, listed>>
          /\ inbox' = [inbox EXCEPT ![m] = Tail(@)] /\ inbox[m] # <<>>
          /\ inbox[m] \in Seq(Event)
      BY <1>5 DEF DeliverUpsert, DeliverDeleted, apiVars, TypeOK
    <2>2. ASSUME NEW k \in Monitors, NEW i \in 1..Len(inbox'[k])
          PROVE  \E n \in 1..Len(inbox[k]) : inbox'[k][i] = inbox[k][n]
      <3>1. CASE k # m
        BY <2>1, <3>1 DEF TypeOK
      <3>2. CASE k = m
        <4>1. /\ Len(Tail(inbox[m])) = Len(inbox[m]) - 1 /\ Len(inbox[m]) \in Nat
              /\ \A n \in 1..Len(Tail(inbox[m])) : Tail(inbox[m])[n] = inbox[m][n + 1]
          BY <2>1, HeadTailProperties, LenProperties
        <4>2. inbox'[k] = Tail(inbox[m])
          BY <2>1, <3>2 DEF TypeOK
        <4>3. i + 1 \in 1..Len(inbox[m]) /\ inbox'[k][i] = inbox[m][i + 1]
          BY <4>1, <4>2
        <4> QED
          BY <3>2, <4>3
      <3> QED
        BY <3>1, <3>2
    <2> QED
      BY <2>1, <2>2 DEF EnabledKnown, Stored
  <1>6. CASE StartController
    BY <1>6 DEF StartController, Nothing, EnabledKnown, Stored, apiVars
  <1>7. CASE OpenWatch
    <2>1. ASSUME NEW k \in Monitors, NEW i \in 1..Len(inbox'[k])
          PROVE  Stored(k, inbox[k][i].obj)'
      <3>1. Exists(k)
        BY <1>7, <2>1 DEF OpenWatch, Replay
      <3>2. inbox'[k] = <<[type |-> "ADDED", obj |-> cluster[k]]>> /\ i = 1
        BY <1>7, <2>1, <3>1 DEF OpenWatch, Replay
      <3>3. inbox'[k][i].obj = cluster[k] /\ UNCHANGED everEnabled
        BY <1>7, <3>2 DEF OpenWatch, apiVars
      <3> QED
        BY <3>3 DEF EnabledKnown, Stored
    <2> QED
      BY <1>7, <2>1 DEF OpenWatch, EnabledKnown, Stored, apiVars
  <1>8. CASE CloseWatch \/ Restart
    <2>1. /\ UNCHANGED <<cluster, everEnabled>>
          /\ \A k \in Monitors : listed'[k] \in {listed[k], Absent}
      BY <1>8 DEF CloseWatch, Restart, Nothing, apiVars
    <2>2. \A k \in Monitors : inbox'[k] = <<>> /\ 1..Len(inbox'[k]) = {}
      BY <1>8 DEF CloseWatch, Restart, NoEvents
    <2> QED
      BY <2>1, <2>2 DEF EnabledKnown, Stored
  <1>9. ASSUME UNCHANGED <<cluster, listed, inbox, everEnabled>>
        PROVE  EnabledKnown'
    BY <1>9 DEF EnabledKnown, Stored
  <1>10. ASSUME \/ \E m \in Monitors : CancelReturns(m)
                \/ \E t \in timers : FireTimer(t)
                \/ \E j \in jobs : CollectOrphan(j)
                \/ UNCHANGED vars
         PROVE  UNCHANGED <<cluster, listed, inbox, everEnabled>>
    BY <1>10 DEF CancelReturns, FireTimer, CollectOrphan, informerVars, apiVars, vars
  <1> QED
    BY <1>1, <1>2, <1>3, <1>4, <1>5, <1>6, <1>7, <1>8, <1>9, <1>10
       DEF Next, MonitorNext

(* Whatever is delayed, replayed, deleted or created again, a monitor that *)
(* never was valid and enabled has neither a timer nor a Job.              *)
THEOREM CheckedWasEnabled == Spec => []OnlyEnabledChecked
  <1>1. Init => EnabledKnown /\ OnlyEnabledChecked
    BY DEF Init, EnabledKnown, Stored, OnlyEnabledChecked, Nothing, NoEvents
  <1>2. TypeOK /\ EnabledKnown /\ OnlyEnabledChecked /\ [Next]_vars => OnlyEnabledChecked'
    <2> SUFFICES ASSUME TypeOK, EnabledKnown, OnlyEnabledChecked, [Next]_vars
                 PROVE  OnlyEnabledChecked'
      OBVIOUS
    <2>1. everEnabled \subseteq everEnabled'
      BY DEF Next, MonitorNext, CreateMonitor, EditMonitor, Store, PatchStatus,
             DeleteMonitor, HandleListed, DeliverUpsert, DeliverDeleted, CancelReturns,
             FireTimer, CollectOrphan, StartController, OpenWatch, CloseWatch, Restart,
             vars, apiVars
    <2>2. CASE UNCHANGED <<scheduled, timers, claims, releases, jobs, restarts>>
      BY <2>1, <2>2 DEF OnlyEnabledChecked
    <2>3. ASSUME NEW m \in Monitors, NEW o \in Awaiting(m),
                 Handle(m, o), UNCHANGED <<jobs, restarts>>
          PROVE  OnlyEnabledChecked'
      <3>1. Stored(m, o) /\ o # Absent
        <4>1. CASE o = listed[m]
          BY <4>1, StoredObjects DEF EnabledKnown, Awaiting
        <4>2. CASE inbox[m] # <<>> /\ o = Head(inbox[m]).obj
          <5>1. 1 \in 1..Len(inbox[m]) /\ Head(inbox[m]) = inbox[m][1]
            BY <4>2, EmptySeq DEF TypeOK
          <5> QED
            BY <4>2, <5>1, StoredObjects DEF EnabledKnown, Awaiting
        <4> QED
          BY <4>1, <4>2 DEF Awaiting
      <3>2. CASE UNCHANGED timers
        BY <2>1, <2>3, <3>2 DEF OnlyEnabledChecked
      <3>3. CASE o.spec = "enabled" /\ Claim(m, o)
        BY <2>1, <2>3, <3>1, <3>3 DEF OnlyEnabledChecked, Claim, Stored
      <3> QED
        BY <2>3, <3>2, <3>3 DEF Handle, ReconcileEnabled, ReconcileDisabled, RejectInvalid
    <2>4. ASSUME NEW m \in Monitors, CancelReturns(m)
          PROVE  OnlyEnabledChecked'
      BY <2>1, <2>4 DEF OnlyEnabledChecked, CancelReturns
    <2>5. ASSUME NEW t \in timers, FireTimer(t)
          PROVE  OnlyEnabledChecked'
      BY <2>1, <2>5 DEF OnlyEnabledChecked, FireTimer
    <2>6. ASSUME NEW j \in jobs, CollectOrphan(j)
          PROVE  OnlyEnabledChecked'
      BY <2>1, <2>6 DEF OnlyEnabledChecked, CollectOrphan, reconcilerVars
    <2>7. CASE Restart
      BY <2>1, <2>7 DEF OnlyEnabledChecked, Restart, apiVars
    <2> QED
      BY <2>2, <2>3, <2>4, <2>5, <2>6, <2>7, ReconcilerSteps
  <1> QED
    BY <1>1, <1>2, KnownStep, TypeCorrect, PTL DEF Spec

-----------------------------------------------------------------------------
(* No change is missed: what is caught up and not released is scheduled.   *)

LEMMA CaughtUpStep ==
    TypeOK /\ LastEventIsCurrent /\ CaughtUpIsScheduled /\ [Next]_vars
      => CaughtUpIsScheduled'
  <1> SUFFICES ASSUME TypeOK, LastEventIsCurrent, CaughtUpIsScheduled, [Next]_vars,
                      stage' = "watch", NEW k \in Monitors,
                      Enabled(k)', inbox'[k] = <<>>, releases'[k] = 0
               PROVE  k \in scheduled'
    BY DEF CaughtUpIsScheduled
  <1>1. ASSUME Enabled(k), inbox[k] = <<>>, stage = "watch", releases[k] = 0,
               scheduled \subseteq scheduled'
        PROVE  k \in scheduled'
    BY <1>1 DEF CaughtUpIsScheduled
  <1>2. ASSUME NEW m \in Monitors, NEW type, NEW o \in Object,
               type \in {"ADDED", "MODIFIED", "DELETED"}, Publish(m, type, o),
               stage = "watch"
        PROVE  k # m /\ inbox'[k] = inbox[k]
    <2>1. [type |-> type, obj |-> o] \in Event /\ inbox[m] \in Seq(Event)
      BY <1>2 DEF Event, TypeOK
    <2>2. inbox' = [inbox EXCEPT ![m] = Append(inbox[m], [type |-> type, obj |-> o])]
      BY <1>2 DEF Publish
    <2>3. Append(inbox[m], [type |-> type, obj |-> o]) # <<>>
      BY <2>1, LastOfAppend
    <2>4. inbox'[m] # <<>>
      BY <2>2, <2>3 DEF TypeOK
    <2> QED
      BY <2>2, <2>4 DEF TypeOK
  <1>3. ASSUME NEW m \in Monitors, NEW s \in Specs, CreateMonitor(m, s) \/ EditMonitor(m, s)
        PROVE  k \in scheduled'
    <2>1. stage = "watch" /\ UNCHANGED <<scheduled, releases>>
      BY <1>3 DEF CreateMonitor, EditMonitor, reconcilerVars
    <2>2. cluster'[m] \in Object
      <3>1. CASE CreateMonitor(m, s)
        BY <3>1 DEF TypeOK, CreateMonitor, Store, Object
      <3>2. CASE EditMonitor(m, s)
        BY <3>2, StoredObjects DEF TypeOK, EditMonitor, Exists, Store
      <3> QED
        BY <1>3, <3>1, <3>2
    <2>3. k # m /\ inbox'[k] = inbox[k]
      BY <1>2, <1>3, <2>1, <2>2 DEF CreateMonitor, EditMonitor
    <2>4. cluster'[k] = cluster[k]
      BY <1>3, <2>3 DEF CreateMonitor, EditMonitor, Store, TypeOK
    <2> QED
      BY <1>1, <2>1, <2>3, <2>4 DEF Enabled, Exists
  <1>4. ASSUME NEW m \in Monitors, PatchStatus(m) \/ DeleteMonitor(m)
        PROVE  k \in scheduled'
    <2>1. stage = "watch" /\ UNCHANGED <<scheduled, releases>> /\ cluster[m] \in Object
      BY <1>4 DEF PatchStatus, DeleteMonitor, reconcilerVars, TypeOK, Exists
    <2>2. k # m /\ inbox'[k] = inbox[k]
      BY <1>2, <1>4, <2>1 DEF PatchStatus, DeleteMonitor
    <2>3. cluster'[k] = cluster[k]
      BY <1>4, <2>2 DEF PatchStatus, DeleteMonitor, TypeOK
    <2> QED
      BY <1>1, <2>1, <2>2, <2>3 DEF Enabled, Exists
  <1>5. ASSUME NEW m \in Monitors, DeliverUpsert(m) \/ DeliverDeleted(m)
        PROVE  k \in scheduled'
    <2>1. /\ stage = "watch" /\ UNCHANGED cluster /\ inbox[m] # <<>>
          /\ inbox' = [inbox EXCEPT ![m] = Tail(@)] /\ inbox[m] \in Seq(Event)
      BY <1>5 DEF DeliverUpsert, DeliverDeleted, apiVars, TypeOK
    <2>2. scheduled \subseteq scheduled' /\ UNCHANGED releases
      BY <1>5 DEF DeliverUpsert, DeliverDeleted, reconcilerVars, Handle,
                  ReconcileEnabled, ReconcileDisabled, RejectInvalid, Claim
    <2>3. CASE k # m
      BY <1>1, <2>1, <2>2, <2>3 DEF TypeOK, Enabled, Exists
    <2>4. CASE k = m
      <3>1. Tail(inbox[m]) = <<>>
        BY <2>1, <2>4 DEF TypeOK
      <3>2. LastOf(inbox[m]) = Head(inbox[m])
        BY <2>1, <3>1, LastOfTail
      <3>3. Head(inbox[m]).type # "DELETED" /\ Head(inbox[m]).obj = cluster[m]
        BY <2>1, <2>4, <3>2 DEF LastEventIsCurrent, Enabled, Exists
      <3>4. Handle(m, cluster[m]) /\ cluster[m].spec = "enabled"
        BY <1>5, <2>1, <2>4, <3>3 DEF DeliverUpsert, DeliverDeleted, Enabled
      <3> QED
        BY <2>4, <3>4 DEF Handle, ReconcileEnabled, ReconcileDisabled, RejectInvalid, Claim
    <2> QED
      BY <2>3, <2>4
  <1>6. ASSUME NEW m \in Monitors, CancelReturns(m)
        PROVE  k \in scheduled'
    <2>1. releases[k] = 0 /\ (k = m => k \notin scheduled \/ k \in scheduled')
      BY <1>6 DEF CancelReturns, TypeOK
    <2>2. /\ Enabled(k) /\ inbox[k] = <<>> /\ stage = "watch"
          /\ scheduled \ {m} \subseteq scheduled'
      BY <1>6 DEF CancelReturns, informerVars, Enabled, Exists
    <2>3. k \in scheduled
      BY <2>1, <2>2 DEF CaughtUpIsScheduled
    <2> QED
      BY <2>1, <2>2, <2>3
  <1>7. ASSUME \/ \E t \in timers : FireTimer(t)
               \/ \E j \in jobs : CollectOrphan(j)
               \/ UNCHANGED vars
        PROVE  k \in scheduled'
    BY <1>1, <1>7 DEF FireTimer, CollectOrphan, informerVars, reconcilerVars, apiVars,
                      vars, Enabled, Exists
  <1>8. ~OpenWatch
    BY DEF OpenWatch, Replay, Enabled, Exists, apiVars
  <1>9. ~StartController /\ ~CloseWatch /\ ~Restart /\ \A m \in Monitors : ~HandleListed(m)
    BY DEF StartController, CloseWatch, Restart, HandleListed
  <1> QED
    BY <1>3, <1>4, <1>5, <1>6, <1>7, <1>8, <1>9 DEF Next, MonitorNext

(* An enabled monitor whose events have all been delivered is scheduled,   *)
(* unless a cancelJob has released its name: no change is missed or        *)
(* skipped, whatever happens between list, replay, edits and restarts.     *)
THEOREM CaughtUpMonitorsAreScheduled == Spec => []CaughtUpIsScheduled
  <1>1. Init => LastEventIsCurrent /\ CaughtUpIsScheduled
    BY DEF Init, LastEventIsCurrent, CaughtUpIsScheduled
  <1> QED
    BY <1>1, CaughtUpStep, CacheStep, TypeCorrect, PTL DEF Spec

-----------------------------------------------------------------------------
(* The controller never goes back to an earlier object of a name.          *)

(* What it has of a name is of no later object than the one of uid u.      *)
Seen(m, u) ==
    /\ cache[m] # Absent => cache[m].uid <= u
    /\ \A c \in Checks(m) : c.uid <= u

(* A queue is about objects in the order of their creation, up to the n-th. *)
Rising(queue, n) ==
    \A i \in DOMAIN queue :
        /\ queue[i].obj.uid <= n
        /\ \A k \in 1..i : queue[k].obj.uid <= queue[i].obj.uid

(* So it is with what is still to be handled of a name.                    *)
Onward(m) ==
    /\ stage = "down" => cache[m] = Absent /\ Checks(m) = {}
    /\ Exists(m) => cluster[m].uid = born[m]
    /\ Seen(m, born[m])
    /\ listed[m] # Absent => listed[m].uid <= born[m] /\ Seen(m, listed[m].uid)
    /\ Rising(inbox[m], born[m])
    /\ \A i \in DOMAIN inbox[m] : Seen(m, inbox[m][i].obj.uid)

(* What is still to be handled, from the list or the watch, is of no       *)
(* earlier object than what was handled; nothing is handled of a name      *)
(* before what was listed of it.                                           *)
Forward ==
    /\ \A j \in jobs : j.life <= restarts
    /\ stage # "watch" => inbox = NoEvents
    /\ stage # "list" => listed = Nothing
    /\ \A m \in Monitors : Onward(m)

(* An event of an object at least as late may follow.                      *)
LEMMA RisingAppend ==
    ASSUME NEW queue \in Seq(Event), NEW n \in Nat, NEW e \in Event, Rising(queue, n),
           n <= e.obj.uid
    PROVE  Rising(Append(queue, e), e.obj.uid)
  <1> DEFINE longer == Append(queue, e)
             l == Len(queue)
  <1>1. /\ l \in Nat /\ DOMAIN queue = 1..l /\ DOMAIN longer = 1..(l + 1)
        /\ \A i \in 1..l : longer[i] = queue[i]
        /\ longer[l + 1] = e
    BY AppendProperties, LenProperties
  <1>2. \A i \in 1..l : queue[i].obj.uid \in Nat
    <2>1. \A i \in 1..l : queue[i] \in Event
      BY ElementOfSeq
    <2> QED
      BY <2>1 DEF Event, Object
  <1>3. e.obj.uid \in Nat
    BY DEF Event, Object
  <1> HIDE DEF longer, l
  <1>4. \A i \in 1..(l + 1) : longer[i].obj.uid <= e.obj.uid
    <2> SUFFICES ASSUME NEW i \in 1..(l + 1)
                 PROVE  longer[i].obj.uid <= e.obj.uid
      OBVIOUS
    <2>1. CASE i = l + 1
      BY <1>1, <1>3, <2>1
    <2>2. CASE i \in 1..l
      <3>1. queue[i].obj.uid <= n /\ queue[i].obj.uid \in Nat
        BY <1>1, <1>2, <2>2 DEF Rising
      <3> QED
        BY <1>1, <1>3, <2>2, <3>1
    <2> QED
      BY <1>1, <2>1, <2>2
  <1>5. \A i \in 1..(l + 1) : \A k \in 1..i : longer[k].obj.uid <= longer[i].obj.uid
    <2> SUFFICES ASSUME NEW i \in 1..(l + 1), NEW k \in 1..i
                 PROVE  longer[k].obj.uid <= longer[i].obj.uid
      OBVIOUS
    <2>1. CASE i = l + 1
      BY <1>1, <1>4, <2>1
    <2>2. CASE i # l + 1
      <3>1. i \in 1..l /\ k \in 1..l
        BY <1>1, <2>2
      <3> QED
        BY <1>1, <3>1 DEF Rising
    <2> QED
      BY <2>1, <2>2
  <1>6. Rising(longer, e.obj.uid)
    BY <1>1, <1>4, <1>5 DEF Rising
  <1> QED
    BY <1>6 DEF longer

(* The first event may be taken.                                           *)
LEMMA RisingTail ==
    ASSUME NEW queue \in Seq(Event), queue # <<>>, NEW n, Rising(queue, n)
    PROVE  /\ Rising(Tail(queue), n)
           /\ 1 \in DOMAIN queue /\ Head(queue) = queue[1]
           /\ \A i \in DOMAIN Tail(queue) :
                /\ i + 1 \in DOMAIN queue /\ Tail(queue)[i] = queue[i + 1]
                /\ Head(queue).obj.uid <= Tail(queue)[i].obj.uid
  <1> DEFINE rest == Tail(queue)
             l == Len(queue)
  <1>1. /\ l \in Nat \ {0} /\ DOMAIN queue = 1..l /\ DOMAIN rest = 1..(l - 1)
        /\ \A i \in 1..(l - 1) : rest[i] = queue[i + 1]
        /\ Head(queue) = queue[1]
    BY EmptySeq, HeadTailProperties, LenProperties
  <1> HIDE DEF rest, l
  <1>2. \A i \in 1..(l - 1) : i + 1 \in 1..l /\ 1 \in 1..(i + 1)
    BY <1>1
  <1>3. \A i \in 1..(l - 1) : \A k \in 1..i : k \in 1..(l - 1) /\ k + 1 \in 1..(i + 1)
    BY <1>1
  <1>4. Rising(rest, n)
    <2> SUFFICES ASSUME NEW i \in 1..(l - 1)
                 PROVE  /\ rest[i].obj.uid <= n
                        /\ \A k \in 1..i : rest[k].obj.uid <= rest[i].obj.uid
      BY <1>1 DEF Rising
    <2>1. rest[i] = queue[i + 1] /\ i + 1 \in 1..l
      BY <1>1, <1>2
    <2>2. \A k \in 1..i : rest[k] = queue[k + 1] /\ k + 1 \in 1..(i + 1)
      BY <1>1, <1>3
    <2> QED
      BY <1>1, <2>1, <2>2 DEF Rising
  <1>5. \A i \in DOMAIN rest : /\ i + 1 \in DOMAIN queue /\ rest[i] = queue[i + 1]
                               /\ Head(queue).obj.uid <= rest[i].obj.uid
    BY <1>1, <1>2 DEF Rising
  <1> QED
    BY <1>1, <1>4, <1>5 DEF rest

(* What is taken away, or goes on as another, was seen as well.            *)
LEMMA SeenKept ==
    ASSUME NEW m, cache'[m] \in {cache[m], Absent},
           \A c \in Checks(m)' : \E d \in Checks(m) : d.uid = c.uid
    PROVE  \A u : Seen(m, u) => Seen(m, u)'
  BY DEF Seen

(* A handler arms a timer with the object it was given, or none.           *)
LEMMA HandleArms ==
    ASSUME NEW m, NEW o, Handle(m, o)
    PROVE  timers \subseteq timers' /\ \A t \in timers' \ timers : t.mon = m /\ t.uid = o.uid
  <1>1. CASE ReconcileEnabled(m, o)
    BY <1>1 DEF ReconcileEnabled, Claim
  <1>2. CASE ReconcileDisabled(m, o)
    BY <1>2 DEF ReconcileDisabled
  <1>3. CASE RejectInvalid(o)
    BY <1>3 DEF RejectInvalid
  <1> QED
    BY <1>1, <1>2, <1>3 DEF Handle

(* When it is done, the object is what has been seen of the name.          *)
LEMMA SeenHandled ==
    ASSUME TypeOK, NEW m \in Monitors, NEW o \in Object, Handle(m, o),
           cache' = [cache EXCEPT ![m] = o], UNCHANGED <<jobs, restarts>>
    PROVE  /\ \A k \in Monitors \ {m} : \A u : Seen(k, u) => Seen(k, u)'
           /\ \A u : Seen(m, u) /\ o.uid <= u => Seen(m, u)'
  <1>1. \A k \in Monitors \ {m} : Checks(k)' = Checks(k) /\ cache'[k] = cache[k]
    BY HandleArms DEF Checks, TypeOK
  <1>2. \A c \in Checks(m)' : c \in Checks(m) \/ c.uid = o.uid
    BY HandleArms DEF Checks
  <1>3. cache'[m] = o
    BY DEF TypeOK
  <1> QED
    BY <1>1, <1>2, <1>3 DEF Seen

(* A change of a name publishes its latest object, if it publishes at all. *)
LEMMA ForwardPublished ==
    ASSUME TypeOK, Forward, NEW m \in Monitors, NEW o \in Object,
           NEW type \in {"ADDED", "MODIFIED", "DELETED"}, Publish(m, type, o),
           born' \in [Monitors -> Nat], o.uid = born'[m], born[m] <= born'[m],
           cluster'[m] # Absent => cluster'[m].uid = born'[m],
           \A k \in Monitors \ {m} : born'[k] = born[k] /\ cluster'[k] = cluster[k],
           UNCHANGED <<jobs, stage, listed, cache, timers, restarts>>
    PROVE  Forward'
  <1> DEFINE e == [type |-> type, obj |-> o]
  <1>0. e \in Event /\ e.obj = o /\ o.uid \in Nat /\ born[m] \in Nat
    BY DEF Event, Object, TypeOK
  <1> HIDE DEF e
  <1>1. \A k \in Monitors : Checks(k)' = Checks(k) /\ \A u : Seen(k, u)' <=> Seen(k, u)
    BY DEF Checks, Seen
  <1>2. \A u \in Nat, v \in Nat : u <= v /\ Seen(m, u) => Seen(m, v)
    <2>1. cache[m] # Absent => cache[m].uid \in Nat
      BY DEF TypeOK, Object
    <2>2. \A c \in Checks(m) : c.uid \in Nat
      BY DEF TypeOK, Checks, Timer, Job
    <2> QED
      BY <2>1, <2>2 DEF Seen
  <1>3. Seen(m, born[m]) /\ Rising(inbox[m], born[m])
    BY DEF Forward, Onward
  <1>4. Seen(m, born'[m])
    BY <1>0, <1>2, <1>3
  <1>5. listed[m] # Absent => listed[m].uid <= born'[m]
    <2>1. listed[m] # Absent => listed[m].uid \in Nat
      BY DEF TypeOK, Object
    <2> QED
      BY <1>0, <2>1 DEF Forward, Onward
  <1>6. inbox' = IF stage = "watch" THEN [inbox EXCEPT ![m] = Append(@, e)] ELSE inbox
    BY DEF Publish, e
  <1>7. inbox[m] \in Seq(Event)
    BY DEF TypeOK
  <1>8. Rising(inbox'[m], born'[m])
    <2>1. CASE stage = "watch"
      <3>1. inbox'[m] = Append(inbox[m], e)
        BY <1>6, <2>1 DEF TypeOK
      <3> QED
        BY <1>0, <1>3, <1>7, <3>1, RisingAppend
    <2>2. CASE stage # "watch"
      <3>1. inbox'[m] = <<>>
        BY <1>6, <2>2 DEF Forward, NoEvents
      <3> QED
        BY <3>1 DEF Rising
    <2> QED
      BY <2>1, <2>2
  <1>9. \A i \in DOMAIN inbox'[m] : Seen(m, inbox'[m][i].obj.uid)
    <2>1. CASE stage = "watch"
      <3>1. inbox'[m] = Append(inbox[m], e)
        BY <1>6, <2>1 DEF TypeOK
      <3>2. \A i \in DOMAIN inbox'[m] :
                (i \in DOMAIN inbox[m] /\ inbox'[m][i] = inbox[m][i]) \/ inbox'[m][i] = e
        <4>1. /\ Len(inbox[m]) \in Nat /\ DOMAIN inbox[m] = 1..Len(inbox[m])
              /\ DOMAIN inbox'[m] = 1..(Len(inbox[m]) + 1)
              /\ \A i \in 1..Len(inbox[m]) : inbox'[m][i] = inbox[m][i]
              /\ inbox'[m][Len(inbox[m]) + 1] = e
          BY <1>0, <1>7, <3>1, AppendProperties, LenProperties
        <4>2. \A l \in Nat : \A i \in 1..(l + 1) : i \in 1..l \/ i = l + 1
          OBVIOUS
        <4> QED
          BY <4>1, <4>2
      <3>3. \A i \in DOMAIN inbox[m] : Seen(m, inbox[m][i].obj.uid)
        BY DEF Forward, Onward
      <3> QED
        BY <1>0, <1>4, <3>2, <3>3
    <2>2. CASE stage # "watch"
      <3>1. inbox'[m] = <<>>
        BY <1>6, <2>2 DEF Forward, NoEvents
      <3> QED
        BY <3>1
    <2> QED
      BY <2>1, <2>2
  <1>10. \A k \in Monitors \ {m} : inbox'[k] = inbox[k]
    BY <1>6 DEF TypeOK
  <1>11. stage' # "watch" => inbox' = NoEvents
    BY <1>6 DEF Forward
  <1> QED
    BY <1>1, <1>4, <1>5, <1>8, <1>9, <1>10, <1>11 DEF Forward, Onward, Exists

(* Handling what is listed of a name, or the first event about it.         *)
LEMMA ForwardHandled ==
    ASSUME TypeOK, Forward, NEW m \in Monitors, NEW o \in Object, Handle(m, o),
           cache' = [cache EXCEPT ![m] = o], stage # "down", o.uid <= born[m],
           listed'[m] # Absent => listed' = listed /\ o.uid <= listed[m].uid,
           \A i \in DOMAIN inbox'[m] :
                Seen(m, inbox'[m][i].obj.uid) /\ o.uid <= inbox'[m][i].obj.uid,
           Rising(inbox'[m], born[m]),
           \A k \in Monitors \ {m} : listed'[k] = listed[k] /\ inbox'[k] = inbox[k],
           stage # "watch" => inbox' = NoEvents, stage # "list" => listed' = Nothing,
           UNCHANGED <<cluster, born, jobs, stage, restarts>>
    PROVE  Forward'
  <1>1. /\ \A k \in Monitors \ {m} : \A u : Seen(k, u) => Seen(k, u)'
        /\ \A u : Seen(m, u) /\ o.uid <= u => Seen(m, u)'
    BY SeenHandled
  <1>2. Onward(m)'
    <2>1. Exists(m)' => cluster'[m].uid = born'[m]
      BY DEF Forward, Onward, Exists
    <2>2. \A u : u = born[m] => Seen(m, u)'
      BY <1>1 DEF Forward, Onward
    <2>3. \A u : listed'[m] # Absent /\ u = listed'[m].uid => u <= born[m] /\ Seen(m, u)'
      BY <1>1 DEF Forward, Onward
    <2>4. \A i \in DOMAIN inbox'[m] : \A u : u = inbox'[m][i].obj.uid => Seen(m, u)'
      BY <1>1
    <2> QED
      BY <2>1, <2>2, <2>3, <2>4 DEF Onward
  <1>3. ASSUME NEW k \in Monitors \ {m}
        PROVE  Onward(k)'
    <2>1. Onward(k) /\ \A u : Seen(k, u) => Seen(k, u)'
      BY <1>1 DEF Forward
    <2> QED
      BY <2>1 DEF Onward, Exists
  <1> QED
    BY <1>2, <1>3 DEF Forward

(* What changes nothing else than to take checks away, or a timer into its *)
(* Job.                                                                    *)
LEMMA ForwardKept ==
    ASSUME TypeOK, Forward, UNCHANGED <<cluster, born, stage, listed, inbox, cache, restarts>>,
           \A j \in jobs' : j.life <= restarts,
           \A m \in Monitors : \A c \in Checks(m)' : \E d \in Checks(m) : d.uid = c.uid
    PROVE  Forward'
  <1>1. \A m \in Monitors : \A u : Seen(m, u) => Seen(m, u)'
    BY SeenKept
  <1> QED
    BY <1>1 DEF Forward, Onward, Exists

(* Forward is inductive: nothing is published, listed or handled at first, *)
(* and a step adds only what is at least as late.                          *)
LEMMA ForwardInit == Init => Forward
  BY DEF Init, Forward, Onward, Exists, Seen, Checks, Rising, Nothing, NoEvents

LEMMA ForwardStep == TypeOK /\ Forward /\ [Next]_vars => Forward'
  <1> SUFFICES ASSUME TypeOK, Forward, [Next]_vars
               PROVE  Forward'
    OBVIOUS
  <1>0. TypeOK'
    BY TypeStep
  <1>1. ASSUME NEW m \in Monitors, NEW s \in Specs, CreateMonitor(m, s)
        PROVE  Forward'
    <2>1. /\ cluster' = [cluster EXCEPT ![m] = [uid |-> born[m] + 1, spec |-> s]]
          /\ born' = [born EXCEPT ![m] = @ + 1]
          /\ Publish(m, "ADDED", cluster'[m])
      BY <1>1 DEF CreateMonitor, Store
    <2>2. /\ cluster'[m] = [uid |-> born[m] + 1, spec |-> s] /\ cluster'[m] \in Object
          /\ born'[m] = born[m] + 1 /\ born[m] \in Nat /\ born' \in [Monitors -> Nat]
      BY <2>1 DEF TypeOK, Object
    <2>3. \A k \in Monitors \ {m} : born'[k] = born[k] /\ cluster'[k] = cluster[k]
      BY <2>1 DEF TypeOK
    <2>4. UNCHANGED <<jobs, stage, listed, cache, timers, restarts>>
      BY <1>1 DEF CreateMonitor, reconcilerVars
    <2>5. cluster'[m].uid = born'[m] /\ born[m] <= born'[m]
      BY <2>2
    <2> QED
      BY <2>1, <2>2, <2>3, <2>4, <2>5, ForwardPublished
  <1>2. ASSUME NEW m \in Monitors, NEW s \in Specs, EditMonitor(m, s)
        PROVE  Forward'
    <2>1. /\ cluster' = [cluster EXCEPT ![m] = [cluster[m] EXCEPT !.spec = s]]
          /\ Publish(m, "MODIFIED", cluster'[m]) /\ Exists(m)
          /\ UNCHANGED <<born, jobs, stage, listed, cache, timers, restarts>>
      BY <1>2 DEF EditMonitor, Store, reconcilerVars
    <2>2. /\ cluster[m] \in Object /\ cluster'[m] = [cluster[m] EXCEPT !.spec = s]
          /\ born[m] \in Nat /\ cluster[m].uid = born[m]
      BY <2>1 DEF TypeOK, Exists, Forward, Onward
    <2>3. cluster'[m] \in Object /\ cluster'[m].uid = born'[m] /\ born' \in [Monitors -> Nat]
      BY <2>1, <2>2, StoredObjects DEF Object, TypeOK
    <2>4. \A k \in Monitors \ {m} : born'[k] = born[k] /\ cluster'[k] = cluster[k]
      BY <2>1 DEF TypeOK
    <2>5. born[m] <= born'[m]
      BY <2>1, <2>2
    <2> QED
      BY <2>1, <2>3, <2>4, <2>5, ForwardPublished
  <1>3. ASSUME NEW m \in Monitors, NEW type \in {"MODIFIED", "DELETED"}, Exists(m),
               Publish(m, type, cluster[m]), cluster'[m] \in {cluster[m], Absent},
               \A k \in Monitors \ {m} : cluster'[k] = cluster[k],
               UNCHANGED <<born, jobs, stage, listed, cache, timers, restarts>>
        PROVE  Forward'
    <2>1. /\ cluster[m] \in Object /\ cluster[m].uid = born'[m] /\ born' \in [Monitors -> Nat]
          /\ born[m] <= born'[m]
      BY <1>3 DEF TypeOK, Exists, Forward, Onward
    <2> QED
      BY <1>3, <2>1, ForwardPublished
  <1>4. ASSUME NEW m \in Monitors, PatchStatus(m) \/ DeleteMonitor(m)
        PROVE  Forward'
    <2>1. CASE PatchStatus(m)
      BY <1>3, <2>1 DEF PatchStatus, reconcilerVars
    <2>2. CASE DeleteMonitor(m)
      <3>1. /\ Publish(m, "DELETED", cluster[m]) /\ Exists(m) /\ cluster'[m] = Absent
            /\ \A k \in Monitors \ {m} : cluster'[k] = cluster[k]
            /\ UNCHANGED <<born, jobs, stage, listed, cache, timers, restarts>>
        BY <2>2 DEF DeleteMonitor, TypeOK, reconcilerVars
      <3> QED
        BY <1>3, <3>1
    <2> QED
      BY <1>4, <2>1, <2>2
  <1>5. ASSUME NEW m \in Monitors, HandleListed(m)
        PROVE  Forward'
    <2>1. /\ stage = "list" /\ listed[m] # Absent /\ Handle(m, listed[m])
          /\ cache' = [cache EXCEPT ![m] = listed[m]]
          /\ listed' = [listed EXCEPT ![m] = Absent]
          /\ UNCHANGED <<cluster, born, jobs, stage, inbox, restarts>>
      BY <1>5 DEF HandleListed, apiVars
    <2>2. listed[m] \in Object /\ listed[m].uid <= born[m] /\ listed'[m] = Absent
      BY <2>1 DEF TypeOK, Forward, Onward
    <2>3. inbox' = NoEvents /\ inbox'[m] = <<>> /\ Rising(inbox'[m], born[m])
      BY <2>1 DEF Forward, NoEvents, Rising
    <2>4. \A k \in Monitors \ {m} : listed'[k] = listed[k] /\ inbox'[k] = inbox[k]
      BY <2>1 DEF TypeOK
    <2>5. \A i \in DOMAIN inbox'[m] :
            Seen(m, inbox'[m][i].obj.uid) /\ listed[m].uid <= inbox'[m][i].obj.uid
      BY <2>3
    <2> QED
      BY <2>1, <2>2, <2>3, <2>4, <2>5, ForwardHandled
  <1>6. ASSUME NEW m \in Monitors, stage = "watch", inbox[m] # <<>>,
               inbox' = [inbox EXCEPT ![m] = Tail(@)]
        PROVE  /\ Head(inbox[m]).obj \in Object /\ Head(inbox[m]).obj.uid <= born[m]
               /\ Rising(inbox'[m], born[m])
               /\ \A i \in DOMAIN inbox'[m] :
                    /\ Seen(m, inbox'[m][i].obj.uid)
                    /\ Head(inbox[m]).obj.uid <= inbox'[m][i].obj.uid
               /\ \A k \in Monitors \ {m} : inbox'[k] = inbox[k]
    <2>1. inbox[m] \in Seq(Event) /\ inbox'[m] = Tail(inbox[m])
      BY <1>6 DEF TypeOK
    <2>2. Rising(inbox[m], born[m]) /\ \A i \in DOMAIN inbox[m] : Seen(m, inbox[m][i].obj.uid)
      BY DEF Forward, Onward
    <2>3. /\ Rising(Tail(inbox[m]), born[m])
          /\ 1 \in DOMAIN inbox[m] /\ Head(inbox[m]) = inbox[m][1]
          /\ \A i \in DOMAIN Tail(inbox[m]) :
                /\ i + 1 \in DOMAIN inbox[m] /\ Tail(inbox[m])[i] = inbox[m][i + 1]
                /\ Head(inbox[m]).obj.uid <= Tail(inbox[m])[i].obj.uid
      BY <1>6, <2>1, <2>2, RisingTail
    <2>4. Head(inbox[m]).obj \in Object
      BY <1>6, DeliveredEvent
    <2>5. Head(inbox[m]).obj.uid <= born[m]
      BY <2>2, <2>3 DEF Rising
    <2>6. \A k \in Monitors \ {m} : inbox'[k] = inbox[k]
      BY <1>6 DEF TypeOK
    <2> QED
      BY <2>1, <2>2, <2>3, <2>4, <2>5, <2>6
  <1>7. ASSUME NEW m \in Monitors, DeliverUpsert(m)
        PROVE  Forward'
    <2>1. /\ stage = "watch" /\ inbox[m] # <<>> /\ inbox' = [inbox EXCEPT ![m] = Tail(@)]
          /\ cache' = [cache EXCEPT ![m] = Head(inbox[m]).obj]
          /\ Handle(m, Head(inbox[m]).obj)
          /\ UNCHANGED <<cluster, born, jobs, stage, listed, restarts>>
      BY <1>7 DEF DeliverUpsert, apiVars
    <2>2. listed' = Nothing /\ listed'[m] = Absent
      BY <2>1 DEF Forward, Nothing
    <2>3. stage # "down"
      BY <2>1
    <2> QED
      BY <1>6, <2>1, <2>2, <2>3, ForwardHandled
  <1>8. ASSUME NEW m \in Monitors, DeliverDeleted(m)
        PROVE  Forward'
    <2>1. /\ stage = "watch" /\ inbox[m] # <<>> /\ inbox' = [inbox EXCEPT ![m] = Tail(@)]
          /\ cache' = [cache EXCEPT ![m] = Absent]
          /\ UNCHANGED <<cluster, born, jobs, timers, stage, listed, restarts>>
      BY <1>8 DEF DeliverDeleted, apiVars, reconcilerVars
    <2>2. /\ Rising(inbox'[m], born[m])
          /\ \A i \in DOMAIN inbox'[m] : Seen(m, inbox'[m][i].obj.uid)
          /\ \A k \in Monitors \ {m} : inbox'[k] = inbox[k]
      BY <1>6, <2>1
    <2>3. ASSUME NEW k \in Monitors
          PROVE  \A u : Seen(k, u) => Seen(k, u)'
      <3>1. cache'[k] \in {cache[k], Absent}
        BY <2>1 DEF TypeOK
      <3>2. Checks(k)' = Checks(k)
        BY <2>1 DEF Checks
      <3> QED
        BY <3>1, <3>2, SeenKept
    <2>4. ASSUME NEW k \in Monitors
          PROVE  Onward(k)'
      <3>1. /\ Onward(k) /\ Rising(inbox'[k], born[k])
            /\ \A i \in DOMAIN inbox'[k] : Seen(k, inbox'[k][i].obj.uid)
        BY <2>2 DEF Forward, Onward
      <3>2. \A i \in DOMAIN inbox'[k] : \A u : u = inbox'[k][i].obj.uid => Seen(k, u)'
        BY <2>3, <3>1
      <3> QED
        BY <2>1, <2>3, <3>1, <3>2 DEF Onward, Exists
    <2> QED
      BY <2>1, <2>4 DEF Forward
  <1>9. ASSUME NEW m \in Monitors, CancelReturns(m)
        PROVE  Forward'
    <2>1. /\ jobs' \subseteq jobs
          /\ UNCHANGED <<cluster, born, stage, listed, inbox, cache, timers, restarts>>
      BY <1>9 DEF CancelReturns, informerVars
    <2> QED
      BY <2>1, ForwardKept DEF Checks, Forward
  <1>10. ASSUME NEW t \in timers, FireTimer(t)
         PROVE  Forward'
    <2> DEFINE made == [mon |-> t.mon, uid |-> t.uid, n |-> t.n, life |-> restarts]
    <2>1. /\ jobs' \subseteq jobs \cup {made} /\ timers' \subseteq timers
          /\ UNCHANGED <<cluster, born, stage, listed, inbox, cache, restarts>>
      BY <1>10 DEF FireTimer, informerVars
    <2>2. made.mon = t.mon /\ made.uid = t.uid /\ made.life = restarts /\ restarts \in Nat
      BY DEF TypeOK
    <2> HIDE DEF made
    <2>3. \A j \in jobs' : j.life <= restarts
      BY <2>1, <2>2 DEF Forward
    <2>4. \A m \in Monitors : \A c \in Checks(m)' : \E d \in Checks(m) : d.uid = c.uid
      BY <2>1, <2>2 DEF Checks
    <2> QED
      BY <2>1, <2>3, <2>4, ForwardKept
  <1>11. ASSUME NEW j \in jobs, CollectOrphan(j)
         PROVE  Forward'
    <2>1. /\ jobs' \subseteq jobs
          /\ UNCHANGED <<cluster, born, stage, listed, inbox, cache, timers, restarts>>
      BY <1>11 DEF CollectOrphan, informerVars, reconcilerVars
    <2> QED
      BY <2>1, ForwardKept DEF Checks, Forward
  <1>12. CASE StartController
    <2>1. /\ stage = "down" /\ stage' = "list" /\ listed' \in {cluster, Nothing}
          /\ UNCHANGED <<cluster, born, jobs, timers, inbox, cache, restarts>>
      BY <1>12 DEF StartController, apiVars, reconcilerVars
    <2>2. ASSUME NEW m \in Monitors
          PROVE  Onward(m)'
      <3>1. cache'[m] = Absent /\ Checks(m)' = {}
        BY <2>1 DEF Forward, Onward, Checks
      <3>2. \A u : Seen(m, u)'
        BY <3>1 DEF Seen
      <3>3. listed'[m] # Absent => listed'[m].uid <= born'[m]
        <4>1. listed'[m] # Absent => listed'[m] = cluster[m] /\ cluster[m].uid = born[m]
          BY <2>1 DEF Forward, Onward, Exists, Nothing
        <4> QED
          BY <2>1, <4>1 DEF TypeOK
      <3> QED
        BY <2>1, <3>2, <3>3 DEF Forward, Onward, Exists
    <2> QED
      BY <2>1, <2>2 DEF Forward
  <1>13. CASE OpenWatch
    <2>1. /\ stage = "list" /\ stage' = "watch" /\ listed = Nothing /\ inbox' = Replay
          /\ UNCHANGED <<cluster, born, jobs, timers, listed, cache, restarts>>
      BY <1>13 DEF OpenWatch, apiVars, reconcilerVars
    <2>2. ASSUME NEW m \in Monitors
          PROVE  Onward(m)'
      <3>1. \A u : Seen(m, u)' <=> Seen(m, u)
        BY <2>1 DEF Seen, Checks
      <3>2. CASE Exists(m)
        <4>1. /\ inbox'[m] = <<[type |-> "ADDED", obj |-> cluster[m]]>>
              /\ cluster[m].uid = born[m] /\ born[m] \in Nat
          BY <2>1, <3>2 DEF Replay, Forward, Onward, TypeOK
        <4>2. \A i \in DOMAIN inbox'[m] : i = 1 /\ inbox'[m][i].obj.uid = born[m]
          BY <4>1
        <4>3. Rising(inbox'[m], born[m])
          BY <4>1, <4>2 DEF Rising
        <4> QED
          BY <2>1, <3>1, <4>2, <4>3 DEF Forward, Onward, Exists
      <3>3. CASE ~Exists(m)
        <4>1. inbox'[m] = <<>>
          BY <2>1, <3>3 DEF Replay
        <4> QED
          BY <2>1, <3>1, <4>1 DEF Forward, Onward, Exists, Rising
      <3> QED
        BY <3>2, <3>3
    <2> QED
      BY <2>1, <2>2 DEF Forward
  <1>14. CASE CloseWatch
    <2>1. /\ stage = "watch" /\ stage' = "closed" /\ inbox' = NoEvents
          /\ UNCHANGED <<cluster, born, jobs, timers, listed, cache, restarts>>
      BY <1>14 DEF CloseWatch, apiVars, reconcilerVars
    <2>2. ASSUME NEW m \in Monitors
          PROVE  Onward(m)'
      <3>1. \A u : Seen(m, u)' <=> Seen(m, u)
        BY <2>1 DEF Seen, Checks
      <3>2. inbox'[m] = <<>>
        BY <2>1 DEF NoEvents
      <3> QED
        BY <2>1, <3>1, <3>2 DEF Forward, Onward, Exists, Rising
    <2> QED
      BY <2>1, <2>2 DEF Forward
  <1>15. CASE Restart
    <2>1. /\ restarts' = restarts + 1 /\ stage' = "down" /\ listed' = Nothing
          /\ inbox' = NoEvents /\ cache' = Nothing /\ timers' = {}
          /\ UNCHANGED <<cluster, born, jobs>>
      BY <1>15 DEF Restart, apiVars
    <2>2. \A j \in jobs : j.life \in Nat /\ j.life <= restarts /\ restarts \in Nat
      BY DEF Forward, TypeOK, Job
    <2>3. \A j \in jobs : j.life <= restarts + 1 /\ j.life # restarts + 1
      BY <2>2
    <2>4. ASSUME NEW m \in Monitors
          PROVE  Onward(m)'
      <3>1. Checks(m)' = {} /\ cache'[m] = Absent /\ listed'[m] = Absent /\ inbox'[m] = <<>>
        BY <2>1, <2>3 DEF Checks, Nothing, NoEvents
      <3>2. \A u : Seen(m, u)'
        BY <3>1 DEF Seen
      <3> QED
        BY <2>1, <3>1, <3>2 DEF Forward, Onward, Exists, Rising
    <2> QED
      BY <2>1, <2>3, <2>4 DEF Forward
  <1>16. CASE UNCHANGED vars
    <2>1. UNCHANGED <<cluster, born, stage, listed, inbox, cache, restarts, jobs, timers>>
      BY <1>16 DEF vars, apiVars, informerVars, reconcilerVars
    <2> QED
      BY <2>1, ForwardKept DEF Checks, Forward
  <1> QED
    BY <1>1, <1>2, <1>4, <1>5, <1>7, <1>8, <1>9, <1>10, <1>11, <1>12, <1>13, <1>14, <1>15,
       <1>16 DEF Next, MonitorNext

(* A step of which Forward holds does not go back.                         *)
LEMMA StepGoesOn ==
    ASSUME TypeOK, Forward, [Next]_vars, NEW m \in Monitors
    PROVE  /\ cache[m] # Absent /\ cache'[m] # Absent => cache[m].uid <= cache'[m].uid
           /\ \A t \in timers' \ timers : t.mon = m => \A c \in Checks(m) : c.uid <= t.uid
  <1>1. ASSUME NEW k \in Monitors, NEW o \in Object, Handle(k, o), Seen(k, o.uid),
               cache' = [cache EXCEPT ![k] = o]
        PROVE  /\ cache[m] # Absent /\ cache'[m] # Absent => cache[m].uid <= cache'[m].uid
               /\ \A t \in timers' \ timers : t.mon = m => \A c \in Checks(m) : c.uid <= t.uid
    <2>1. cache'[m] = IF m = k THEN o ELSE cache[m]
      BY <1>1 DEF TypeOK
    <2>2. cache[m] # Absent => cache[m].uid \in Nat
      BY DEF TypeOK, Object
    <2>3. \A t \in timers' \ timers : t.mon = k /\ t.uid = o.uid
      BY <1>1, HandleArms
    <2> QED
      BY <1>1, <2>1, <2>2, <2>3 DEF Seen
  <1>2. ASSUME NEW k \in Monitors, HandleListed(k)
        PROVE  /\ listed[k] \in Object /\ Handle(k, listed[k]) /\ Seen(k, listed[k].uid)
               /\ cache' = [cache EXCEPT ![k] = listed[k]]
    BY <1>2 DEF HandleListed, TypeOK, Forward, Onward
  <1>3. ASSUME NEW k \in Monitors, DeliverUpsert(k)
        PROVE  LET o == Head(inbox[k]).obj
               IN  /\ o \in Object /\ Handle(k, o) /\ Seen(k, o.uid)
                   /\ cache' = [cache EXCEPT ![k] = o]
    <2>1. inbox[k] \in Seq(Event) /\ inbox[k] # <<>>
      BY <1>3 DEF DeliverUpsert, TypeOK
    <2>2. Rising(inbox[k], born[k]) /\ \A i \in DOMAIN inbox[k] : Seen(k, inbox[k][i].obj.uid)
      BY DEF Forward, Onward
    <2>3. 1 \in DOMAIN inbox[k] /\ Head(inbox[k]) = inbox[k][1]
      BY <2>1, <2>2, RisingTail
    <2> QED
      BY <1>3, <2>1, <2>2, <2>3, DeliveredEvent DEF DeliverUpsert
  <1>4. ASSUME timers' \subseteq timers, cache'[m] \in {cache[m], Absent}
        PROVE  /\ cache[m] # Absent /\ cache'[m] # Absent => cache[m].uid <= cache'[m].uid
               /\ \A t \in timers' \ timers : t.mon = m => \A c \in Checks(m) : c.uid <= t.uid
    BY <1>4 DEF TypeOK, Object
  <1>5. \/ \E k \in Monitors : HandleListed(k) \/ DeliverUpsert(k)
        \/ timers' \subseteq timers /\ cache'[m] \in {cache[m], Absent}
    <2>1. ASSUME NEW k \in Monitors, NEW s \in Specs,
                 CreateMonitor(k, s) \/ EditMonitor(k, s) \/ PatchStatus(k)
                    \/ DeleteMonitor(k) \/ CancelReturns(k)
          PROVE  UNCHANGED <<timers, cache>>
      BY <2>1 DEF CreateMonitor, EditMonitor, PatchStatus, DeleteMonitor, CancelReturns,
                  reconcilerVars, informerVars
    <2>2. ASSUME NEW k \in Monitors, DeliverDeleted(k)
          PROVE  timers' = timers /\ cache'[m] \in {cache[m], Absent}
      BY <2>2 DEF DeliverDeleted, reconcilerVars, TypeOK
    <2>3. ASSUME \/ \E t \in timers : FireTimer(t)
                 \/ \E j \in jobs : CollectOrphan(j)
                 \/ StartController \/ OpenWatch \/ CloseWatch \/ UNCHANGED vars
          PROVE  timers' \subseteq timers /\ cache' = cache
      BY <2>3 DEF FireTimer, CollectOrphan, StartController, OpenWatch, CloseWatch, vars,
                  informerVars, reconcilerVars
    <2>4. ASSUME Restart
          PROVE  timers' \subseteq timers /\ cache'[m] = Absent
      BY <2>4 DEF Restart, Nothing
    <2>5. Specs # {}
      BY DEF Specs
    <2> QED
      BY <2>1, <2>2, <2>3, <2>4, <2>5 DEF Next, MonitorNext
  <1> QED
    BY <1>1, <1>2, <1>3, <1>4, <1>5

(* Whatever is late, replayed, deleted or created again under a name: the  *)
(* cache never holds an earlier object after a later one, and no timer is  *)
(* armed for an object earlier than one that this process is to check, or  *)
(* has made a Job for.                                                     *)
THEOREM ControllerNeverGoesBack == Spec => NeverGoesBack
  <1>1. TypeOK /\ Forward /\ [Next]_vars =>
            [\A m \in Monitors :
                /\ cache[m] # Absent /\ cache'[m] # Absent => cache[m].uid <= cache'[m].uid
                /\ \A t \in timers' \ timers : t.mon = m =>
                        \A c \in Checks(m) : c.uid <= t.uid]_vars
    BY StepGoesOn
  <1> QED
    BY <1>1, ForwardInit, ForwardStep, TypeCorrect, PTL DEF Spec, NeverGoesBack
=============================================================================
