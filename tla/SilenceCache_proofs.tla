------------------------- MODULE SilenceCache_proofs -------------------------
(***************************************************************************)
(* Proofs about SilenceCache, for any names, any limit of the delay and    *)
(* any bounds.                                                             *)
(*                                                                         *)
(* EntryHasTimer is inductive once the types are known.  UneditedIsActive  *)
(* needs UneditedHistory: what the events, the timers and the cache hold   *)
(* about a name that was created and never edited.                         *)
(***************************************************************************)
EXTENDS SilenceCache, SequenceTheorems, TLAPS

-----------------------------------------------------------------------------
(* The type invariant.                                                     *)

LEMMA DeliveredExpiry ==
    ASSUME TypeOK, NEW s \in Silences, inbox[s] # <<>>
    PROVE  /\ Head(inbox[s]) \in Time
           /\ Tail(inbox[s]) \in Seq(Time)
  BY HeadTailProperties DEF TypeOK

(* A timer is never due before it was started, nor after the expiry.       *)
LEMMA FiresInTime ==
    ASSUME TypeOK, NEW e \in Time, e > now
    PROVE  FiresAt(e) \in Time /\ now <= FiresAt(e) /\ FiresAt(e) <= e
  BY BoundsAssumption DEF TypeOK, FiresAt, Time

LEMMA TypeStep == TypeOK /\ [Next]_vars => TypeOK'
  <1> SUFFICES ASSUME TypeOK, [Next]_vars
               PROVE  TypeOK'
    OBVIOUS
  <1>1. ASSUME NEW s \in Silences, NEW e \in Time, PutSilence(s, e)
        PROVE  TypeOK'
    <2>1. inbox' \in [Silences -> Seq(Time)]
      BY <1>1, AppendProperties DEF TypeOK, PutSilence
    <2> QED
      BY <1>1, <2>1 DEF TypeOK, PutSilence
  <1>2. ASSUME NEW s \in Silences, DeleteSilence(s)
        PROVE  TypeOK'
    BY <1>2 DEF TypeOK, DeleteSilence
  <1>3. ASSUME NEW s \in Silences, Deliver(s)
        PROVE  TypeOK'
    <2>1. inbox' \in [Silences -> Seq(Time)]
      BY <1>3, DeliveredExpiry DEF TypeOK, Deliver
    <2>2. CASE Head(inbox[s]) > now /\ Cache(s, Head(inbox[s]))
      <3>1. Head(inbox[s]) \in Time /\ FiresAt(Head(inbox[s])) \in Time
        BY <1>3, <2>2, DeliveredExpiry, FiresInTime DEF Deliver
      <3> QED
        BY <1>3, <2>1, <2>2, <3>1 DEF TypeOK, Deliver, Cache, Timer
    <2>3. CASE Head(inbox[s]) <= now /\ UNCHANGED <<cached, timers, entered>>
      BY <1>3, <2>1, <2>3 DEF TypeOK, Deliver
    <2> QED
      BY <1>3, <2>2, <2>3 DEF Deliver
  <1>4. ASSUME NEW t \in timers, Fire(t)
        PROVE  TypeOK'
    BY <1>4 DEF TypeOK, Fire
  <1>5. CASE Tick
    BY <1>5, BoundsAssumption DEF TypeOK, Tick, Time
  <1>6. CASE Restart
    <2>1. inbox' \in [Silences -> Seq(Time)]
      BY <1>6 DEF TypeOK, Restart
    <2> QED
      BY <1>6, <2>1 DEF TypeOK, Restart
  <1>7. CASE UNCHANGED vars
    BY <1>7 DEF TypeOK, vars
  <1> QED
    BY <1>1, <1>2, <1>3, <1>4, <1>5, <1>6, <1>7 DEF Next

(* Every variable of the cache keeps its type.                             *)
THEOREM TypeCorrect == Spec => []TypeOK
  <1>1. Init => TypeOK
    BY BoundsAssumption DEF Init, TypeOK, Time
  <1> QED
    BY <1>1, TypeStep, PTL DEF Spec

-----------------------------------------------------------------------------
(* No entry without a timer.                                               *)

LEMMA TimerStep == TypeOK /\ EntryHasTimer /\ [Next]_vars => EntryHasTimer'
  <1> SUFFICES ASSUME TypeOK, EntryHasTimer, [Next]_vars
               PROVE  EntryHasTimer'
    OBVIOUS
  <1>1. ASSUME NEW s \in Silences, NEW e \in Time, PutSilence(s, e)
        PROVE  EntryHasTimer'
    BY <1>1 DEF EntryHasTimer, PutSilence
  <1>2. ASSUME NEW s \in Silences, DeleteSilence(s)
        PROVE  EntryHasTimer'
    BY <1>2 DEF EntryHasTimer, DeleteSilence
  <1>3. ASSUME NEW s \in Silences, Deliver(s)
        PROVE  EntryHasTimer'
    <2>1. CASE Head(inbox[s]) > now /\ Cache(s, Head(inbox[s]))
      <3> DEFINE e == Head(inbox[s])
                 t == [name |-> s, due |-> FiresAt(e)]
      <3>1. e \in Time /\ FiresAt(e) <= e
        BY <1>3, <2>1, DeliveredExpiry, FiresInTime DEF Deliver
      <3>2. cached' = [cached EXCEPT ![s] = e] /\ timers' = timers \cup {t}
        BY <2>1 DEF Cache
      <3>3. cached'[s] = e /\ t \in timers' /\ t.name = s /\ t.due <= e
        BY <3>1, <3>2 DEF TypeOK
      <3>4. \A r \in Silences \ {s} : cached'[r] = cached[r]
        BY <3>2 DEF TypeOK
      <3> HIDE DEF e, t
      <3> QED
        BY <3>2, <3>3, <3>4 DEF EntryHasTimer, None
    <2>2. CASE Head(inbox[s]) <= now /\ UNCHANGED <<cached, timers, entered>>
      BY <2>2 DEF EntryHasTimer
    <2> QED
      BY <1>3, <2>1, <2>2 DEF Deliver
  <1>4. ASSUME NEW t \in timers, Fire(t)
        PROVE  EntryHasTimer'
    <2>1. timers' = timers \ {t} /\ cached' = [cached EXCEPT ![t.name] = None]
      BY <1>4 DEF Fire
    <2>2. SUFFICES ASSUME NEW s \in Silences, cached'[s] # None
                   PROVE  \E u \in timers' : u.name = s /\ u.due <= cached'[s]
      BY DEF EntryHasTimer, None
    <2>3. s # t.name /\ cached'[s] = cached[s]
      BY <2>1, <2>2 DEF TypeOK
    <2> QED
      BY <2>1, <2>2, <2>3 DEF EntryHasTimer
  <1>5. CASE Tick
    BY <1>5 DEF EntryHasTimer, Tick
  <1>6. CASE Restart
    BY <1>6 DEF EntryHasTimer, Restart
  <1>7. CASE UNCHANGED vars
    BY <1>7 DEF EntryHasTimer, vars
  <1> QED
    BY <1>1, <1>2, <1>3, <1>4, <1>5, <1>6, <1>7 DEF Next

(* However a name is edited, deleted and created again, an entry of the    *)
(* cache has a timer that is due when it expires at the latest.            *)
THEOREM EntriesHaveTimers == Spec => []EntryHasTimer
  <1>1. Init => EntryHasTimer
    BY DEF Init, EntryHasTimer
  <1> QED
    BY <1>1, TypeCorrect, TimerStep, PTL DEF Spec

-----------------------------------------------------------------------------
(* A silence that was not edited.                                          *)

Waiting(s) == {inbox[s][i] : i \in 1..Len(inbox[s])}
TimersOf(s) == {t \in timers : t.name = s}

(* Nothing is known of a name that was never used.                         *)
Unused(s) ==
    /\ stored[s] = None /\ inbox[s] = <<>> /\ cached[s] = None
    /\ entered[s] = None /\ TimersOf(s) = {}

(* Once in the cache, and if its delay fitted the timer, the silence stays *)
(* there: all of its timers are due when it expires.                       *)
Kept(s) ==
    /\ entered[s] <= now
    /\ stored[s] - entered[s] <= Limit =>
        /\ \A t \in TimersOf(s) : t.due = stored[s]
        /\ now < stored[s] => cached[s] = stored[s]

(* All that is on its way about a name created once is its one expiry.     *)
Unedited(s) ==
    /\ \A e \in Waiting(s) : e = stored[s]
    /\ IF entered[s] = None THEN cached[s] = None /\ TimersOf(s) = {} ELSE Kept(s)

UneditedHistory ==
    \A s \in Silences :
        /\ puts[s] = 0 => Unused(s)
        /\ puts[s] = 1 /\ stored[s] # None => Unedited(s)

LEMMA WaitingAppend ==
    ASSUME TypeOK, NEW s \in Silences, NEW e \in Time,
           inbox'[s] = Append(inbox[s], e)
    PROVE  Waiting(s)' \subseteq Waiting(s) \cup {e}
  <1>1. inbox[s] \in Seq(Time)
    BY DEF TypeOK
  <1>2. /\ Len(inbox'[s]) = Len(inbox[s]) + 1
        /\ \A i \in 1..Len(inbox[s]) : inbox'[s][i] = inbox[s][i]
        /\ inbox'[s][Len(inbox[s]) + 1] = e
    BY <1>1, AppendProperties
  <1>3. Len(inbox[s]) \in Nat
    BY <1>1, LenProperties
  <1>4. \A i \in 1..Len(inbox'[s]) : i \in 1..Len(inbox[s]) \/ i = Len(inbox[s]) + 1
    BY <1>2, <1>3
  <1> QED
    BY <1>2, <1>4 DEF Waiting

LEMMA WaitingTail ==
    ASSUME TypeOK, NEW s \in Silences, inbox[s] # <<>>,
           inbox'[s] = Tail(inbox[s])
    PROVE  Waiting(s)' \subseteq Waiting(s) /\ Head(inbox[s]) \in Waiting(s)
  <1>1. inbox[s] \in Seq(Time) /\ Len(inbox[s]) \in Nat
    BY LenProperties DEF TypeOK
  <1>2. /\ Len(inbox'[s]) = Len(inbox[s]) - 1
        /\ \A i \in 1..Len(inbox'[s]) : inbox'[s][i] = inbox[s][i + 1]
    BY <1>1, HeadTailProperties
  <1>3. Len(inbox[s]) > 0 /\ Head(inbox[s]) = inbox[s][1]
    BY <1>1, EmptySeq
  <1>4. \A i \in 1..Len(inbox'[s]) : i + 1 \in 1..Len(inbox[s])
    BY <1>1, <1>2
  <1>5. 1 \in 1..Len(inbox[s])
    BY <1>1, <1>3
  <1> QED
    BY <1>2, <1>3, <1>4, <1>5 DEF Waiting

(* What is kept about a name is untouched by steps about other names.      *)
LEMMA UntouchedName ==
    ASSUME NEW s \in Silences, UneditedHistory,
           stored'[s] = stored[s], inbox'[s] = inbox[s], cached'[s] = cached[s],
           entered'[s] = entered[s], puts'[s] = puts[s], TimersOf(s)' = TimersOf(s),
           now' = now
    PROVE  /\ puts'[s] = 0 => Unused(s)'
           /\ puts'[s] = 1 /\ stored'[s] # None => Unedited(s)'
  BY DEF UneditedHistory, Unused, Unedited, Kept, Waiting, None

LEMMA HistoryStep == TypeOK /\ UneditedHistory /\ [Next]_vars => UneditedHistory'
  <1> SUFFICES ASSUME TypeOK, UneditedHistory, [Next]_vars,
                      NEW r \in Silences
               PROVE  /\ puts'[r] = 0 => Unused(r)'
                      /\ puts'[r] = 1 /\ stored'[r] # None => Unedited(r)'
    BY DEF UneditedHistory, None
  <1>1. ASSUME NEW s \in Silences, NEW e \in Time, PutSilence(s, e)
        PROVE  /\ puts'[r] = 0 => Unused(r)'
               /\ puts'[r] = 1 /\ stored'[r] # None => Unedited(r)'
    <2>1. CASE r # s
      <3>1. TimersOf(r)' = TimersOf(r)
        BY <1>1 DEF PutSilence, TimersOf
      <3> QED
        BY <1>1, <2>1, <3>1, UntouchedName DEF TypeOK, PutSilence
    <2>2. CASE r = s
      <3>1. puts'[s] = puts[s] + 1 /\ puts[s] \in Nat
        BY <1>1 DEF TypeOK, PutSilence
      <3>2. SUFFICES ASSUME puts[s] = 0
                     PROVE  Unedited(s)'
        BY <2>2, <3>1
      <3>3. Unused(s)
        BY <3>2 DEF UneditedHistory
      <3>4. stored'[s] = e /\ inbox'[s] = Append(inbox[s], e)
        BY <1>1 DEF TypeOK, PutSilence
      <3>5. Waiting(s) = {}
        BY <3>3 DEF Unused, Waiting
      <3>6. \A x \in Waiting(s)' : x = stored'[s]
        BY <3>4, <3>5, WaitingAppend
      <3>7. entered'[s] = None' /\ cached'[s] = None' /\ TimersOf(s)' = {}
        BY <1>1, <3>3 DEF PutSilence, Unused, TimersOf, None
      <3> QED
        BY <3>6, <3>7 DEF Unedited
    <2> QED
      BY <2>1, <2>2
  <1>2. ASSUME NEW s \in Silences, DeleteSilence(s)
        PROVE  /\ puts'[r] = 0 => Unused(r)'
               /\ puts'[r] = 1 /\ stored'[r] # None => Unedited(r)'
    <2>1. TimersOf(r)' = TimersOf(r)
      BY <1>2 DEF DeleteSilence, TimersOf
    <2>2. CASE r # s
      BY <1>2, <2>1, <2>2, UntouchedName DEF TypeOK, DeleteSilence
    <2>3. CASE r = s
      BY <1>2, <2>3 DEF TypeOK, DeleteSilence, UneditedHistory, Unused, None
    <2> QED
      BY <2>2, <2>3
  <1>3. ASSUME NEW s \in Silences, Deliver(s)
        PROVE  /\ puts'[r] = 0 => Unused(r)'
               /\ puts'[r] = 1 /\ stored'[r] # None => Unedited(r)'
    <2> DEFINE e == Head(inbox[s])
    <2>0. /\ inbox[s] # <<>> /\ inbox'[s] = Tail(inbox[s])
          /\ now' = now /\ stored' = stored /\ puts' = puts /\ None' = None
          /\ \A x \in Silences \ {s} : inbox'[x] = inbox[x]
      BY <1>3 DEF TypeOK, Deliver, None
    <2>1. Waiting(s)' \subseteq Waiting(s) /\ e \in Waiting(s) /\ e \in Time
      BY <2>0, WaitingTail, DeliveredExpiry
    <2>2. CASE e > now /\ Cache(s, e)
      <3>1. CASE r # s
        <4>1. TimersOf(r)' = TimersOf(r)
          BY <2>2, <3>1 DEF Cache, TimersOf
        <4> QED
          BY <2>0, <2>2, <3>1, <4>1, UntouchedName DEF TypeOK, Cache
      <3>2. CASE r = s
        <4>1. SUFFICES ASSUME puts[s] = 1, stored[s] # None
                       PROVE  Unedited(s)'
          BY <2>0, <3>2 DEF UneditedHistory, Unused
        <4>2. Unedited(s) /\ e = stored[s]
          BY <2>1, <4>1 DEF UneditedHistory, Unedited
        <4>3. \A x \in Waiting(s)' : x = stored'[s]
          BY <2>0, <2>1, <4>2 DEF Unedited
        <4>4. cached'[s] = e /\ entered'[s] = IF entered[s] = None THEN now ELSE entered[s]
          BY <2>2 DEF TypeOK, Cache
        <4>5. TimersOf(s)' \subseteq TimersOf(s) \cup {[name |-> s, due |-> FiresAt(e)]}
          BY <2>2 DEF Cache, TimersOf
        <4>6. /\ now \in Time /\ now # None
              /\ entered'[s] \in Nat /\ entered'[s] # None /\ entered'[s] <= now
          BY <4>2, <4>4, BoundsAssumption DEF TypeOK, Time, None, Unedited, Kept
        <4>7. stored[s] - entered'[s] <= Limit => FiresAt(e) = e
          BY <2>1, <4>2, <4>6, BoundsAssumption DEF FiresAt, Time
        <4>8. stored[s] - entered'[s] <= Limit => \A t \in TimersOf(s) : t.due = stored[s]
          BY <4>2, <4>4 DEF Unedited, Kept
        <4>9. Kept(s)'
          BY <2>0, <4>2, <4>4, <4>5, <4>6, <4>7, <4>8 DEF Kept
        <4> QED
          BY <2>0, <4>3, <4>6, <4>9 DEF Unedited
      <3> QED
        BY <3>1, <3>2
    <2>3. CASE e <= now /\ UNCHANGED <<cached, timers, entered>>
      <3>1. TimersOf(r)' = TimersOf(r)
        BY <2>3 DEF TimersOf
      <3>2. CASE r # s
        BY <2>0, <2>3, <3>1, <3>2, UntouchedName
      <3>3. CASE r = s
        <4>1. SUFFICES ASSUME puts[s] = 1, stored[s] # None
                       PROVE  Unedited(s)'
          BY <2>0, <3>3 DEF UneditedHistory, Unused
        <4> QED
          BY <2>0, <2>1, <2>3, <3>1, <3>3, <4>1 DEF UneditedHistory, Unedited, Kept
      <3> QED
        BY <3>2, <3>3
    <2> QED
      BY <1>3, <2>2, <2>3 DEF Deliver
  <1>4. ASSUME NEW t \in timers, Fire(t)
        PROVE  /\ puts'[r] = 0 => Unused(r)'
               /\ puts'[r] = 1 /\ stored'[r] # None => Unedited(r)'
    <2>0. /\ t.due <= now /\ t.name \in Silences
          /\ UNCHANGED <<now, stored, inbox, entered, puts>> /\ None' = None
          /\ timers' = timers \ {t} /\ cached' = [cached EXCEPT ![t.name] = None]
      BY <1>4 DEF TypeOK, Timer, Fire, None
    <2>1. CASE r # t.name
      <3>1. TimersOf(r)' = TimersOf(r)
        BY <2>0, <2>1 DEF TimersOf
      <3> QED
        BY <2>0, <2>1, <3>1, UntouchedName DEF TypeOK
    <2>2. CASE r = t.name
      <3>1. t \in TimersOf(r) /\ TimersOf(r)' \subseteq TimersOf(r)
        BY <2>0, <2>2 DEF TimersOf
      <3>2. puts[r] # 0
        BY <3>1 DEF UneditedHistory, Unused
      <3>3. SUFFICES ASSUME puts[r] = 1, stored[r] # None
                     PROVE  Unedited(r)'
        BY <2>0, <3>2
      <3>4. Unedited(r) /\ entered[r] # None /\ Kept(r)
        BY <3>1, <3>3 DEF UneditedHistory, Unedited
      <3>5. stored[r] - entered[r] <= Limit => stored[r] <= now
        BY <2>0, <3>1, <3>4 DEF Kept
      <3>6. stored[r] \in Nat /\ now \in Nat
        BY <3>3, BoundsAssumption DEF TypeOK, Time
      <3>7. Kept(r)'
        BY <2>0, <3>1, <3>4, <3>5, <3>6 DEF Kept
      <3> QED
        BY <2>0, <3>4, <3>7 DEF Unedited, Waiting
    <2> QED
      BY <2>1, <2>2
  <1>5. CASE Tick
    <2>0. /\ UNCHANGED <<stored, inbox, cached, timers, entered, puts>>
          /\ now' = now + 1 /\ now \in Nat /\ None' = None
          /\ TimersOf(r)' = TimersOf(r) /\ Waiting(r)' = Waiting(r)
      BY <1>5, BoundsAssumption DEF TypeOK, Tick, Time, None, TimersOf, Waiting
    <2>1. puts[r] = 0 => Unused(r)'
      BY <2>0 DEF UneditedHistory, Unused
    <2>2. ASSUME puts[r] = 1, stored[r] # None
          PROVE  Unedited(r)'
      <3>1. Unedited(r)
        BY <2>2 DEF UneditedHistory
      <3>2. CASE entered[r] = None
        BY <2>0, <3>1, <3>2 DEF Unedited
      <3>3. CASE entered[r] # None
        <4>1. entered[r] \in Nat /\ stored[r] \in Nat
          BY <2>2, <3>3, BoundsAssumption DEF TypeOK, Time
        <4>2. Kept(r)'
          BY <2>0, <3>1, <3>3, <4>1 DEF Unedited, Kept
        <4> QED
          BY <2>0, <3>1, <3>3, <4>2 DEF Unedited
      <3> QED
        BY <3>2, <3>3
    <2> QED
      BY <2>0, <2>1, <2>2
  <1>6. CASE Restart
    <2>0. /\ stored' = stored /\ puts' = puts /\ None' = None
          /\ cached'[r] = None /\ entered'[r] = None /\ TimersOf(r)' = {}
          /\ inbox'[r] = IF stored[r] = None THEN <<>> ELSE <<stored[r], stored[r]>>
      BY <1>6 DEF Restart, None, TimersOf
    <2>1. puts[r] = 0 => Unused(r)'
      BY <2>0 DEF UneditedHistory, Unused
    <2>2. ASSUME stored[r] # None
          PROVE  \A x \in Waiting(r)' : x = stored'[r]
      BY <2>0, <2>2 DEF Waiting
    <2> QED
      BY <2>0, <2>1, <2>2 DEF Unedited
  <1>7. CASE UNCHANGED vars
    BY <1>7, UntouchedName DEF vars, TimersOf
  <1> QED
    BY <1>1, <1>2, <1>3, <1>4, <1>5, <1>6, <1>7 DEF Next

(* A silence that was created once, never edited, and whose delay fitted   *)
(* the timer is active from its first handling until it expires, through   *)
(* any replays and restarts.                                               *)
THEOREM UneditedSilenceIsActive == Spec => []UneditedIsActive
  <1>1. Init => UneditedHistory
    BY DEF Init, UneditedHistory, Unused, Waiting, TimersOf
  <1>2. TypeOK /\ UneditedHistory => UneditedIsActive
    <2> SUFFICES ASSUME TypeOK, UneditedHistory, NEW s \in Silences,
                        puts[s] = 1, stored[s] # None, entered[s] # None,
                        stored[s] - entered[s] <= Limit, now < stored[s]
                 PROVE  s \in ActiveSilences
      BY DEF UneditedIsActive
    <2>1. cached[s] = stored[s]
      BY DEF UneditedHistory, Unedited, Kept
    <2> QED
      BY <2>1, BoundsAssumption DEF ActiveSilences, TypeOK, Time
  <1> QED
    BY <1>1, <1>2, TypeCorrect, HistoryStep, PTL DEF Spec
=============================================================================
