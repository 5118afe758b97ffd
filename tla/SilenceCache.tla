---------------------------- MODULE SilenceCache ----------------------------
(***************************************************************************)
(* The cache of active silences.  The Silence reconciler puts the silence  *)
(* it is given in a Map, under its name, and starts a timer that deletes   *)
(* that name when the silence expires.  No timer is ever cleared, an edit  *)
(* starts another one, and the deletion of a Silence object changes        *)
(* neither the Map nor the timers, no delete handler being registered.     *)
(*                                                                         *)
(* Time passes in ticks; a timer may fire late, never early, except that   *)
(* setTimeout takes a 32-bit delay and runs a longer one at once.          *)
(***************************************************************************)
EXTENDS Naturals, Sequences

CONSTANTS
    Silences,     \* the names "namespace/name" a Silence may have
    Limit,        \* the longest delay of a timer, in ticks
    MaxTime,      \* bound: the last tick
    MaxPuts,      \* bound: creations and edits of a name
    MaxRestarts   \* bound: restarts of the controller

ASSUME BoundsAssumption ==
    Limit \in Nat /\ MaxTime \in Nat /\ MaxPuts \in Nat /\ MaxRestarts \in Nat

VARIABLES
    now,        \* the clock
    stored,     \* expiresAt of the Silence stored under each name, or None
    inbox,      \* expiresAt in the events about each name, not delivered yet
    cached,     \* expiresAt of the silenceCache entry of each name, or None
    timers,     \* pending timers: the name to delete and when
    entered,    \* when this process first cached each name, or None
    puts,       \* how often each name was created or edited
    restarts    \* restarts so far

vars == <<now, stored, inbox, cached, timers, entered, puts, restarts>>

Time == 0..MaxTime
None == MaxTime + 1
Timer == [name : Silences, due : Time]

-----------------------------------------------------------------------------
(* A user creates or edits a Silence, or deletes it; time passes.          *)
PutSilence(s, expiresAt) ==
    /\ puts[s] < MaxPuts
    /\ puts' = [puts EXCEPT ![s] = @ + 1]
    /\ stored' = [stored EXCEPT ![s] = expiresAt]
    /\ inbox' = [inbox EXCEPT ![s] = Append(@, expiresAt)]
    /\ UNCHANGED <<now, cached, timers, entered, restarts>>

DeleteSilence(s) ==
    /\ stored[s] # None
    /\ stored' = [stored EXCEPT ![s] = None]
    /\ UNCHANGED <<now, inbox, cached, timers, entered, puts, restarts>>

Tick ==
    /\ now < MaxTime
    /\ now' = now + 1
    /\ UNCHANGED <<stored, inbox, cached, timers, entered, puts, restarts>>

-----------------------------------------------------------------------------
(* The reconciler.                                                         *)

(* Mutant: the delay is the instant of expiry, not the time left to it.    *)
FiresAtInstant(expiresAt) == IF expiresAt - now > Limit THEN now ELSE now + expiresAt

(* Mutant: the longest delay is taken for too long already.                *)
FiresAtOffByOne(expiresAt) == IF expiresAt - now >= Limit THEN now ELSE expiresAt

(* When a timer started now for that expiry fires.                         *)
FiresAt(expiresAt) == IF expiresAt - now > Limit THEN now ELSE expiresAt

(* Mutant: a silence in the cache already starts no timer.                 *)
CacheOnce(s, expiresAt) ==
    /\ cached' = [cached EXCEPT ![s] = expiresAt]
    /\ timers' = IF cached[s] = None
                 THEN timers \cup {[name |-> s, due |-> FiresAt(expiresAt)]}
                 ELSE timers
    /\ entered' = [entered EXCEPT ![s] = IF @ = None THEN now ELSE @]

Cache(s, expiresAt) ==
    /\ cached' = [cached EXCEPT ![s] = expiresAt]
    /\ timers' = timers \cup {[name |-> s, due |-> FiresAt(expiresAt)]}
    /\ entered' = [entered EXCEPT ![s] = IF @ = None THEN now ELSE @]

(* An event is handled: a silence that is not to expire in the future is   *)
(* invalid, and what the cache has under its name is left as it is.        *)
Deliver(s) ==
    /\ inbox[s] # <<>>
    /\ inbox' = [inbox EXCEPT ![s] = Tail(@)]
    /\ \/ Head(inbox[s]) > now /\ Cache(s, Head(inbox[s]))
       \/ Head(inbox[s]) <= now /\ UNCHANGED <<cached, timers, entered>>
    /\ UNCHANGED <<now, stored, puts, restarts>>

(* Mutant: the timer that fires deletes the entry only if it has expired.  *)
FireIfExpired(t) ==
    /\ t \in timers
    /\ t.due <= now
    /\ timers' = timers \ {t}
    /\ cached' = [cached EXCEPT ![t.name] = IF @ < now THEN None ELSE @]
    /\ UNCHANGED <<now, stored, inbox, entered, puts, restarts>>

(* A timer deletes whatever its name has in the cache by now.              *)
Fire(t) ==
    /\ t \in timers
    /\ t.due <= now
    /\ timers' = timers \ {t}
    /\ cached' = [cached EXCEPT ![t.name] = None]
    /\ UNCHANGED <<now, stored, inbox, entered, puts, restarts>>

(* The controller restarts with an empty cache; what is stored is listed,  *)
(* and replayed by the watch.                                              *)
Restart ==
    /\ restarts < MaxRestarts
    /\ restarts' = restarts + 1
    /\ cached' = [s \in Silences |-> None]
    /\ entered' = [s \in Silences |-> None]
    /\ timers' = {}
    /\ inbox' = [s \in Silences |-> IF stored[s] = None THEN <<>>
                               ELSE <<stored[s], stored[s]>>]
    /\ UNCHANGED <<now, stored, puts>>

Init ==
    /\ now = 0
    /\ stored = [s \in Silences |-> None]
    /\ inbox = [s \in Silences |-> <<>>]
    /\ cached = [s \in Silences |-> None]
    /\ timers = {}
    /\ entered = [s \in Silences |-> None]
    /\ puts = [s \in Silences |-> 0]
    /\ restarts = 0

Next ==
    \/ \E s \in Silences :
        \/ \E expiresAt \in Time : PutSilence(s, expiresAt)
        \/ DeleteSilence(s)
        \/ Deliver(s)
    \/ \E t \in timers : Fire(t)
    \/ Tick
    \/ Restart

Spec == Init /\ [][Next]_vars

(* Time goes on and due timers fire.                                       *)
FairSpec ==
    /\ Spec
    /\ WF_vars(Tick)
    /\ \A s \in Silences :
        WF_vars(Deliver(s)) /\ WF_vars(\E t \in timers : t.name = s /\ Fire(t))

-----------------------------------------------------------------------------
(* getActiveSilences: the entries that have not expired.                   *)
ActiveSilences == {s \in Silences : cached[s] # None /\ now <= cached[s]}

(* The shape of the state.                                                 *)
TypeOK ==
    /\ now \in Time
    /\ stored \in [Silences -> Time \cup {None}]
    /\ inbox \in [Silences -> Seq(Time)]
    /\ cached \in [Silences -> Time \cup {None}]
    /\ timers \subseteq Timer
    /\ entered \in [Silences -> Time \cup {None}]
    /\ puts \in [Silences -> Nat] /\ restarts \in Nat

(* However a name is edited, deleted and created again, each entry has a   *)
(* timer that will delete it when it expires at the latest: the cache does *)
(* not grow for ever.                                                      *)
EntryHasTimer ==
    \A s \in Silences : cached[s] # None =>
        \E t \in timers : t.name = s /\ t.due <= cached[s]

(* A silence that was never edited, deleted and created again, and whose   *)
(* delay fitted the timer, is active until it expires.                     *)
UneditedIsActive ==
    \A s \in Silences :
        /\ puts[s] = 1 /\ stored[s] # None
        /\ entered[s] # None /\ stored[s] - entered[s] <= Limit
        /\ now < stored[s]
        => s \in ActiveSilences

(* No silence is in the cache for ever, deleted or not.                    *)
CacheEmpties == <>[](\A s \in Silences : cached[s] = None)

-----------------------------------------------------------------------------
(* auth-and-config-reconcilers.ts:69: "Setup expiry timer to remove from   *)
(* cache when silence expires".  A timer deletes no entry before it does.  *)
RemovedWhenExpired ==
    [][\A s \in Silences :
          cached[s] # None /\ cached'[s] = None /\ restarts' = restarts
          => cached[s] <= now]_vars
=============================================================================
