---------------------- MODULE MaintenanceWindows_proofs ----------------------
(***************************************************************************)
(* Proofs about MaintenanceWindows, for any windows, specs and calendar.   *)
(*                                                                         *)
(* What decides is Latest: the last event about a window is about what is  *)
(* stored, and once it is handled the cache holds that, as it was computed *)
(* then (EntriesAreReconciled).  The rest is about Recurrence: the next    *)
(* occurrence of a plain rule is one that RFC 5545 has, and the first one  *)
(* a stride or more away (NextOccurs, NextIsFirst); a daily rule's walk    *)
(* from a year ago passes none over (Reached, by Induction).               *)
(***************************************************************************)
EXTENDS MaintenanceWindows, RecursionTheorems

LEMMA Delivered ==
    ASSUME NEW queue \in Seq(Specs), queue # <<>>
    PROVE  /\ Head(queue) \in Specs /\ Head(queue) = queue[1]
           /\ Tail(queue) \in Seq(Specs) /\ Len(Tail(queue)) = Len(queue) - 1
           /\ Len(queue) \in Nat \ {0}
           /\ \A i \in 1..Len(Tail(queue)) : Tail(queue)[i] = queue[i + 1]
           /\ Tail(queue) = <<>> => Len(queue) = 1
  <1>1. /\ Head(queue) \in Specs /\ Tail(queue) \in Seq(Specs)
        /\ Len(Tail(queue)) = Len(queue) - 1
        /\ \A i \in 1..Len(Tail(queue)) : Tail(queue)[i] = queue[i + 1]
    BY HeadTailProperties
  <1>2. Len(queue) \in Nat /\ Len(queue) # 0 /\ Head(queue) = queue[1]
    BY EmptySeq, LenProperties
  <1>3. Tail(queue) = <<>> <=> Len(Tail(queue)) = 0
    BY <1>1, EmptySeq
  <1> QED
    BY <1>1, <1>2, <1>3

LEMMA TypeStep == TypeOK /\ [Next]_vars => TypeOK'
  <1> SUFFICES ASSUME TypeOK, [Next]_vars
               PROVE  TypeOK'
    OBVIOUS
  <1> USE DEF TypeOK
  <1>1. ASSUME NEW w \in Windows, NEW spec \in Specs, PutWindow(w, spec)
        PROVE  TypeOK'
    <2>1. inbox' \in [Windows -> Seq(Specs)]
      BY <1>1, AppendProperties DEF PutWindow
    <2>2. puts' \in [Windows -> 0..MaxPuts]
      BY <1>1, BoundsAssumption DEF PutWindow
    <2> QED
      BY <1>1, <2>1, <2>2 DEF PutWindow
  <1>2. ASSUME NEW w \in Windows, DeleteWindow(w)
        PROVE  TypeOK'
    BY <1>2 DEF DeleteWindow
  <1>3. ASSUME NEW w \in Windows, ReconcileMaintenanceWindow(w)
        PROVE  TypeOK'
    <2>1. /\ inbox' \in [Windows -> Seq(Specs)] /\ Head(inbox[w]) \in Specs
      BY <1>3, Delivered DEF ReconcileMaintenanceWindow
    <2>2. CASE UNCHANGED <<cached, reconciled>>
      BY <1>3, <2>1, <2>2 DEF ReconcileMaintenanceWindow
    <2>3. CASE /\ Head(inbox[w]).valid
               /\ cached' = [cached EXCEPT ![w] = {Entry(Head(inbox[w]))}]
               /\ reconciled' = [reconciled EXCEPT ![w] = now]
      <3> DEFINE spec == Head(inbox[w])
      <3>1. Entry(spec).spec = spec /\ Entry(spec).duration = spec.end - spec.start
        BY DEF Entry
      <3>2. reconciled' \in [Windows -> 0..now]
        BY <2>3
      <3> HIDE DEF spec
      <3> QED
        BY <1>3, <2>1, <2>3, <3>1, <3>2 DEF ReconcileMaintenanceWindow, spec
    <2> QED
      BY <1>3, <2>2, <2>3 DEF ReconcileMaintenanceWindow
  <1>4. CASE Tick
    <2>1. reconciled' \in [Windows -> 0..now'] /\ now' \in 0..MaxTime
      BY <1>4, BoundsAssumption DEF Tick
    <2> QED
      BY <1>4, <2>1 DEF Tick
  <1>5. CASE Restart
    <2>1. inbox' \in [Windows -> Seq(Specs)]
      <3>1. ASSUME NEW w \in Windows, NEW s \in stored[w]
            PROVE  <<s, s>> \in Seq(Specs)
        OBVIOUS
      <3>2. ASSUME NEW w \in Windows, stored[w] # {}
            PROVE  (CHOOSE s \in stored[w] : TRUE) \in stored[w]
        BY <3>2
      <3> QED
        BY <1>5, <3>1, <3>2, EmptySeq DEF Restart
    <2>2. restarts' \in 0..MaxRestarts
      BY <1>5, BoundsAssumption DEF Restart
    <2> QED
      BY <1>5, <2>1, <2>2 DEF Restart
  <1>6. CASE UNCHANGED vars
    BY <1>6 DEF vars
  <1> QED
    BY <1>1, <1>2, <1>3, <1>4, <1>5, <1>6 DEF Next

(* The state keeps its shape: in particular the cache holds at most one    *)
(* entry of a name, made of a valid spec.                                  *)
THEOREM TypeCorrect == Spec => []TypeOK
  <1>1. Init => TypeOK
    BY BoundsAssumption, EmptySeq DEF Init, TypeOK
  <1> QED
    BY <1>1, TypeStep, PTL DEF Spec

-----------------------------------------------------------------------------
(* Windows without a rule.                                                 *)
Latest ==
    \A w \in Windows :
        /\ \A spec \in stored[w] :
            /\ inbox[w] # <<>> => inbox[w][Len(inbox[w])] = spec
            /\ inbox[w] = <<>> /\ spec.valid =>
                cached[w] # {} /\ \A entry \in cached[w] : entry.spec = spec
        /\ \A entry \in cached[w] : entry.spec.rule = {} => entry.next = entry.spec.start

LEMMA EntryOfOneShot ==
    ASSUME NEW spec, spec.rule = {}
    PROVE  Entry(spec).next = spec.start
  BY DEF Entry

LEMMA LatestStep == TypeOK /\ Latest /\ [Next]_vars => Latest'
  <1> SUFFICES ASSUME TypeOK, Latest, [Next]_vars
               PROVE  Latest'
    OBVIOUS
  <1>1. ASSUME NEW w \in Windows, NEW spec \in Specs, PutWindow(w, spec)
        PROVE  Latest'
    <2>1. inbox'[w] # <<>> /\ inbox'[w][Len(inbox'[w])] = spec /\ stored'[w] = {spec}
      BY <1>1, AppendProperties, EmptySeq DEF TypeOK, PutWindow
    <2>2. \A v \in Windows \ {w} : inbox'[v] = inbox[v] /\ stored'[v] = stored[v]
      BY <1>1 DEF TypeOK, PutWindow
    <2> QED
      BY <1>1, <2>1, <2>2 DEF Latest, PutWindow
  <1>2. ASSUME NEW w \in Windows, DeleteWindow(w)
        PROVE  Latest'
    BY <1>2 DEF TypeOK, Latest, DeleteWindow
  <1>3. ASSUME NEW w \in Windows, ReconcileMaintenanceWindow(w)
        PROVE  Latest'
    <2> DEFINE spec == Head(inbox[w])
    <2>1. inbox[w] \in Seq(Specs) /\ inbox[w] # <<>> /\ inbox'[w] = Tail(inbox[w])
      BY <1>3 DEF TypeOK, ReconcileMaintenanceWindow
    <2>2. ASSUME NEW s \in stored[w], inbox'[w] = <<>>
          PROVE  spec = s
      <3> DEFINE queue == inbox[w]
      <3>1. /\ queue \in Seq(Specs) /\ queue # <<>> /\ Tail(queue) = <<>>
            /\ spec = Head(queue)
        BY <2>1, <2>2
      <3> HIDE DEF queue, spec
      <3>2. Len(queue) = 1 /\ spec = queue[1]
        BY <3>1, Delivered
      <3>3. queue[Len(queue)] = s
        BY <2>1 DEF Latest, queue
      <3> QED
        BY <3>2, <3>3
    <2>3. inbox'[w] # <<>> => inbox'[w][Len(inbox'[w])] = inbox[w][Len(inbox[w])]
      BY <2>1, Delivered
    <2>4. \A v \in Windows \ {w} : inbox'[v] = inbox[v] /\ cached'[v] = cached[v]
      BY <1>3 DEF TypeOK, ReconcileMaintenanceWindow
    <2>5. stored' = stored
      BY <1>3 DEF ReconcileMaintenanceWindow
    <2>6. CASE spec.valid /\ cached'[w] = {Entry(spec)}
      <3>1. Entry(spec).spec = spec /\ (spec.rule = {} => Entry(spec).next = spec.start)
        BY EntryOfOneShot DEF Entry
      <3> HIDE DEF spec
      <3>2. ASSUME NEW s \in stored[w]
            PROVE  /\ inbox'[w] # <<>> => inbox'[w][Len(inbox'[w])] = s
                   /\ inbox'[w] = <<>> /\ s.valid =>
                        cached'[w] # {} /\ \A entry \in cached'[w] : entry.spec = s
        <4>1. inbox[w][Len(inbox[w])] = s
          BY <2>1 DEF Latest
        <4> QED
          BY <2>2, <2>3, <2>6, <3>1, <4>1
      <3>3. \A entry \in cached'[w] : entry.spec.rule = {} => entry.next = entry.spec.start
        BY <2>6, <3>1
      <3> QED
        BY <2>4, <2>5, <3>2, <3>3 DEF Latest
    <2>7. CASE ~spec.valid /\ cached'[w] = cached[w]
      <3> HIDE DEF spec
      <3>1. ASSUME NEW s \in stored[w]
            PROVE  /\ inbox'[w] # <<>> => inbox'[w][Len(inbox'[w])] = s
                   /\ inbox'[w] = <<>> => ~s.valid
        <4>1. inbox[w][Len(inbox[w])] = s
          BY <2>1 DEF Latest
        <4> QED
          BY <2>2, <2>3, <2>7, <4>1
      <3> QED
        BY <2>4, <2>5, <2>7, <3>1 DEF Latest
    <2>8. \/ spec.valid /\ cached'[w] = {Entry(spec)}
          \/ ~spec.valid /\ cached'[w] = cached[w]
      BY <1>3 DEF TypeOK, ReconcileMaintenanceWindow
    <2> QED
      BY <2>6, <2>7, <2>8
  <1>4. CASE Restart
    <2>1. ASSUME NEW w \in Windows, NEW s \in stored[w]
          PROVE  inbox'[w] = <<s, s>>
      <3>1. (CHOOSE r \in stored[w] : TRUE) = s
        BY DEF TypeOK
      <3> QED
        BY <1>4, <3>1 DEF Restart
    <2>2. \A w \in Windows : cached'[w] = {} /\ stored'[w] = stored[w]
      BY <1>4 DEF Restart
    <2>3. ASSUME NEW w \in Windows, NEW s \in stored'[w]
          PROVE  inbox'[w] # <<>> /\ inbox'[w][Len(inbox'[w])] = s
      <3>1. inbox'[w] = <<s, s>>
        BY <2>1, <2>2
      <3>2. <<s, s>> # <<>> /\ Len(<<s, s>>) = 2 /\ <<s, s>>[2] = s
        OBVIOUS
      <3> QED
        BY <3>1, <3>2
    <2> QED
      BY <2>2, <2>3 DEF Latest
  <1>5. CASE Tick \/ UNCHANGED vars
    BY <1>5 DEF Latest, Tick, vars
  <1> QED
    BY <1>1, <1>2, <1>3, <1>4, <1>5 DEF Next

(* A window without a rule is open exactly from its start to its end, once *)
(* the events about it are handled, whatever was edited and restarted.     *)
THEOREM OneShotAlwaysExact == Spec => []OneShotIsExact
  <1>1. Init => Latest
    BY DEF Init, Latest
  <1>2. TypeOK /\ Latest => OneShotIsExact
    <2> SUFFICES ASSUME TypeOK, Latest, NEW w \in Windows, NEW spec \in stored[w],
                        inbox[w] = <<>>, spec.valid, spec.rule = {}
                 PROVE  /\ cached[w] # {}
                        /\ \A entry \in cached[w] :
                            IsOpen(entry) <=> spec.start <= now /\ now < spec.end
      BY DEF OneShotIsExact
    <2>1. spec.start \in Int /\ spec.end \in Int /\ now \in Int
      BY SpecsAssumption DEF TypeOK
    <2>2. cached[w] # {}
      BY DEF Latest
    <2>3. ASSUME NEW entry \in cached[w]
          PROVE  IsOpen(entry) <=> spec.start <= now /\ now < spec.end
      <3>1. entry.spec = spec
        BY DEF Latest
      <3>2. entry.next = spec.start
        BY <3>1 DEF Latest
      <3>3. entry.duration = spec.end - spec.start
        BY <3>1 DEF TypeOK
      <3> QED
        BY <2>1, <3>2, <3>3 DEF IsOpen
    <2> QED
      BY <2>2, <2>3
  <1> QED
    BY <1>1, <1>2, LatestStep, TypeCorrect, PTL DEF Spec
-----------------------------------------------------------------------------
(* The calendar.                                                           *)

LEMMA DayAndHour ==
    ASSUME NEW t \in Int
    PROVE  /\ Day(t) \in Int /\ Hour(t) \in 0..(HoursPerDay - 1)
           /\ t = Day(t) * HoursPerDay + Hour(t)
  <1>1. HoursPerDay \in Nat \ {0}
    BY CalendarAssumption
  <1> QED
    BY <1>1 DEF Day, Hour

LEMMA TimeOf ==
    ASSUME NEW d \in Int, NEW h \in 0..(HoursPerDay - 1)
    PROVE  /\ d * HoursPerDay + h \in Int
           /\ Day(d * HoursPerDay + h) = d /\ Hour(d * HoursPerDay + h) = h
  <1>1. HoursPerDay \in Nat \ {0}
    BY CalendarAssumption
  <1> QED
    BY <1>1 DEF Day, Hour

LEMMA DaysInOrder ==
    ASSUME NEW d \in Int, NEW e \in Int, d < e,
           NEW g \in 0..(HoursPerDay - 1), NEW h \in 0..(HoursPerDay - 1)
    PROVE  d * HoursPerDay + g < e * HoursPerDay + h
  <1>1. HoursPerDay \in Nat \ {0}
    BY CalendarAssumption
  <1>2. (d + 1) * HoursPerDay <= e * HoursPerDay
    BY <1>1
  <1>3. (d + 1) * HoursPerDay = d * HoursPerDay + HoursPerDay
    BY <1>1
  <1>4. d * HoursPerDay \in Int /\ e * HoursPerDay \in Int
    BY <1>1
  <1> QED
    BY <1>1, <1>2, <1>3, <1>4

LEMMA LaterHasLaterDay ==
    ASSUME NEW s \in Int, NEW t \in Int
    PROVE  /\ Day(s) < Day(t) => s < t
           /\ s <= t => Day(s) <= Day(t)
           /\ Day(s) = Day(t) /\ Hour(s) = Hour(t) => s = t
  BY DayAndHour, DaysInOrder

(* An end at the end of a day is passed by all of a day or by none of it.  *)
LEMMA UntilEndOfDay ==
    ASSUME NEW u \in Int, Hour(u + 1) = 0, NEW s \in Int, NEW t \in Int,
           Day(s) = Day(t), s <= u
    PROVE  t <= u
  <1>1. Day(s) < Day(u + 1)
    <2>1. s < u + 1
      OBVIOUS
    <2>2. Day(s) <= Day(u + 1)
      BY LaterHasLaterDay
    <2>3. Day(s) # Day(u + 1)
      <3> DEFINE midnight == Day(u + 1) * HoursPerDay
      <3>1. midnight \in Int /\ u + 1 = midnight /\ Hour(s) \in Nat
        BY DayAndHour, CalendarAssumption
      <3>2. Day(s) = Day(u + 1) => s = midnight + Hour(s)
        BY DayAndHour
      <3> HIDE DEF midnight
      <3> QED
        BY <2>1, <3>1, <3>2
    <2>4. Day(s) \in Int /\ Day(u + 1) \in Int
      BY DayAndHour
    <2> QED
      BY <2>2, <2>3, <2>4
  <1>2. t < u + 1
    BY <1>1, LaterHasLaterDay
  <1> QED
    BY <1>2
-----------------------------------------------------------------------------
(* Least elements.                                                         *)
LEMMA MinIsLeast ==
    ASSUME NEW T, T \subseteq Nat, T # {}
    PROVE  Min(T) \in T /\ \A y \in T : Min(T) <= y
  BY LeastElement DEF Min

LEMMA MinOfOne ==
    ASSUME NEW x \in Int
    PROVE  Min({x}) = x
  BY DEF Min
-----------------------------------------------------------------------------
(* The next occurrence of a plain rule.                                    *)

IsUntil(until) == until \subseteq [at : Int, basic : BOOLEAN]

LEMMA PlainRule ==
    ASSUME NEW rule, Plain(rule)
    PROVE  /\ Stride(rule) \in Nat \ {0}
           /\ rule.freq = "DAILY" => Stride(rule) = 1
           /\ rule.count = {}
           /\ \E h \in 0..(HoursPerDay - 1) : rule.byHour = {h}
           /\ rule.byDay # {} => rule.freq = "WEEKLY"
           /\ \A u \in rule.until : ~u.basic /\ Hour(u.at + 1) = 0
           /\ rule.byMonth = {}
  <1>1. rule.freq \in {"DAILY", "WEEKLY", "MONTHLY"}
    BY DEF Plain, Regular
  <1>2. rule.interval = 1
    BY DEF Plain, Regular
  <1> QED
    BY <1>1, <1>2, CalendarAssumption DEF Plain, Regular, Stride

LEMMA HourIsSet ==
    ASSUME NEW rule, Plain(rule), NEW t \in Int
    PROVE  /\ AtHour(rule, t) \in Int
           /\ Day(AtHour(rule, t)) = Day(t)
           /\ rule.byHour = {Hour(AtHour(rule, t))}
  <1>1. PICK h \in 0..(HoursPerDay - 1) : rule.byHour = {h}
    BY PlainRule
  <1>2. (CHOOSE g \in rule.byHour : TRUE) = h
    BY <1>1
  <1>3. AtHour(rule, t) = t - Hour(t) + h
    BY <1>1, <1>2 DEF AtHour
  <1> DEFINE midnight == Day(t) * HoursPerDay
  <1>4. midnight \in Int /\ Hour(t) \in Int /\ t = midnight + Hour(t) /\ h \in Int
    BY DayAndHour, CalendarAssumption
  <1> HIDE DEF midnight
  <1>5. AtHour(rule, t) = midnight + h
    BY <1>3, <1>4
  <1>6. Day(t) \in Int
    BY DayAndHour
  <1>7. Day(midnight + h) = Day(t) /\ Hour(midnight + h) = h
    BY <1>6, TimeOf DEF midnight
  <1> QED
    BY <1>1, <1>4, <1>5, <1>7

(* A candidate is an occurrence exactly if one is on its day.              *)
LEMMA CandidateSuits ==
    ASSUME NEW rule, Plain(rule), IsUntil(rule.until), NEW c \in Int
    PROVE  ~IsOver(rule, c) /\ Suits(rule, c) => Occurs(rule, AtHour(rule, c))
  <1> DEFINE t == AtHour(rule, c)
  <1>1. t \in Int /\ Day(t) = Day(c) /\ rule.byHour = {Hour(t)}
    BY HourIsSet
  <1> HIDE DEF t
  <1> SUFFICES ASSUME ~IsOver(rule, c), Suits(rule, c)
               PROVE  Occurs(rule, t)
    BY DEF t
  <1>2. ASSUME NEW u \in rule.until
        PROVE  t <= u.at
    <2>1. u.at \in Int /\ ~u.basic /\ Hour(u.at + 1) = 0
      BY PlainRule DEF IsUntil
    <2>2. c <= u.at
      BY <2>1 DEF IsOver
    <2> QED
      BY <1>1, <2>1, <2>2, UntilEndOfDay
  <1>3. Weekday(t) = Weekday(c) /\ MonthDay(t) = MonthDay(c)
    BY <1>1 DEF Weekday, MonthDay
  <1> QED
    BY <1>1, <1>2, <1>3, PlainRule DEF Occurs, Suits

LEMMA OccurrenceIsCandidate ==
    ASSUME NEW rule, Plain(rule), IsUntil(rule.until), NEW c \in Int,
           NEW o \in Int, Occurs(rule, o), Day(c) = Day(o)
    PROVE  /\ ~IsOver(rule, c)
           /\ Suits(rule, c)
           /\ AtHour(rule, c) = o
  <1> DEFINE t == AtHour(rule, c)
  <1>1. t \in Int /\ Day(t) = Day(c) /\ rule.byHour = {Hour(t)}
    BY HourIsSet
  <1> HIDE DEF t
  <1>2. ~IsOver(rule, c)
    <2>1. ASSUME NEW u \in rule.until
          PROVE  ~(c > u.at)
      <3>1. u.at \in Int /\ Hour(u.at + 1) = 0 /\ o <= u.at
        BY PlainRule DEF IsUntil, Occurs
      <3>2. c <= u.at
        BY <3>1, UntilEndOfDay
      <3> QED
        BY <3>1, <3>2
    <2> QED
      BY <2>1 DEF IsOver
  <1>3. Weekday(o) = Weekday(c) /\ MonthDay(o) = MonthDay(c)
    BY DEF Weekday, MonthDay
  <1>4. Suits(rule, c)
    BY <1>3, PlainRule DEF Occurs, Suits
  <1>5. t = o
    BY <1>1, LaterHasLaterDay DEF Occurs
  <1> QED
    BY <1>2, <1>4, <1>5 DEF t

Candidate(rule, after, i) == after + i * Stride(rule) * HoursPerDay

Found(rule, after) ==
    {i \in 1..MaxIterations :
        /\ ~IsOver(rule, Candidate(rule, after, i))
        /\ \A n \in rule.count \ {0} : i <= n
        /\ Suits(rule, Candidate(rule, after, i))
        /\ AtHour(rule, Candidate(rule, after, i)) > after}

LEMMA NextOfFound ==
    ASSUME NEW rule, NEW after
    PROVE  GetNextOccurrence(rule, after) =
                IF Found(rule, after) = {} THEN {}
                ELSE {AtHour(rule, Candidate(rule, after, Min(Found(rule, after))))}
  BY DEF GetNextOccurrence, Found, Candidate

LEMMA CandidateDay ==
    ASSUME NEW rule, Plain(rule), NEW after \in Int, NEW i \in Nat
    PROVE  /\ Candidate(rule, after, i) \in Int
           /\ i * Stride(rule) \in Nat
           /\ Day(Candidate(rule, after, i)) = Day(after) + i * Stride(rule)
  <1> DEFINE d == i * Stride(rule)
             H == HoursPerDay
  <1>1. d \in Nat /\ H \in Nat
    BY PlainRule, CalendarAssumption
  <1>2. Candidate(rule, after, i) = after + d * H
    BY DEF Candidate
  <1>3. Day(after) \in Int /\ Hour(after) \in 0..(H - 1) /\ after = Day(after) * H + Hour(after)
    BY DayAndHour
  <1> HIDE DEF d
  <1>4. after + d * H = (Day(after) + d) * H + Hour(after)
    <2> DEFINE D == Day(after)
               h == Hour(after)
    <2>1. D \in Int /\ d \in Int /\ H \in Int /\ h \in Int /\ after = D * H + h
      BY <1>1, <1>3
    <2> HIDE DEF D, h, H
    <2>2. (D * H + h) + d * H = (D + d) * H + h
      BY <2>1
    <2> QED
      BY <2>1, <2>2 DEF D, h
  <1>5. Day((Day(after) + d) * H + Hour(after)) = Day(after) + d
    BY <1>1, <1>3, TimeOf
  <1>6. after + d * H \in Int
    BY <1>1
  <1> QED
    BY <1>1, <1>2, <1>4, <1>5, <1>6 DEF d

LEMMA StrideGrows ==
    ASSUME NEW rule, Plain(rule), NEW i \in Nat, NEW j \in Nat
    PROVE  /\ i <= j => i * Stride(rule) <= j * Stride(rule)
           /\ i # 0 => i * Stride(rule) >= Stride(rule)
           /\ Stride(rule) >= 1 /\ i * Stride(rule) \in Nat /\ j * Stride(rule) \in Nat
           /\ Stride(rule) \in Nat
  BY PlainRule

(* What is found is an occurrence, a period later or more.                 *)
LEMMA NextOccurs ==
    ASSUME NEW rule, Plain(rule), IsUntil(rule.until), NEW after \in Int,
           NEW x \in GetNextOccurrence(rule, after)
    PROVE  /\ x \in Int /\ x > after
           /\ Occurs(rule, x)
           /\ Day(x) >= Day(after) + Stride(rule)
           /\ GetNextOccurrence(rule, after) = {x}
  <1>1. Found(rule, after) # {} /\ Found(rule, after) \subseteq Nat
    BY NextOfFound, CalendarAssumption DEF Found
  <1> DEFINE i == Min(Found(rule, after))
             c == Candidate(rule, after, i)
  <1>2. i \in Found(rule, after)
    BY <1>1, MinIsLeast
  <1>3. i \in Nat \ {0}
    BY <1>2, CalendarAssumption DEF Found
  <1>4. GetNextOccurrence(rule, after) = {AtHour(rule, c)}
    BY <1>1, NextOfFound
  <1>5. /\ ~IsOver(rule, c)
        /\ Suits(rule, c)
        /\ AtHour(rule, c) > after
    BY <1>2 DEF Found
  <1> HIDE DEF i
  <1>6. c \in Int /\ Day(c) = Day(after) + i * Stride(rule)
    BY <1>3, CandidateDay
  <1> HIDE DEF c
  <1>7. Occurs(rule, AtHour(rule, c)) /\ AtHour(rule, c) \in Int /\ Day(AtHour(rule, c)) = Day(c)
    BY <1>5, <1>6, CandidateSuits, HourIsSet
  <1>8. Day(c) >= Day(after) + Stride(rule)
    BY <1>3, <1>6, StrideGrows, DayAndHour
  <1> QED
    BY <1>4, <1>5, <1>7, <1>8

(* No occurrence at the stride of the rule is passed over.                 *)
LEMMA NextIsFirst ==
    ASSUME NEW rule, Plain(rule), IsUntil(rule.until), NEW after \in Int,
           NEW o \in Int, Occurs(rule, o), NEW i \in 1..MaxIterations,
           Day(o) = Day(after) + i * Stride(rule)
    PROVE  \E x \in GetNextOccurrence(rule, after) : x <= o
  <1> DEFINE c == Candidate(rule, after, i)
  <1>0. MaxIterations \in Nat /\ i \in Nat /\ i # 0
    BY CalendarAssumption
  <1>1. c \in Int /\ Day(c) = Day(o)
    BY <1>0, CandidateDay
  <1> HIDE DEF c
  <1>2. /\ ~IsOver(rule, c)
        /\ Suits(rule, c)
        /\ AtHour(rule, c) = o
    BY <1>1, OccurrenceIsCandidate
  <1>3. o > after
    <2>1. Day(after) < Day(o)
      BY <1>0, StrideGrows, DayAndHour
    <2> QED
      BY <2>1, LaterHasLaterDay
  <1>4. i \in Found(rule, after)
    BY <1>2, <1>3, PlainRule DEF Found, c
  <1> DEFINE j == Min(Found(rule, after))
             x == AtHour(rule, Candidate(rule, after, j))
  <1>5. Found(rule, after) \subseteq Nat
    BY <1>0 DEF Found
  <1>6. j \in Found(rule, after) /\ j <= i /\ j \in Nat
    BY <1>4, <1>5, MinIsLeast
  <1>7. GetNextOccurrence(rule, after) = {x}
    BY <1>4, NextOfFound
  <1> HIDE DEF j
  <1>8. /\ Candidate(rule, after, j) \in Int
        /\ Day(Candidate(rule, after, j)) = Day(after) + j * Stride(rule)
    BY <1>6, CandidateDay
  <1>9. x \in Int /\ Day(x) = Day(Candidate(rule, after, j)) /\ rule.byHour = {Hour(x)}
    BY <1>8, HourIsSet
  <1>10. Day(x) <= Day(o)
    BY <1>0, <1>6, <1>8, <1>9, StrideGrows, DayAndHour
  <1> HIDE DEF x
  <1>11. Hour(x) = Hour(o)
    BY <1>9 DEF Occurs
  <1>12. x <= o
    <2>1. CASE Day(x) < Day(o)
      BY <1>9, <2>1, LaterHasLaterDay
    <2>2. CASE Day(x) = Day(o)
      BY <1>9, <1>11, <2>2, LaterHasLaterDay
    <2> QED
      BY <1>9, <1>10, <2>1, <2>2, DayAndHour
  <1> QED
    BY <1>7, <1>12
-----------------------------------------------------------------------------
(* What the cache holds was computed when the window was last reconciled.  *)

EntryAt(spec, t) ==
    LET occurrences == UNION {GetNextOccurrence(rule, t) : rule \in spec.rule}
    IN  [spec |-> spec,
         duration |-> spec.end - spec.start,
         next |-> IF occurrences = {} THEN spec.start ELSE Min(occurrences)]

EntriesAreReconciled ==
    \A w \in Windows : \A entry \in cached[w] : entry = EntryAt(entry.spec, reconciled[w])

LEMMA ReconciledStep == TypeOK /\ EntriesAreReconciled /\ [Next]_vars => EntriesAreReconciled'
  <1> SUFFICES ASSUME TypeOK, EntriesAreReconciled, [Next]_vars
               PROVE  EntriesAreReconciled'
    OBVIOUS
  <1>1. ASSUME NEW w \in Windows, ReconcileMaintenanceWindow(w)
        PROVE  EntriesAreReconciled'
    <2> DEFINE spec == Head(inbox[w])
    <2>1. \A v \in Windows \ {w} : cached'[v] = cached[v] /\ reconciled'[v] = reconciled[v]
      BY <1>1 DEF TypeOK, ReconcileMaintenanceWindow
    <2>2. \/ cached'[w] = {Entry(spec)} /\ reconciled'[w] = now
          \/ cached'[w] = cached[w] /\ reconciled'[w] = reconciled[w]
      BY <1>1 DEF TypeOK, ReconcileMaintenanceWindow
    <2> HIDE DEF spec
    <2>3. Entry(spec) = EntryAt(spec, now) /\ Entry(spec).spec = spec
      BY DEF Entry, EntryAt
    <2>4. \A entry \in cached'[w] : entry = EntryAt(entry.spec, reconciled'[w])
      BY <2>2, <2>3 DEF EntriesAreReconciled
    <2> QED
      BY <2>1, <2>4 DEF EntriesAreReconciled
  <1>2. CASE Restart
    BY <1>2 DEF EntriesAreReconciled, Restart
  <1>3. CASE UNCHANGED <<cached, reconciled>>
    BY <1>3 DEF EntriesAreReconciled
  <1>4. \/ \E w \in Windows : ReconcileMaintenanceWindow(w)
        \/ Restart
        \/ UNCHANGED <<cached, reconciled>>
    BY DEF Next, PutWindow, DeleteWindow, Tick, vars
  <1> QED
    BY <1>1, <1>2, <1>3, <1>4

LEMMA AlwaysReconciled == Spec => []EntriesAreReconciled
  <1>1. Init => EntriesAreReconciled
    BY DEF Init, EntriesAreReconciled
  <1> QED
    BY <1>1, ReconciledStep, TypeCorrect, PTL DEF Spec

LEMMA EntryWithRule ==
    ASSUME NEW spec \in Specs, NEW rule \in spec.rule, NEW t
    PROVE  EntryAt(spec, t).next = IF GetNextOccurrence(rule, t) = {} THEN spec.start
                                   ELSE Min(GetNextOccurrence(rule, t))
  <1>1. spec.rule = {rule}
    BY SpecsAssumption
  <1>2. UNION {GetNextOccurrence(r, t) : r \in spec.rule} = GetNextOccurrence(rule, t)
    BY <1>1
  <1> QED
    BY <1>2 DEF EntryAt

(* What is known of an entry in the cache.                                 *)
LEMMA CachedEntry ==
    ASSUME TypeOK, EntriesAreReconciled, NEW w \in Windows, NEW entry \in cached[w]
    PROVE  /\ entry.spec \in Specs /\ now \in Int /\ reconciled[w] \in Int
           /\ entry.spec.start \in Int /\ entry.spec.end \in Int
           /\ entry.duration = entry.spec.end - entry.spec.start /\ entry.duration \in Int
           /\ \A rule \in entry.spec.rule : IsUntil(rule.until)
           /\ entry.spec.rule = {} => entry.next = entry.spec.start
           /\ \A rule \in entry.spec.rule :
                entry.next = IF GetNextOccurrence(rule, reconciled[w]) = {} THEN entry.spec.start
                             ELSE Min(GetNextOccurrence(rule, reconciled[w]))
  <1>1. entry.spec \in Specs /\ entry.duration = entry.spec.end - entry.spec.start
    BY DEF TypeOK
  <1>2. now \in Int /\ reconciled[w] \in Int
    BY DEF TypeOK
  <1>3. /\ entry.spec.start \in Int /\ entry.spec.end \in Int
        /\ \A rule \in entry.spec.rule : IsUntil(rule.until)
    BY <1>1, SpecsAssumption DEF IsUntil
  <1>4. entry.next = EntryAt(entry.spec, reconciled[w]).next
    BY DEF EntriesAreReconciled
  <1>5. entry.spec.rule = {} => entry.next = entry.spec.start
    BY <1>4 DEF EntryAt
  <1>6. ASSUME NEW rule \in entry.spec.rule
        PROVE  entry.next = IF GetNextOccurrence(rule, reconciled[w]) = {} THEN entry.spec.start
                            ELSE Min(GetNextOccurrence(rule, reconciled[w]))
    BY <1>1, <1>4, <1>6, EntryWithRule
  <1> QED
    BY <1>1, <1>2, <1>3, <1>5, <1>6

(* An open window began at an occurrence of its rule or at its start, and  *)
(* what it suppresses is selected.                                         *)
THEOREM OpenWindowsAreMeant == Spec => []ActiveIsMeant
  <1>1. TypeOK /\ EntriesAreReconciled => ActiveIsMeant
    <2> SUFFICES ASSUME TypeOK, EntriesAreReconciled, NEW w \in Windows, NEW monitor \in Monitors,
                        IsActive(w, monitor), NEW entry \in cached[w]
                 PROVE  /\ entry.spec.match.tags = {} /\ entry.spec.match.expressions = {}
                             => MatchesSelector(entry.spec.match, monitor)
                        /\ \/ entry.spec.start <= now /\ now < entry.spec.end
                           \/ \E rule \in entry.spec.rule : Plain(rule) =>
                                \E o \in (now - entry.duration + 1)..now : Occurs(rule, o)
      BY DEF ActiveIsMeant
    <2>1. IsOpen(entry) /\ Covers(entry.spec.match, monitor.labels)
      BY DEF IsActive, TypeOK
    <2>2. entry.spec.match.tags = {} /\ entry.spec.match.expressions = {}
             => MatchesSelector(entry.spec.match, monitor)
      BY <2>1 DEF Covers, MatchesSelector
    <2>3. CASE entry.next = entry.spec.start
      <3>1. entry.spec.start <= now /\ now < entry.spec.end
        BY <2>1, <2>3, CachedEntry DEF IsOpen
      <3> QED
        BY <2>2, <3>1
    <2>4. ASSUME NEW rule \in entry.spec.rule, entry.next # entry.spec.start, Plain(rule)
          PROVE  \E o \in (now - entry.duration + 1)..now : Occurs(rule, o)
      <3> DEFINE nexts == GetNextOccurrence(rule, reconciled[w])
      <3>1. nexts # {} /\ entry.next = Min(nexts)
        BY <2>4, CachedEntry
      <3>2. PICK x \in nexts : TRUE
        BY <3>1
      <3>3. x \in Int /\ Occurs(rule, x) /\ nexts = {x}
        BY <2>4, <3>2, CachedEntry, NextOccurs
      <3>4. entry.next = x
        BY <3>1, <3>3, MinOfOne
      <3>5. x \in (now - entry.duration + 1)..now
        BY <2>1, <3>3, <3>4, CachedEntry DEF IsOpen
      <3> QED
        BY <3>3, <3>5
    <2> QED
      BY <2>2, <2>3, <2>4, CachedEntry
  <1> QED
    BY <1>1, AlwaysReconciled, TypeCorrect, PTL

(* The occurrence a period after the last event about a window is kept.    *)
THEOREM NextIsAlwaysHonoured == Spec => []NextIsHonoured
  <1>1. TypeOK /\ EntriesAreReconciled => NextIsHonoured
    <2> SUFFICES ASSUME TypeOK, EntriesAreReconciled, NEW w \in Windows, NEW monitor \in Monitors,
                        NEW entry \in cached[w], NEW rule \in entry.spec.rule,
                        NEW o \in (now - entry.duration + 1)..now,
                        Plain(rule), Occurs(rule, o),
                        Day(o) = Day(reconciled[w]) + Stride(rule),
                        entry.spec.enabled, MatchesSelector(entry.spec.match, monitor),
                        entry.spec.match.names = {}, entry.spec.match.namespaces = {}
                 PROVE  IsActive(w, monitor)
      BY DEF NextIsHonoured
    <2> DEFINE nexts == GetNextOccurrence(rule, reconciled[w])
    <2>1. o \in Int /\ o <= now /\ now < o + entry.duration
      BY CachedEntry
    <2>2. 1 \in 1..MaxIterations /\ Day(o) = Day(reconciled[w]) + 1 * Stride(rule)
      <3>1. Stride(rule) \in Nat
        BY PlainRule
      <3> QED
        BY <3>1, CalendarAssumption
    <2>3. PICK x \in nexts : x <= o
      BY <2>1, <2>2, CachedEntry, NextIsFirst
    <2>4. /\ x \in Int /\ Occurs(rule, x) /\ nexts = {x}
          /\ Day(x) >= Day(reconciled[w]) + Stride(rule)
      BY <2>3, CachedEntry, NextOccurs
    <2>5. x = o
      <3>1. Day(x) <= Day(o)
        BY <2>1, <2>3, <2>4, LaterHasLaterDay
      <3>2. Day(x) = Day(o)
        BY <2>1, <2>4, <3>1, DayAndHour
      <3>3. Hour(x) = Hour(o)
        BY <2>4, PlainRule DEF Occurs
      <3> QED
        BY <2>1, <2>4, <3>2, <3>3, LaterHasLaterDay
    <2>6. entry.next = o
      <3>1. nexts # {} /\ entry.next = Min(nexts)
        BY <2>4, CachedEntry
      <3> QED
        BY <2>4, <2>5, <3>1, MinOfOne
    <2>7. IsOpen(entry)
      BY <2>1, <2>6 DEF IsOpen
    <2>8. Covers(entry.spec.match, monitor.labels)
      BY DEF MatchesSelector, Covers
    <2> QED
      BY <2>7, <2>8 DEF IsActive
  <1> QED
    BY <1>1, AlwaysReconciled, TypeCorrect, PTL
-----------------------------------------------------------------------------
(* isInMaintenanceWindow goes from occurrence to occurrence.               *)

YearBefore(t) == t - DaysPerYear * HoursPerDay

NextUntil(rule, p, t) == {o \in GetNextOccurrence(rule, p) : o <= t}

GoOn(rule, p, t) == IF NextUntil(rule, p, t) = {} THEN p ELSE Min(NextUntil(rule, p, t))

(* The function the operator defines by recursion.                         *)
Walk(rule, t) ==
    CHOOSE last : last = [n \in 0..MaxIterations |->
        IF n = 0 THEN YearBefore(t) ELSE GoOn(rule, last[n - 1], t)]

LEMMA MembershipOfWalk ==
    ASSUME NEW rule, NEW duration, NEW t
    PROVE  IsInMaintenanceWindow(rule, duration, t)
             <=> /\ Walk(rule, t)[MaxIterations] <= t
                 /\ t < Walk(rule, t)[MaxIterations] + duration
  BY DEF IsInMaintenanceWindow, Walk, GoOn, NextUntil, YearBefore

(* One step stays where it is if no occurrence is left, or goes on by a    *)
(* day or more, to an occurrence.                                          *)
LEMMA GoOnStep ==
    ASSUME NEW rule, Plain(rule), IsUntil(rule.until), NEW p \in Int, NEW t \in Int
    PROVE  LET q == GoOn(rule, p, t)
           IN  /\ q \in Int
               /\ \/ q = p /\ NextUntil(rule, p, t) = {}
                  \/ /\ Occurs(rule, q) /\ q <= t /\ q > p
                     /\ Day(q) >= Day(p) + 1
  <1>1. CASE NextUntil(rule, p, t) = {}
    BY <1>1 DEF GoOn
  <1>2. CASE NextUntil(rule, p, t) # {}
    <2>1. PICK x \in GetNextOccurrence(rule, p) : x <= t
      BY <1>2 DEF NextUntil
    <2>2. /\ x \in Int /\ x > p /\ Occurs(rule, x) /\ Day(x) >= Day(p) + Stride(rule)
          /\ GetNextOccurrence(rule, p) = {x}
      BY <2>1, NextOccurs
    <2>3. NextUntil(rule, p, t) = {x}
      BY <2>1, <2>2 DEF NextUntil
    <2>4. GoOn(rule, p, t) = x
      BY <2>2, <2>3, MinOfOne DEF GoOn
    <2>5. Day(x) >= Day(p) + 1
      BY <2>2, PlainRule, DayAndHour
    <2> QED
      BY <2>1, <2>2, <2>4, <2>5
  <1> QED
    BY <1>1, <1>2

LEMMA WalkEquation ==
    ASSUME NEW rule, Plain(rule), IsUntil(rule.until), NEW t \in Int
    PROVE  /\ Walk(rule, t)[0] = YearBefore(t)
           /\ \A n \in 1..MaxIterations :
                Walk(rule, t)[n] = GoOn(rule, Walk(rule, t)[n - 1], t)
  <1> DEFINE Body(g) == [n \in 0..MaxIterations |->
                            IF n = 0 THEN YearBefore(t) ELSE GoOn(rule, g[n - 1], t)]
             step == [n \in 1..MaxIterations |-> [p \in Int |-> GoOn(rule, p, t)]]
  <1>1. YearBefore(t) \in Int /\ MaxIterations \in Nat
    BY CalendarAssumption DEF YearBefore
  <1>2. step \in [1..MaxIterations -> [Int -> Int]]
    BY GoOnStep
  <1>3. \A n \in 1..MaxIterations : \A p \in Int : step[n][p] = GoOn(rule, p, t)
    OBVIOUS
  <1> HIDE DEF step
  <1>4. PICK f \in [0..MaxIterations -> Int] : Follows(f, MaxIterations, YearBefore(t), step)
    BY <1>1, <1>2, RecursionExists
  <1>5. f = Body(f)
    <2>1. ASSUME NEW n \in 0..MaxIterations
          PROVE  f[n] = IF n = 0 THEN YearBefore(t) ELSE GoOn(rule, f[n - 1], t)
      <3>1. CASE n = 0
        BY <1>4, <3>1 DEF Follows
      <3>2. CASE n # 0
        <4>1. n \in 1..MaxIterations /\ f[n - 1] \in Int
          BY <1>1, <1>4, <3>2
        <4>2. f[n] = step[n][f[n - 1]]
          BY <1>4, <4>1 DEF Follows
        <4> QED
          BY <1>3, <3>2, <4>1, <4>2
      <3> QED
        BY <3>1, <3>2
    <2> QED
      BY <1>4, <2>1
  <1>6. Walk(rule, t) = Body(Walk(rule, t))
    <2>1. \E g : g = Body(g)
      BY <1>5
    <2>2. Walk(rule, t) = CHOOSE g : g = Body(g)
      BY DEF Walk
    <2> HIDE DEF Body
    <2> QED
      BY <2>1, <2>2
  <1> DEFINE last == Walk(rule, t)
  <1> HIDE DEF last
  <1>7. last = [n \in 0..MaxIterations |->
                    IF n = 0 THEN YearBefore(t) ELSE GoOn(rule, last[n - 1], t)]
    BY <1>6 DEF last
  <1>8. last[0] = YearBefore(t)
    BY <1>1, <1>7
  <1>9. ASSUME NEW n \in 1..MaxIterations
        PROVE  last[n] = GoOn(rule, last[n - 1], t)
    <2>1. n \in 0..MaxIterations /\ n # 0
      BY <1>1
    <2> QED
      BY <1>7, <2>1
  <1> QED
    BY <1>8, <1>9 DEF last

(* After n steps of a daily rule: either there is no occurrence left, or   *)
(* n days have gone by.                                                    *)
NoneLeft(rule, p, t) ==
    \A o \in Int : Occurs(rule, o) /\ o <= t /\ Day(o) > Day(YearBefore(t)) => o <= p

Reached(rule, t, n) ==
    LET p == Walk(rule, t)[n]
    IN  /\ p \in Int /\ p >= YearBefore(t) /\ p <= t
        /\ p = YearBefore(t) \/ Occurs(rule, p)
        /\ NoneLeft(rule, p, t) \/ Day(p) >= Day(YearBefore(t)) + n

LEMMA YearEarlier ==
    ASSUME NEW t \in Int
    PROVE  /\ YearBefore(t) \in Int /\ YearBefore(t) <= t
           /\ Day(t) = Day(YearBefore(t)) + DaysPerYear
  <1> DEFINE s == YearBefore(t)
             d == Day(s)
             h == Hour(s)
             H == HoursPerDay
             Y == DaysPerYear
  <1>1. H \in Nat /\ Y \in Nat /\ Y * H \in Nat
    BY CalendarAssumption
  <1>2. s \in Int /\ t = s + Y * H /\ s <= t
    BY <1>1 DEF YearBefore
  <1> HIDE DEF s
  <1>3. d \in Int /\ h \in 0..(H - 1) /\ s = d * H + h
    BY <1>2, DayAndHour
  <1>4. Day((d + Y) * H + h) = d + Y
    BY <1>1, <1>3, TimeOf
  <1>5. t = (d + Y) * H + h
    <2>1. h \in Int
      BY <1>3, <1>1
    <2> HIDE DEF d, h, H, Y
    <2>2. (d * H + h) + Y * H = (d + Y) * H + h
      BY <1>1, <1>3, <2>1
    <2> QED
      BY <1>2, <1>3, <2>2
  <1> QED
    BY <1>2, <1>4, <1>5 DEF s

LEMMA StepReaches ==
    ASSUME NEW rule, Plain(rule), rule.freq = "DAILY", IsUntil(rule.until), NEW t \in Int,
           NEW n \in 0..(MaxIterations - 1), Reached(rule, t, n)
    PROVE  Reached(rule, t, n + 1)
  <1> DEFINE p == Walk(rule, t)[n]
             q == Walk(rule, t)[n + 1]
             s == YearBefore(t)
  <1>0. MaxIterations \in Nat /\ n \in Nat /\ n + 1 \in 1..MaxIterations
        /\ s \in Int /\ Day(t) = Day(s) + DaysPerYear
        /\ DaysPerYear \in Nat /\ MaxIterations > DaysPerYear
    BY CalendarAssumption, YearEarlier
  <1>1. /\ p \in Int /\ p >= s /\ p <= t
        /\ p = s \/ Occurs(rule, p)
        /\ NoneLeft(rule, p, t) \/ Day(p) >= Day(s) + n
    BY DEF Reached
  <1>2. q = GoOn(rule, p, t)
    <2>1. (n + 1) - 1 = n
      BY <1>0
    <2>2. Walk(rule, t)[n + 1] = GoOn(rule, Walk(rule, t)[(n + 1) - 1], t)
      BY <1>0, WalkEquation
    <2> QED
      BY <2>1, <2>2
  <1> SUFFICES /\ q \in Int /\ q >= s /\ q <= t
               /\ q = s \/ Occurs(rule, q)
               /\ NoneLeft(rule, q, t) \/ Day(q) >= Day(s) + (n + 1)
    BY DEF Reached
  <1> HIDE DEF p, q, s
  <1>3. /\ q \in Int
        /\ \/ q = p /\ NextUntil(rule, p, t) = {}
           \/ /\ Occurs(rule, q) /\ q <= t /\ q > p
              /\ Day(q) >= Day(p) + 1
    BY <1>1, <1>2, GoOnStep
  <1>4. CASE q = p /\ NextUntil(rule, p, t) = {}
    <2>1. ASSUME NEW o \in Int, Occurs(rule, o), o <= t, Day(o) > Day(s)
          PROVE  o <= p
      <3> SUFFICES ASSUME o > p
                   PROVE  FALSE
        BY <1>1
      <3> DEFINE i == Day(o) - Day(p)
      <3>1. /\ Day(o) \in Int /\ Day(p) \in Int /\ Day(s) \in Int /\ Day(t) \in Int
            /\ Day(p) <= Day(o) /\ Day(o) <= Day(t) /\ Day(s) <= Day(p)
        BY <1>0, <1>1, <2>1, DayAndHour, LaterHasLaterDay
      <3>2. Day(o) # Day(p)
        <4>1. CASE p = s
          BY <2>1, <3>1, <4>1
        <4>2. CASE Occurs(rule, p)
          <5>1. Hour(p) = Hour(o)
            BY <2>1, <4>2, PlainRule DEF Occurs
          <5> QED
            BY <1>1, <5>1, LaterHasLaterDay
        <4> QED
          BY <1>1, <4>1, <4>2
      <3>3. i \in 1..MaxIterations /\ Day(o) = Day(p) + i * Stride(rule)
        <4>1. Stride(rule) = 1
          BY PlainRule
        <4>2. i \in 1..MaxIterations
          BY <1>0, <3>1, <3>2
        <4> QED
          BY <1>0, <3>1, <4>1, <4>2
      <3> HIDE DEF i
      <3>4. PICK x \in GetNextOccurrence(rule, p) : x <= o
        BY <1>1, <2>1, <3>3, NextIsFirst
      <3>5. x \in Int
        BY <1>1, <3>4, NextOccurs
      <3> QED
        BY <1>4, <2>1, <3>4, <3>5 DEF NextUntil
    <2>2. NoneLeft(rule, q, t)
      BY <1>4, <2>1 DEF NoneLeft, s
    <2> QED
      BY <1>1, <1>4, <2>2
  <1>5. CASE Occurs(rule, q) /\ q <= t /\ q > p /\ Day(q) >= Day(p) + 1
    <2>1. q >= s
      BY <1>0, <1>1, <1>3, <1>5
    <2>2. CASE NoneLeft(rule, p, t)
      BY <1>1, <1>3, <1>5, <2>1, <2>2 DEF NoneLeft
    <2>3. CASE Day(p) >= Day(s) + n
      BY <1>0, <1>1, <1>3, <1>5, <2>1, <2>3, DayAndHour
    <2> QED
      BY <1>1, <2>2, <2>3
  <1> QED
    BY <1>3, <1>4, <1>5

LEMMA WalkReaches ==
    ASSUME NEW rule, Plain(rule), rule.freq = "DAILY", IsUntil(rule.until), NEW t \in Int
    PROVE  Reached(rule, t, MaxIterations)
  <1> DEFINE T == {n \in Nat : n <= MaxIterations => Reached(rule, t, n)}
  <1>0. MaxIterations \in Nat
    BY CalendarAssumption
  <1>1. 0 \in T
    <2>1. Walk(rule, t)[0] = YearBefore(t)
      BY WalkEquation
    <2>2. YearBefore(t) \in Int /\ YearBefore(t) <= t /\ Day(YearBefore(t)) \in Int
      BY YearEarlier, DayAndHour
    <2>3. Reached(rule, t, 0)
      BY <2>1, <2>2 DEF Reached
    <2> QED
      BY <2>3
  <1>2. ASSUME NEW n \in Nat, n \in T
        PROVE  n + 1 \in T
    <2> SUFFICES ASSUME n + 1 <= MaxIterations
                 PROVE  Reached(rule, t, n + 1)
      OBVIOUS
    <2>1. n \in 0..(MaxIterations - 1) /\ Reached(rule, t, n)
      BY <1>0, <1>2
    <2> QED
      BY <2>1, StepReaches
  <1> HIDE DEF T
  <1>3. MaxIterations \in T
    BY <1>0, <1>1, <1>2, Induction
  <1> QED
    BY <1>0, <1>3 DEF T

LEMMA DailyMembership ==
    ASSUME NEW rule, Plain(rule), rule.freq = "DAILY", IsUntil(rule.until), NEW t \in Int,
           NEW duration \in Int, duration <= (DaysPerYear - 1) * HoursPerDay
    PROVE  IsInMaintenanceWindow(rule, duration, t)
             <=> \E o \in (t - duration + 1)..t : Occurs(rule, o)
  <1> DEFINE p == Walk(rule, t)[MaxIterations]
             s == YearBefore(t)
  <1>0. /\ s \in Int /\ Day(t) = Day(s) + DaysPerYear
        /\ MaxIterations \in Nat /\ DaysPerYear \in Nat /\ HoursPerDay \in Nat \ {0}
        /\ MaxIterations > DaysPerYear
        /\ Day(s) \in Int /\ Day(t) \in Int
    BY CalendarAssumption, YearEarlier, DayAndHour
  <1>1. /\ p \in Int /\ p >= s /\ p <= t
        /\ p = s \/ Occurs(rule, p)
        /\ NoneLeft(rule, p, t) \/ Day(p) >= Day(s) + MaxIterations
    BY WalkReaches DEF Reached
  <1>2. IsInMaintenanceWindow(rule, duration, t) <=> p <= t /\ t < p + duration
    BY MembershipOfWalk
  <1> HIDE DEF p
  <1>3. duration <= t - s - HoursPerDay
    <2>1. s = t - DaysPerYear * HoursPerDay
      BY DEF YearBefore
    <2>2. (DaysPerYear - 1) * HoursPerDay = DaysPerYear * HoursPerDay - HoursPerDay
      BY <1>0
    <2>3. DaysPerYear * HoursPerDay \in Int
      BY <1>0
    <2> HIDE DEF s
    <2> QED
      BY <1>0, <2>1, <2>2, <2>3
  <1> HIDE DEF s
  <1>4. NoneLeft(rule, p, t)
    <2>1. Day(p) <= Day(t)
      BY <1>1, LaterHasLaterDay
    <2>2. Day(p) \in Int
      BY <1>1, DayAndHour
    <2> QED
      BY <1>0, <1>1, <2>1, <2>2
  <1>5. ASSUME t < p + duration
        PROVE  \E o \in (t - duration + 1)..t : Occurs(rule, o)
    <2>1. p # s
      BY <1>0, <1>3, <1>5
    <2> QED
      BY <1>1, <1>5, <2>1
  <1>6. ASSUME NEW o \in (t - duration + 1)..t, Occurs(rule, o)
        PROVE  t < p + duration
    <2>1. o \in Int /\ o <= t /\ o > t - duration
      OBVIOUS
    <2>2. Day(o) > Day(s)
      <3>1. o > s + HoursPerDay
        BY <1>0, <1>3, <2>1
      <3>2. Day(o) # Day(s)
        <4> SUFFICES ASSUME Day(o) = Day(s)
                     PROVE  FALSE
          OBVIOUS
        <4> DEFINE midnight == Day(s) * HoursPerDay
        <4>1. midnight \in Int /\ s = midnight + Hour(s) /\ o = midnight + Hour(o)
              /\ Hour(s) \in 0..(HoursPerDay - 1) /\ Hour(o) \in 0..(HoursPerDay - 1)
          BY <1>0, <2>1, DayAndHour
        <4> HIDE DEF midnight
        <4> QED
          BY <1>0, <3>1, <4>1
      <3>3. Day(s) <= Day(o) /\ Day(o) \in Int
        <4>1. s <= o
          BY <1>0, <2>1, <3>1
        <4>2. Day(o) \in Int
          BY <2>1, DayAndHour
        <4> QED
          BY <1>0, <2>1, <4>1, <4>2, LaterHasLaterDay
      <3> QED
        BY <1>0, <3>2, <3>3
    <2>3. o <= p
      BY <1>4, <1>6, <2>1, <2>2 DEF NoneLeft, s
    <2> QED
      BY <1>1, <2>1, <2>3
  <1> QED
    BY <1>1, <1>2, <1>5, <1>6

(* What lib/rrule.ts says of a daily rule is right, for every calendar and *)
(* every time, though it goes there step by step.                          *)
THEOREM MembershipIsAlwaysExact == Spec => []MembershipIsExact
  <1>1. TypeOK /\ EntriesAreReconciled => MembershipIsExact
    <2> SUFFICES ASSUME TypeOK, EntriesAreReconciled, NEW w \in Windows, NEW entry \in cached[w],
                        NEW rule \in entry.spec.rule, Plain(rule), rule.freq = "DAILY",
                        entry.duration <= (DaysPerYear - 1) * HoursPerDay
                 PROVE  IsInMaintenanceWindow(rule, entry.duration, now)
                          <=> \E o \in (now - entry.duration + 1)..now : Occurs(rule, o)
      BY DEF MembershipIsExact
    <2>1. now \in Int /\ entry.duration \in Int /\ IsUntil(rule.until)
      BY CachedEntry
    <2> QED
      BY <2>1, DailyMembership
  <1> QED
    BY <1>1, AlwaysReconciled, TypeCorrect, PTL
=============================================================================
