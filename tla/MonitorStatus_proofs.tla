------------------------ MODULE MonitorStatus_proofs ------------------------
(***************************************************************************)
(* Proofs about MonitorStatus, for any number of overlapping handlers, any *)
(* edits, checks, faults and restarts.                                     *)
(*                                                                         *)
(* ValidatedWasValid is not inductive: a handler in flight may be about to *)
(* write.  PromisesAreValid adds that the generation each of them is to    *)
(* call valid is so.  QuietStatusIsCurrent speaks only of moments at rest: *)
(* Correcting says of every other what is still on its way to put right a  *)
(* status that does not tell the current generation.                       *)
(***************************************************************************)
EXTENDS MonitorStatus, SequenceTheorems, TLAPS

-----------------------------------------------------------------------------
(* The type invariant.                                                     *)

LEMMA VersionsAppend ==
    ASSUME TypeOK, NEW worth \in Worth, versions' = Append(versions, worth)
    PROVE  /\ versions' \in Seq(Worth) /\ versions' # <<>>
           /\ Generation \in Nat \ {0}
           /\ Generation' = Generation + 1
           /\ \A g \in 1..Generation : versions'[g] = versions[g]
  BY AppendProperties, LenProperties, EmptySeq DEF TypeOK, Generation

LEMMA TypedStatus ==
    /\ Empty \in Status /\ Idle \in Call
    /\ \A s \in Status, n \in Nat : [s EXCEPT !.result = n] \in Status
  BY DEF Empty, Status, Idle, Call, Marks

LEMMA MarkedType ==
    ASSUME TypeOK, NEW call \in Call
    PROVE  Marked(call) \in Status
  <1> DEFINE old == IF call.read = NoStatus THEN Empty ELSE call.read
  <1>1. old \in Status
    BY TypedStatus DEF Call
  <1>2. TransitionTime(old, call.mark) \in {0, 1}
    BY <1>1 DEF TransitionTime, Status, TypeOK
  <1>3. call.mark \in Marks /\ call.gen \in Nat
    BY DEF Call
  <1>4. Marked(call) =
          [old EXCEPT !.valid = call.mark,
                      !.since = TransitionTime(old, call.mark),
                      !.observed = IF call.mark = "Validated" THEN call.gen ELSE @]
    BY DEF Marked
  <1> HIDE DEF old
  <1> QED
    BY <1>1, <1>2, <1>3, <1>4 DEF Status

LEMMA WriteType ==
    ASSUME TypeOK, NEW new \in Status, Write(new)
    PROVE  /\ status' \in Status /\ now' \in {0, 1}
           /\ inbox' \in Seq(1..Generation)
  <1>1. Generation \in 1..Generation
    BY LenProperties, EmptySeq DEF TypeOK, Generation
  <1>2. Append(inbox, Generation) \in Seq(1..Generation)
    BY <1>1, AppendProperties DEF TypeOK
  <1>3. now' \in {0, 1}
    BY DEF TypeOK, Write
  <1> QED
    BY <1>2, <1>3 DEF TypeOK, Write

LEMMA FailsType ==
    ASSUME TypeOK, NEW c \in Slots, Fails(c)
    PROVE  calls' \in [Slots -> Call]
  <1>1. calls[c] \in Call
    BY DEF TypeOK
  <1>2. [calls[c] EXCEPT !.mark = "ReconcileFailed", !.step = "get",
                         !.read = NoStatus, !.caught = TRUE] \in Call
    BY <1>1 DEF Call, Marks
  <1> QED
    BY <1>2, TypedStatus DEF TypeOK, Fails

LEMMA TypeStep == TypeOK /\ [Next]_vars => TypeOK'
  <1> SUFFICES ASSUME TypeOK, [Next]_vars
               PROVE  TypeOK'
    OBVIOUS
  <1>1. ASSUME NEW worth \in Worth, Edit(worth)
        PROVE  TypeOK'
    <2>1. /\ versions' \in Seq(Worth) /\ versions' # <<>>
          /\ Generation \in Nat \ {0} /\ Generation' = Generation + 1
      BY <1>1, VersionsAppend DEF Edit
    <2>2. 1..Generation \subseteq 1..Generation' /\ Generation + 1 \in 1..Generation'
      BY <2>1
    <2>3. inbox \in Seq(1..Generation')
      BY <2>2, SeqMonotonic DEF TypeOK
    <2>4. inbox' \in Seq(1..Generation')
      BY <1>1, <2>2, <2>3, AppendProperties DEF Edit
    <2> QED
      BY <1>1, <2>1, <2>4 DEF TypeOK, Edit
  <1>2. CASE CheckReports
    <2> DEFINE old == IF status = NoStatus THEN Empty ELSE status
    <2>1. old \in Status /\ checks + 1 \in Nat
      BY TypedStatus DEF TypeOK
    <2>2. [old EXCEPT !.result = checks + 1] \in Status
      BY <2>1, TypedStatus
    <2>3. Write([old EXCEPT !.result = checks + 1])
      BY <1>2 DEF CheckReports
    <2> HIDE DEF old
    <2>4. status' \in Status /\ now' \in {0, 1} /\ inbox' \in Seq(1..Generation)
      BY <2>2, <2>3, WriteType
    <2> QED
      BY <1>2, <2>1, <2>4 DEF TypeOK, CheckReports, Generation
  <1>3. ASSUME NEW c \in Slots, Deliver(c)
        PROVE  TypeOK'
    <2>1. Head(inbox) \in 1..Generation /\ Tail(inbox) \in Seq(1..Generation)
      BY <1>3, HeadTailProperties DEF TypeOK, Deliver
    <2>2. FirstMark[versions[Head(inbox)]] \in Marks
      BY <2>1, ElementOfSeq DEF TypeOK, Generation, Worth, FirstMark, Marks
    <2>3. calls' \in [Slots -> Call]
      <3>1. ASSUME NEW mark \in Marks, NEW late \in BOOLEAN
            PROVE  [gen |-> Head(inbox), mark |-> mark, step |-> "get",
                    read |-> NoStatus, caught |-> late] \in Call
        BY <2>1 DEF TypeOK, Generation, Call
      <3>2. (versions[Head(inbox)] = "malformed") \in BOOLEAN
        OBVIOUS
      <3> QED
        BY <1>3, <2>2, <3>1, <3>2 DEF TypeOK, Deliver
    <2> QED
      BY <1>3, <2>1, <2>3 DEF TypeOK, Deliver, Generation
  <1>4. ASSUME NEW c \in Slots, Get(c)
        PROVE  TypeOK'
    <2>1. [calls[c] EXCEPT !.step = "patch", !.read = status] \in Call
      BY DEF TypeOK, Call
    <2>2. calls' \in [Slots -> Call]
      BY <1>4, <2>1 DEF TypeOK, Get
    <2> QED
      BY <1>4, <2>2 DEF TypeOK, Get, Generation
  <1>5. ASSUME NEW c \in Slots, Patch(c)
        PROVE  TypeOK'
    <2>1. CASE status = NoStatus /\ Fails(c) /\ UNCHANGED <<status, inbox, now>>
      BY <1>5, <2>1, FailsType DEF TypeOK, Patch, Generation
    <2>2. CASE Write(Marked(calls[c])) /\ calls' = [calls EXCEPT ![c] = Idle]
      <3>1. status' \in Status /\ now' \in {0, 1} /\ inbox' \in Seq(1..Generation)
        BY <2>2, MarkedType, WriteType DEF TypeOK
      <3>2. calls' \in [Slots -> Call]
        BY <2>2, TypedStatus DEF TypeOK
      <3> QED
        BY <1>5, <3>1, <3>2 DEF TypeOK, Patch, Generation
    <2> QED
      BY <1>5, <2>1, <2>2 DEF Patch
  <1>6. ASSUME NEW c \in Slots, Fault(c)
        PROVE  TypeOK'
    <2>1. calls' \in [Slots -> Call]
      BY <1>6, FailsType DEF Fault
    <2>2. status' \in Status \cup {NoStatus} /\ now' \in {0, 1} /\ inbox' \in Seq(1..Generation)
      <3>1. CASE UNCHANGED <<status, inbox, now>>
        BY <3>1 DEF TypeOK
      <3>2. CASE Write(Marked(calls[c]))
        BY <3>2, MarkedType, WriteType DEF TypeOK
      <3> QED
        BY <1>6, <3>1, <3>2 DEF Fault
    <2> QED
      BY <1>6, <2>1, <2>2 DEF TypeOK, Fault, Generation
  <1>7. CASE Restart
    <2>1. Generation \in 1..Generation
      BY LenProperties, EmptySeq DEF TypeOK, Generation
    <2>2. calls' \in [Slots -> Call] /\ inbox' \in Seq(1..Generation)
      BY <1>7, <2>1, TypedStatus DEF TypeOK, Restart
    <2> QED
      BY <1>7, <2>2 DEF TypeOK, Restart, Generation
  <1>8. CASE UNCHANGED vars
    BY <1>8 DEF TypeOK, vars, Generation
  <1> QED
    BY <1>1, <1>2, <1>3, <1>4, <1>5, <1>6, <1>7, <1>8 DEF Next

(* Every variable keeps its type, generations of events included.          *)
THEOREM TypeCorrect == Spec => []TypeOK
  <1>1. Init => TypeOK
    <2> SUFFICES ASSUME Init
                 PROVE  TypeOK
      OBVIOUS
    <2>1. versions \in Seq(Worth) /\ versions # <<>> /\ Generation = 1
      <3>1. PICK worth \in Worth : versions = <<worth>>
        BY DEF Init
      <3> QED
        BY <3>1 DEF Generation
    <2>2. inbox \in Seq(1..Generation)
      BY <2>1 DEF Init
    <2> QED
      BY <2>1, <2>2, TypedStatus DEF Init, TypeOK
  <1> QED
    BY <1>1, TypeStep, PTL DEF Spec

-----------------------------------------------------------------------------
(* What a status calls valid is valid.                                     *)

WasValid(g) == g \in 1..Generation /\ versions[g] = "valid"

(* A handler that is to call a generation valid has seen that it is.       *)
PromisesAreValid ==
    /\ ValidatedWasValid
    /\ \A c \in Slots : calls[c].mark = "Validated" => WasValid(calls[c].gen)

(* What such a handler writes is therefore right.                          *)
LEMMA MarkedIsValid ==
    ASSUME TypeOK, PromisesAreValid, NEW c \in Slots,
           Marked(calls[c]).valid = "Validated"
    PROVE  WasValid(Marked(calls[c]).observed)
  <1> DEFINE call == calls[c]
             old == IF call.read = NoStatus THEN Empty ELSE call.read
  <1>1. call \in Call /\ old \in Status
    BY TypedStatus DEF TypeOK, Call
  <1>2. Marked(call) =
          [old EXCEPT !.valid = call.mark,
                      !.since = TransitionTime(old, call.mark),
                      !.observed = IF call.mark = "Validated" THEN call.gen ELSE @]
    BY DEF Marked
  <1> HIDE DEF old
  <1>3. Marked(call).valid = call.mark
    BY <1>1, <1>2 DEF Status
  <1>4. Marked(call).observed = IF call.mark = "Validated" THEN call.gen ELSE old.observed
    BY <1>1, <1>2 DEF Status
  <1> QED
    BY <1>3, <1>4 DEF PromisesAreValid

LEMMA PromisesStep == TypeOK /\ PromisesAreValid /\ [Next]_vars => PromisesAreValid'
  <1> SUFFICES ASSUME TypeOK, PromisesAreValid, [Next]_vars
               PROVE  PromisesAreValid'
    OBVIOUS
  <1>0. ASSUME NEW c \in Slots, Fails(c)
        PROVE  \A d \in Slots : calls'[d].mark = "Validated" =>
                   calls[d].mark = "Validated" /\ calls'[d].gen = calls[d].gen
    <2>1. calls[c] \in Call
      BY DEF TypeOK
    <2>2. calls'[c].mark = "ReconcileFailed"
      BY <1>0, <2>1 DEF TypeOK, Fails, Idle, Call
    <2>3. \A d \in Slots \ {c} : calls'[d] = calls[d]
      BY <1>0 DEF TypeOK, Fails
    <2> QED
      BY <2>2, <2>3
  <1>1. ASSUME NEW worth \in Worth, Edit(worth)
        PROVE  PromisesAreValid'
    <2>1. ASSUME NEW g, WasValid(g)
          PROVE  WasValid(g)'
      <3>1. /\ Generation \in Nat /\ Generation' = Generation + 1
            /\ \A i \in 1..Generation : versions'[i] = versions[i]
        BY <1>1, VersionsAppend DEF Edit
      <3>2. 1..Generation \subseteq 1..Generation'
        BY <3>1
      <3> QED
        BY <2>1, <3>1, <3>2 DEF WasValid
    <2> QED
      BY <1>1, <2>1 DEF PromisesAreValid, ValidatedWasValid, Edit, WasValid
  <1>2. CASE CheckReports
    <2> DEFINE old == IF status = NoStatus THEN Empty ELSE status
    <2>1. old \in Status
      BY TypedStatus DEF TypeOK
    <2>2. status' = [old EXCEPT !.result = checks + 1]
      BY <1>2 DEF CheckReports, Write
    <2>3. status'.valid = old.valid /\ status'.observed = old.observed
      BY <2>1, <2>2 DEF Status
    <2>4. old.valid = "Validated" => old = status
      BY DEF Empty
    <2> HIDE DEF old
    <2> QED
      BY <1>2, <2>3, <2>4 DEF PromisesAreValid, ValidatedWasValid, CheckReports, WasValid, Generation
  <1>3. ASSUME NEW c \in Slots, Deliver(c)
        PROVE  PromisesAreValid'
    <2>1. Head(inbox) \in 1..Generation
      BY <1>3, HeadTailProperties DEF TypeOK, Deliver
    <2>2. calls'[c].mark = "Validated" => WasValid(calls'[c].gen)
      <3>1. versions[Head(inbox)] \in Worth
        BY <2>1, ElementOfSeq DEF TypeOK, Generation
      <3>2. calls'[c].mark = FirstMark[versions[Head(inbox)]] /\ calls'[c].gen = Head(inbox)
        BY <1>3 DEF TypeOK, Deliver
      <3> QED
        BY <1>3, <2>1, <3>1, <3>2 DEF Deliver, Worth, FirstMark, WasValid, Generation
    <2>3. \A d \in Slots \ {c} : calls'[d] = calls[d]
      BY <1>3 DEF TypeOK, Deliver
    <2> QED
      BY <1>3, <2>2, <2>3 DEF PromisesAreValid, ValidatedWasValid, Deliver, WasValid, Generation
  <1>4. ASSUME NEW c \in Slots, Get(c)
        PROVE  PromisesAreValid'
    <2>1. \A d \in Slots : calls'[d].mark = calls[d].mark /\ calls'[d].gen = calls[d].gen
      BY <1>4 DEF TypeOK, Get, Call
    <2> QED
      BY <1>4, <2>1 DEF PromisesAreValid, ValidatedWasValid, Get, WasValid, Generation
  <1>5. ASSUME NEW c \in Slots, Patch(c)
        PROVE  PromisesAreValid'
    <2>1. CASE status = NoStatus /\ Fails(c) /\ UNCHANGED <<status, inbox, now>>
      BY <1>5, <2>1, <1>0 DEF PromisesAreValid, ValidatedWasValid, Patch, WasValid, Generation
    <2>2. CASE Write(Marked(calls[c])) /\ calls' = [calls EXCEPT ![c] = Idle]
      <3>1. status' = Marked(calls[c])
        BY <2>2 DEF Write
      <3>2. \A d \in Slots : calls'[d] = calls[d] \/ calls'[d].mark = "ReconcileFailed"
        BY <2>2 DEF TypeOK, Idle
      <3> QED
        BY <1>5, <3>1, <3>2, MarkedIsValid
           DEF PromisesAreValid, ValidatedWasValid, Patch, WasValid, Generation
    <2> QED
      BY <1>5, <2>1, <2>2 DEF Patch
  <1>6. ASSUME NEW c \in Slots, Fault(c)
        PROVE  PromisesAreValid'
    <2>1. status' = status \/ status' = Marked(calls[c])
      BY <1>6 DEF Fault, Write
    <2> QED
      BY <1>6, <2>1, <1>0, MarkedIsValid
         DEF PromisesAreValid, ValidatedWasValid, Fault, WasValid, Generation
  <1>7. CASE Restart
    BY <1>7 DEF PromisesAreValid, ValidatedWasValid, Restart, Idle, WasValid, Generation
  <1>8. CASE UNCHANGED vars
    BY <1>8 DEF PromisesAreValid, ValidatedWasValid, vars, WasValid, Generation
  <1> QED
    BY <1>1, <1>2, <1>3, <1>4, <1>5, <1>6, <1>7, <1>8 DEF Next

(* A status that calls a generation valid is right about it, however many  *)
(* handlers overlap, whatever fails and however late a handler writes.     *)
THEOREM ValidatedGenerationsAreValid == Spec => []ValidatedWasValid
  <1>1. Init => PromisesAreValid
    <2>1. NoStatus.valid # "Validated"
      BY DEF NoStatus, Empty
    <2>2. Idle.mark # "Validated"
      BY DEF Idle
    <2> QED
      BY <2>1, <2>2 DEF Init, PromisesAreValid, ValidatedWasValid
  <1>2. PromisesAreValid => ValidatedWasValid
    BY DEF PromisesAreValid
  <1> QED
    BY <1>1, <1>2, TypeCorrect, PromisesStep, PTL DEF Spec
-----------------------------------------------------------------------------
(* What a quiet status says of the current spec.                           *)

IsCurrent ==
    IF versions[Generation] = "valid" THEN status.valid = "Validated" /\ status.observed = Generation
    ELSE status.valid # "Validated"

(* Someone is still to mark the object as the current spec deserves: an    *)
(* event about it is on its way, or a handler of it that has not failed,   *)
(* which is in the catch block from the start if the spec is malformed.    *)
EventIsComing == \E i \in 1..Len(inbox) : inbox[i] = Generation
FreshCall(c) ==
    calls[c].gen = Generation /\ (calls[c].caught => versions[Generation] = "malformed")

(* After one failure, any handler that is to call the object invalid will  *)
(* do, if the validator rejects the spec.                                  *)
Refusing(c) == calls[c] # Idle /\ calls[c].mark # "Validated"

CallsAreKnown ==
    \A c \in Slots : calls[c] # Idle =>
        /\ calls[c].gen \in 1..Generation
        /\ calls[c].mark = IF calls[c].caught THEN "ReconcileFailed"
                           ELSE FirstMark[versions[calls[c].gen]]

WrongIsCorrected ==
    faults = 0 /\ status # NoStatus /\ ~IsCurrent =>
        EventIsComing \/ \E c \in Slots : FreshCall(c)

ValidatedIsRefused ==
    faults <= 1 /\ versions[Generation] = "rejected" /\ status.valid = "Validated" =>
        EventIsComing \/ \E c \in Slots : Refusing(c)

Correcting == CallsAreKnown /\ WrongIsCorrected /\ ValidatedIsRefused

LEMMA MarkedFields ==
    ASSUME TypeOK, NEW call \in Call
    PROVE  /\ Marked(call) \in Status
           /\ Marked(call).valid = call.mark
           /\ call.mark = "Validated" => Marked(call).observed = call.gen
  <1> DEFINE old == IF call.read = NoStatus THEN Empty ELSE call.read
  <1>1. old \in Status
    BY TypedStatus DEF Call
  <1>2. Marked(call) =
          [old EXCEPT !.valid = call.mark,
                      !.since = TransitionTime(old, call.mark),
                      !.observed = IF call.mark = "Validated" THEN call.gen ELSE @]
    BY DEF Marked
  <1> HIDE DEF old
  <1>3. Marked(call).valid = call.mark /\ (call.mark = "Validated" => Marked(call).observed = call.gen)
    BY <1>1, <1>2 DEF Status
  <1> QED
    BY <1>3, MarkedType

LEMMA NothingIsNotValidated == NoStatus.valid # "Validated" /\ NoStatus \notin Status
  <1>1. NoStatus.valid = "no status"
    BY DEF NoStatus, Empty
  <1> QED
    BY <1>1 DEF Status, Marks

(* A write that changes the status sends an event about the current spec,  *)
(* and no write takes one away.                                            *)
LEMMA WriteSendsEvent ==
    ASSUME TypeOK, NEW new, Write(new), versions' = versions
    PROVE  /\ status' = new
           /\ status' = status \/ EventIsComing'
           /\ EventIsComing => EventIsComing'
  <1>1. Generation \in 1..Generation /\ Generation' = Generation
    BY LenProperties, EmptySeq DEF TypeOK, Generation
  <1>2. inbox \in Seq(1..Generation) /\ Len(inbox) \in Nat
    BY LenProperties DEF TypeOK
  <1>3. CASE new = status
    BY <1>1, <1>3 DEF Write, EventIsComing
  <1>4. CASE new # status
    <2>1. /\ Len(inbox') = Len(inbox) + 1 /\ inbox'[Len(inbox) + 1] = Generation
      BY <1>1, <1>2, <1>4, AppendProperties DEF Write
    <2>2. Len(inbox) + 1 \in 1..Len(inbox')
      BY <1>2, <2>1
    <2> QED
      BY <1>1, <2>1, <2>2 DEF Write, EventIsComing
  <1> QED
    BY <1>3, <1>4

LEMMA FailsKeepsOthers ==
    ASSUME TypeOK, NEW c \in Slots, calls[c] # Idle, Fails(c)
    PROVE  /\ \A d \in Slots \ {c} : calls'[d] = calls[d]
           /\ calls[c].caught => calls'[c] = Idle
           /\ ~calls[c].caught => /\ calls'[c].gen = calls[c].gen
                                  /\ calls'[c].caught
                                  /\ calls'[c].mark = "ReconcileFailed"
  <1>1. calls[c] \in Call /\ calls \in [Slots -> Call]
    BY DEF TypeOK
  <1> QED
    BY <1>1 DEF Fails, Call

LEMMA CorrectingStep == TypeOK /\ Correcting /\ [Next]_vars => Correcting'
  <1> SUFFICES ASSUME TypeOK, Correcting, [Next]_vars
               PROVE  Correcting'
    OBVIOUS
  <1> USE DEF Correcting
  <1>0. /\ Generation \in Nat \ {0} /\ inbox \in Seq(1..Generation) /\ Len(inbox) \in Nat
        /\ calls \in [Slots -> Call] /\ faults \in Nat
        /\ Idle.caught /\ Idle.gen = 0 /\ Idle.mark = "ReconcileFailed"
    BY LenProperties, EmptySeq DEF TypeOK, Generation, Idle
  <1>1. ASSUME NEW worth \in Worth, Edit(worth)
        PROVE  Correcting'
    <2>1. /\ Generation' = Generation + 1 /\ \A g \in 1..Generation : versions'[g] = versions[g]
          /\ UNCHANGED <<calls, status, faults>>
      BY <1>1, VersionsAppend DEF Edit
    <2>2. EventIsComing'
      <3>1. inbox' = Append(inbox, Generation + 1) /\ inbox \in Seq(1..(Generation + 1))
        BY <1>0, <1>1, SeqMonotonic DEF Edit
      <3>2. Len(inbox') = Len(inbox) + 1 /\ inbox'[Len(inbox) + 1] = Generation + 1
        BY <1>0, <3>1, AppendProperties
      <3> QED
        BY <1>0, <2>1, <3>2 DEF EventIsComing
    <2>3. CallsAreKnown'
      <3> SUFFICES ASSUME NEW c \in Slots, calls[c] # Idle
                   PROVE  /\ calls[c].gen \in 1..(Generation + 1)
                          /\ calls[c].mark = IF calls[c].caught THEN "ReconcileFailed"
                                             ELSE FirstMark[versions'[calls[c].gen]]
        BY <2>1 DEF CallsAreKnown, Idle, NoStatus, Empty
      <3>1. calls[c].gen \in 1..Generation
        BY DEF CallsAreKnown
      <3> QED
        BY <1>0, <2>1, <3>1 DEF CallsAreKnown
    <2> QED
      BY <2>2, <2>3 DEF WrongIsCorrected, ValidatedIsRefused
  <1>2. CASE CheckReports
    <2> DEFINE old == IF status = NoStatus THEN Empty ELSE status
               new == [old EXCEPT !.result = checks + 1]
    <2>1. old \in Status
      BY TypedStatus DEF TypeOK
    <2>2. Write(new) /\ UNCHANGED <<versions, calls, faults>>
      BY <1>2 DEF CheckReports
    <2> HIDE DEF new
    <2>3. status' = status \/ EventIsComing'
      BY <2>2, WriteSendsEvent
    <2>4. EventIsComing => EventIsComing'
      BY <2>2, WriteSendsEvent
    <2>5. CallsAreKnown'
      BY <2>2 DEF CallsAreKnown, Generation
    <2>6. CASE EventIsComing'
      BY <2>5, <2>6 DEF WrongIsCorrected, ValidatedIsRefused
    <2>7. CASE status' = status
      BY <2>2, <2>4, <2>5, <2>7
         DEF WrongIsCorrected, ValidatedIsRefused, IsCurrent, FreshCall, Refusing, Generation
    <2> QED
      BY <2>3, <2>6, <2>7
  <1>3. ASSUME NEW c \in Slots, Deliver(c)
        PROVE  Correcting'
    <2> DEFINE g == Head(inbox)
    <2>1. /\ UNCHANGED <<versions, status, faults>> /\ Generation' = Generation
          /\ calls[c] = Idle /\ inbox # <<>> /\ inbox' = Tail(inbox)
      BY <1>3 DEF Deliver, Generation
    <2>2. /\ g \in 1..Generation /\ g = inbox[1] /\ Len(inbox') = Len(inbox) - 1 /\ Len(inbox) # 0
          /\ \A i \in 1..Len(inbox') : inbox'[i] = inbox[i + 1]
      BY <1>0, <2>1, HeadTailProperties, EmptySeq
    <2>3. /\ calls'[c].gen = g /\ calls'[c].caught = (versions[g] = "malformed")
          /\ calls'[c].mark = FirstMark[versions[g]] /\ calls'[c] # Idle
      BY <1>0, <1>3, <2>2 DEF Deliver
    <2>4. \A d \in Slots \ {c} : calls'[d] = calls[d]
      BY <1>0, <1>3 DEF Deliver
    <2> HIDE DEF g
    <2>5. CallsAreKnown'
      <3>1. versions[g] = "malformed" => calls'[c].mark = "ReconcileFailed"
        BY <2>3 DEF FirstMark
      <3>2. calls'[c].mark = IF calls'[c].caught THEN "ReconcileFailed"
                             ELSE FirstMark[versions[g]]
        BY <2>3, <3>1
      <3> QED
        BY <2>1, <2>2, <2>3, <2>4, <3>2 DEF CallsAreKnown, Idle, NoStatus, Empty
    <2>6. EventIsComing => EventIsComing' \/ g = Generation
      <3> SUFFICES ASSUME NEW i \in 1..Len(inbox), inbox[i] = Generation
                   PROVE  EventIsComing' \/ g = Generation
        BY DEF EventIsComing
      <3>1. CASE i = 1
        BY <2>2, <3>1
      <3>2. CASE i # 1
        <4>1. i - 1 \in 1..Len(inbox') /\ inbox'[i - 1] = Generation
          BY <1>0, <2>2, <3>2
        <4> QED
          BY <2>1, <4>1 DEF EventIsComing
      <3> QED
        BY <3>1, <3>2
    <2>7. g = Generation => FreshCall(c)'
      BY <2>1, <2>3 DEF FreshCall
    <2>8. g = Generation /\ versions[Generation] = "rejected" => Refusing(c)'
      <3>1. FirstMark["rejected"] # "Validated"
        BY DEF FirstMark
      <3> QED
        BY <2>1, <2>3, <3>1 DEF Refusing, Idle, NoStatus, Empty
    <2>9. \A d \in Slots : /\ FreshCall(d) => FreshCall(d)'
                           /\ Refusing(d) => Refusing(d)'
      BY <1>0, <2>1, <2>4 DEF FreshCall, Refusing, Idle, NoStatus, Empty
    <2>10. WrongIsCorrected'
      BY <2>1, <2>6, <2>7, <2>9 DEF WrongIsCorrected, IsCurrent, NoStatus, Empty
    <2>11. ValidatedIsRefused'
      BY <2>1, <2>6, <2>8, <2>9 DEF ValidatedIsRefused
    <2> QED
      BY <2>5, <2>10, <2>11
  <1>4. ASSUME NEW c \in Slots, Get(c)
        PROVE  Correcting'
    <2>1. UNCHANGED <<versions, status, faults, inbox>> /\ Generation' = Generation
      BY <1>4 DEF Get, Generation
    <2>2. \A d \in Slots :
            /\ calls'[d].gen = calls[d].gen
            /\ calls'[d].caught = calls[d].caught
            /\ calls'[d].mark = calls[d].mark
      BY <1>0, <1>4 DEF Get, Call
    <2>3. calls'[c] # Idle /\ calls[c] # Idle
      <3>1. calls'[c].step = "patch"
        BY <1>0, <1>4 DEF Get, Call
      <3>2. Idle.step = "get"
        BY DEF Idle
      <3>3. calls[c] # Idle
        BY <1>4 DEF Get
      <3> QED
        BY <3>1, <3>2, <3>3
    <2>4. \A d \in Slots \ {c} : calls'[d] = calls[d]
      BY <1>0, <1>4 DEF Get
    <2>5. \A d \in Slots : calls'[d] # Idle <=> calls[d] # Idle
      BY <2>3, <2>4
    <2>6. CallsAreKnown'
      BY <2>1, <2>2, <2>5 DEF CallsAreKnown, Idle, NoStatus, Empty
    <2>7. \A d \in Slots : /\ FreshCall(d) => FreshCall(d)'
                           /\ Refusing(d) => Refusing(d)'
      BY <2>1, <2>2, <2>5 DEF FreshCall, Refusing, Idle, NoStatus, Empty
    <2>8. EventIsComing => EventIsComing'
      BY <2>1 DEF EventIsComing
    <2> QED
      BY <2>1, <2>6, <2>7, <2>8 DEF WrongIsCorrected, ValidatedIsRefused, IsCurrent, NoStatus, Empty
  <1>5. ASSUME NEW c \in Slots, Patch(c)
        PROVE  Correcting'
    <2>1. UNCHANGED <<versions, faults>> /\ Generation' = Generation /\ calls[c] # Idle
      BY <1>5 DEF Patch, Generation
    <2>2. CASE status = NoStatus /\ Fails(c) /\ UNCHANGED <<status, inbox, now>>
      <3>1. /\ \A d \in Slots \ {c} : calls'[d] = calls[d]
            /\ \/ calls'[c] = Idle
               \/ /\ calls'[c].gen = calls[c].gen /\ calls'[c].caught
                  /\ calls'[c].mark = "ReconcileFailed"
        <4>1. Fails(c) /\ calls[c] # Idle
          BY <2>1, <2>2
        <4> QED
          BY <4>1, FailsKeepsOthers
      <3>2. CallsAreKnown'
        BY <1>0, <2>1, <3>1 DEF CallsAreKnown, Idle, NoStatus, Empty
      <3>3. status' = NoStatus
        BY <2>2
      <3> QED
        BY <3>2, <3>3, NothingIsNotValidated
           DEF WrongIsCorrected, ValidatedIsRefused, NoStatus, Empty
    <2>3. CASE Write(Marked(calls[c])) /\ calls' = [calls EXCEPT ![c] = Idle]
      <3> DEFINE new == Marked(calls[c])
      <3>1. calls'[c] = Idle /\ \A d \in Slots \ {c} : calls'[d] = calls[d]
        BY <1>0, <2>3
      <3>2. CallsAreKnown'
        BY <1>0, <2>1, <3>1 DEF CallsAreKnown, Idle, NoStatus, Empty
      <3>3. /\ new.valid = calls[c].mark
            /\ calls[c].mark = "Validated" => new.observed = calls[c].gen
        BY <1>0, MarkedFields
      <3> HIDE DEF new
      <3>4. Write(new)
        BY <2>3 DEF new
      <3>5. /\ status' = new
            /\ status' = status \/ EventIsComing'
            /\ EventIsComing => EventIsComing'
        BY <2>1, <3>4, WriteSendsEvent
      <3>6. FreshCall(c) => IsCurrent'
        <4>1. versions[Generation] \in Worth
          BY <1>0, ElementOfSeq DEF TypeOK, Generation
        <4>2. calls[c].mark = IF calls[c].caught THEN "ReconcileFailed"
                              ELSE FirstMark[versions[calls[c].gen]]
          BY <2>1 DEF CallsAreKnown
        <4> QED
          BY <2>1, <3>3, <3>5, <4>1, <4>2 DEF FreshCall, IsCurrent, FirstMark, Worth
      <3>7. Refusing(c) => status'.valid # "Validated"
        BY <3>3, <3>5 DEF Refusing
      <3>8. \A d \in Slots \ {c} : /\ FreshCall(d) => FreshCall(d)'
                                   /\ Refusing(d) => Refusing(d)'
        BY <2>1, <3>1 DEF FreshCall, Refusing, Idle, NoStatus, Empty
      <3>9. WrongIsCorrected'
        BY <2>1, <3>5, <3>6, <3>8 DEF WrongIsCorrected, IsCurrent, NoStatus, Empty
      <3>10. ValidatedIsRefused'
        BY <2>1, <3>5, <3>7, <3>8 DEF ValidatedIsRefused
      <3> QED
        BY <3>2, <3>9, <3>10
    <2> QED
      BY <1>5, <2>2, <2>3 DEF Patch
  <1>6. ASSUME NEW c \in Slots, Fault(c)
        PROVE  Correcting'
    <2>1. /\ versions' = versions /\ faults' = faults + 1
          /\ Generation' = Generation /\ calls[c] # Idle /\ Fails(c)
      BY <1>6 DEF Fault, Generation
    <2>2. /\ \A d \in Slots \ {c} : calls'[d] = calls[d]
          /\ \/ calls'[c] = Idle
             \/ /\ ~calls[c].caught /\ calls'[c].gen = calls[c].gen
                /\ calls'[c].caught /\ calls'[c].mark = "ReconcileFailed"
          /\ ~calls[c].caught => calls'[c].gen = calls[c].gen /\ calls'[c].mark = "ReconcileFailed"
      BY <2>1, FailsKeepsOthers
    <2>3. CallsAreKnown'
      BY <1>0, <2>1, <2>2 DEF CallsAreKnown, Idle, NoStatus, Empty
    <2>4. /\ status' = status \/ EventIsComing'
          /\ EventIsComing => EventIsComing'
      <3>1. CASE UNCHANGED <<status, inbox, now>>
        BY <2>1, <3>1 DEF EventIsComing
      <3>2. CASE Write(Marked(calls[c]))
        <4> DEFINE new == Marked(calls[c])
        <4> HIDE DEF new
        <4>1. Write(new)
          BY <3>2 DEF new
        <4> QED
          BY <2>1, <4>1, WriteSendsEvent
      <3> QED
        BY <1>6, <3>1, <3>2 DEF Fault
    <2>5. ASSUME NEW d \in Slots, FreshCall(d), versions[Generation] = "rejected"
          PROVE  Refusing(d)'
      <3>1. calls[d].gen = Generation /\ ~calls[d].caught /\ calls[d] # Idle
        BY <1>0, <2>5 DEF FreshCall
      <3>2. calls[d].mark = "ValidationFailed"
        BY <2>5, <3>1 DEF CallsAreKnown, FirstMark
      <3>3. CASE d = c
        <4>1. calls'[c].gen = Generation /\ calls'[c].mark = "ReconcileFailed"
          BY <2>2, <3>1, <3>3
        <4>2. calls'[c] # Idle
          BY <1>0, <4>1
        <4> QED
          BY <3>3, <4>1, <4>2 DEF Refusing, Idle, NoStatus, Empty
      <3>4. CASE d # c
        BY <2>2, <3>1, <3>2, <3>4 DEF Refusing, Idle, NoStatus, Empty
      <3> QED
        BY <3>3, <3>4
    <2>6. WrongIsCorrected'
      BY <1>0, <2>1 DEF WrongIsCorrected
    <2>7. ValidatedIsRefused'
      <3> SUFFICES ASSUME faults' <= 1, versions[Generation] = "rejected", status'.valid = "Validated"
                   PROVE  EventIsComing' \/ \E d \in Slots : Refusing(d)'
        BY <2>1 DEF ValidatedIsRefused
      <3>1. CASE status' = status
        <4>1. faults = 0 /\ status # NoStatus /\ ~IsCurrent
          BY <1>0, <2>1, <3>1, NothingIsNotValidated DEF IsCurrent
        <4> QED
          BY <2>4, <2>5, <4>1 DEF WrongIsCorrected
      <3> QED
        BY <2>4, <3>1
    <2> QED
      BY <2>3, <2>6, <2>7
  <1>7. CASE Restart
    <2>1. /\ UNCHANGED <<versions, status, faults>> /\ inbox' = <<Generation>>
          /\ Generation' = Generation /\ \A c \in Slots : calls'[c] = Idle
      BY <1>7 DEF Restart, Generation
    <2>2. EventIsComing'
      BY <2>1 DEF EventIsComing
    <2>3. CallsAreKnown'
      BY <1>0, <2>1 DEF CallsAreKnown, Idle, NoStatus, Empty
    <2> QED
      BY <2>2, <2>3 DEF WrongIsCorrected, ValidatedIsRefused
  <1>8. CASE UNCHANGED vars
    BY <1>8 DEF vars, CallsAreKnown, WrongIsCorrected, ValidatedIsRefused, IsCurrent,
                EventIsComing, FreshCall, Refusing, Generation
  <1> QED
    BY <1>1, <1>2, <1>3, <1>4, <1>5, <1>6, <1>7, <1>8 DEF Next

(* Once no event and no handler is left, the status describes the current  *)
(* spec, if nothing failed; after one failure it still calls no spec valid *)
(* that the validator rejects.                                             *)
THEOREM QuietStatusTellsCurrent == Spec => []QuietStatusIsCurrent
  <1>1. Init => Correcting
    <2> SUFFICES ASSUME Init
                 PROVE  Correcting
      OBVIOUS
    <2>1. Generation = 1 /\ inbox = <<1>>
      BY DEF Init, Generation
    <2>2. EventIsComing
      BY <2>1 DEF EventIsComing
    <2>3. CallsAreKnown
      BY DEF Init, CallsAreKnown, Idle
    <2> QED
      BY <2>2, <2>3 DEF Correcting, WrongIsCorrected, ValidatedIsRefused
  <1>2. TypeOK /\ Correcting => QuietStatusIsCurrent
    <2> SUFFICES ASSUME TypeOK, Correcting, Quiet, status # NoStatus
                 PROVE  /\ versions[Generation] = "valid" /\ faults = 0 =>
                               status.valid = "Validated" /\ status.observed = Generation
                        /\ versions[Generation] = "rejected" /\ faults <= 1 =>
                               status.valid # "Validated"
                        /\ versions[Generation] = "malformed" /\ faults = 0 =>
                               status.valid # "Validated"
      BY DEF QuietStatusIsCurrent
    <2>1. ~EventIsComing
      BY DEF Quiet, EventIsComing
    <2>2. \A c \in Slots : ~FreshCall(c) /\ ~Refusing(c)
      <3>1. Idle.gen = 0 /\ Generation # 0
        BY LenProperties, EmptySeq DEF Idle, TypeOK, Generation
      <3>2. \A c \in Slots : calls[c] = Idle
        BY DEF Quiet
      <3> QED
        BY <3>1, <3>2 DEF FreshCall, Refusing
    <2> QED
      BY <2>1, <2>2 DEF Correcting, WrongIsCorrected, ValidatedIsRefused, IsCurrent
  <1> QED
    BY <1>1, <1>2, TypeCorrect, CorrectingStep, PTL DEF Spec
=============================================================================
