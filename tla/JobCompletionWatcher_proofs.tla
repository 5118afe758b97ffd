--------------------- MODULE JobCompletionWatcher_proofs ---------------------
(***************************************************************************)
(* Proofs about JobCompletionWatcher, for any Jobs, any number of keys     *)
(* remembered and any bounds.                                              *)
(*                                                                         *)
(* NoRepeatInWindow needs Newest: the keys remembered are those of the     *)
(* Jobs handled last.  ExportIsNotOlder needs Caught: what is on its way   *)
(* is about finished Jobs, whose own result does not change any more, and  *)
(* what was read is not older than that.                                   *)
(***************************************************************************)
EXTENDS JobCompletionWatcher, SequenceTheorems, TLAPS

-----------------------------------------------------------------------------
(* The type invariant.                                                     *)

LEMMA NotifyType ==
    ASSUME TypeOK, NEW j \in Jobs, Notify(j)
    PROVE  inbox' \in Seq(Jobs)
  BY AppendProperties DEF TypeOK, Notify

(* The keys that are kept are the newest.                                  *)
LEMMA PruneKeepsNewest ==
    ASSUME NEW keys \in Seq(Jobs)
    PROVE  /\ Prune(keys) \in Seq(Jobs)
           /\ Len(Prune(keys)) = IF Len(keys) > Keep THEN Keep ELSE Len(keys)
           /\ \A i \in 1..Len(Prune(keys)) :
                Prune(keys)[i] = keys[Len(keys) - Len(Prune(keys)) + i]
  <1>1. Len(keys) \in Nat /\ Keep \in Nat \ {0}
    BY LenProperties, KeepAssumption
  <1>2. CASE Len(keys) > Keep
    <2> DEFINE m == Len(keys) - Keep + 1
    <2>1. m \in Int /\ Len(keys) \in Int /\ m <= Len(keys) /\ Len(keys) - m + 1 = Keep
          /\ \A i \in 1..Keep : m + i - 1 = Len(keys) - Keep + i
      BY <1>1, <1>2
    <2>2. \A i \in m..Len(keys) : keys[i] \in Jobs
      BY <1>1, <1>2, ElementOfSeq
    <2>3. Prune(keys) = SubSeq(keys, m, Len(keys))
      BY <1>2 DEF Prune
    <2> HIDE DEF m
    <2>4. /\ SubSeq(keys, m, Len(keys)) \in Seq(Jobs)
          /\ Len(SubSeq(keys, m, Len(keys))) = Keep
          /\ \A i \in 1..Keep : SubSeq(keys, m, Len(keys))[i] = keys[m + i - 1]
      BY <2>1, <2>2, SubSeqProperties
    <2> QED
      BY <1>2, <2>1, <2>3, <2>4
  <1>3. CASE ~(Len(keys) > Keep)
    BY <1>1, <1>3 DEF Prune
  <1> QED
    BY <1>2, <1>3

LEMMA TypeStep == TypeOK /\ [Next]_vars => TypeOK'
  <1> SUFFICES ASSUME TypeOK, [Next]_vars
               PROVE  TypeOK'
    OBVIOUS
  <1>0. Len(results) \in Nat
    BY LenProperties DEF TypeOK
  <1> USE DEF jobVars, watchVars, exportVars
  <1>1. ASSUME NEW j \in Jobs, NEW verdict \in Verdicts, Report(j, verdict)
        PROVE  TypeOK'
    <2>1. results' \in Seq(Verdicts) /\ Len(results') = Len(results) + 1
      BY <1>1, AppendProperties DEF TypeOK, Report
    <2>2. own' \in [Jobs -> 0..Len(results')] /\ lastResult' \in 0..Len(results')
      BY <1>0, <1>1, <2>1 DEF TypeOK, Report
    <2> QED
      BY <1>1, <2>1, <2>2 DEF TypeOK, Report
  <1>2. ASSUME NEW j \in Jobs, Finish(j)
        PROVE  TypeOK'
    BY <1>2, NotifyType DEF TypeOK, Finish
  <1>3. ASSUME NEW j \in Jobs, Touch(j)
        PROVE  TypeOK'
    BY <1>3, NotifyType DEF TypeOK, Touch
  <1>4. CASE StaleReplace
    BY <1>4 DEF TypeOK, StaleReplace
  <1>5. CASE Deliver
    <2>1. Head(inbox) \in Jobs /\ Tail(inbox) \in Seq(Jobs)
      BY <1>5, HeadTailProperties DEF TypeOK, Deliver
    <2>2. CASE UNCHANGED <<processed, handled, handlers>>
      BY <1>5, <2>1, <2>2 DEF TypeOK, Deliver
    <2>3. CASE ~IsProcessed(Head(inbox))
      <3>1. Append(processed, Head(inbox)) \in Seq(Jobs)
        BY <2>1, AppendProperties DEF TypeOK
      <3>2. processed' \in Seq(Jobs) /\ Len(processed') <= Keep
        <4>1. processed' = Prune(Append(processed, Head(inbox)))
          BY <1>5, <2>3 DEF Deliver
        <4>2. Len(Append(processed, Head(inbox))) \in Nat /\ Keep \in Nat
          BY <3>1, LenProperties, KeepAssumption
        <4> DEFINE keys == Append(processed, Head(inbox))
        <4> HIDE DEF keys
        <4>3. /\ Prune(keys) \in Seq(Jobs)
              /\ Len(Prune(keys)) = IF Len(keys) > Keep THEN Keep ELSE Len(keys)
          BY <3>1, PruneKeepsNewest DEF keys
        <4>4. processed' = Prune(keys) /\ Len(keys) \in Nat
          BY <4>1, <4>2 DEF keys
        <4> QED
          BY <4>2, <4>3, <4>4
      <3>3. handled' \in Seq(Jobs) /\ Len(handled) + 1 \in Nat
        <4>1. handled' = Append(handled, Head(inbox)) /\ handled \in Seq(Jobs)
          BY <1>5, <2>3 DEF TypeOK, Deliver
        <4> QED
          BY <2>1, <4>1, AppendProperties, LenProperties
      <3>4. handlers' \subseteq Handler
        BY <1>5, <2>1, <2>3, <3>3 DEF TypeOK, Deliver, Handler
      <3> QED
        BY <1>5, <2>1, <3>2, <3>3, <3>4 DEF TypeOK, Deliver
    <2> QED
      BY <1>5, <2>2, <2>3 DEF Deliver
  <1>6. ASSUME NEW h \in handlers, GetMonitor(h)
        PROVE  TypeOK'
    <2>1. h \in Handler /\ lastResult \in Nat
      BY <1>0, <1>6 DEF TypeOK
    <2>2. [h EXCEPT !.step = "record", !.read = lastResult] \in Handler
      BY <2>1 DEF Handler
    <2>3. handlers' \subseteq Handler
      BY <1>6, <2>2 DEF TypeOK, GetMonitor
    <2> QED
      BY <1>6, <2>3 DEF TypeOK, GetMonitor
  <1>7. ASSUME NEW h \in handlers, GetFails(h)
        PROVE  TypeOK'
    BY <1>7 DEF TypeOK, GetFails, Handler
  <1>8. ASSUME NEW h \in handlers, Record(h)
        PROVE  TypeOK'
    <2>1. handlers' \subseteq Handler /\ alerts' \in Nat
      BY <1>8 DEF TypeOK, Record
    <2>2. exports' \in Seq(Export)
      <3>1. [job |-> h.job, result |-> h.read] \in Export
        BY <1>8 DEF TypeOK, Handler, Export
      <3>2. \/ exports' = exports
            \/ exports' = Append(exports, [job |-> h.job, result |-> h.read])
        BY <1>8 DEF Record
      <3>3. exports \in Seq(Export)
        BY DEF TypeOK
      <3> QED
        BY <3>1, <3>2, <3>3, AppendProperties
    <2> QED
      BY <1>8, <2>1, <2>2 DEF TypeOK, Record
  <1>9. CASE CloseWatch
    <2>1. inbox' \in Seq(Jobs) /\ open' \in BOOLEAN
      BY <1>9, EmptySeq DEF CloseWatch
    <2> QED
      BY <1>9, <2>1 DEF TypeOK, CloseWatch
  <1>10. CASE Restart
    BY <1>10, EmptySeq, KeepAssumption DEF TypeOK, Restart
  <1>11. CASE UNCHANGED vars
    BY <1>11 DEF TypeOK, vars
  <1> QED
    BY <1>1, <1>2, <1>3, <1>4, <1>5, <1>6, <1>7, <1>8, <1>9, <1>10, <1>11 DEF Next

LEMMA InitType == Init => TypeOK
  BY EmptySeq, KeepAssumption DEF Init, TypeOK

(* Every variable keeps its type, and no more than Keep keys are kept.     *)
THEOREM TypeCorrect == Spec => []TypeOK
  BY InitType, TypeStep, PTL DEF Spec

-----------------------------------------------------------------------------
(* No repeat within the window of keys.                                    *)

Newest ==
    /\ Len(processed) = IF Len(handled) > Keep THEN Keep ELSE Len(handled)
    /\ \A i \in 1..Len(processed) :
        processed[i] = handled[Len(handled) - Len(processed) + i]

LEMMA NewestStep ==
    TypeOK /\ Newest /\ NoRepeatInWindow /\ [Next]_vars => Newest' /\ NoRepeatInWindow'
  <1> SUFFICES ASSUME TypeOK, Newest, NoRepeatInWindow, [Next]_vars
               PROVE  Newest' /\ NoRepeatInWindow'
    OBVIOUS
  <1>1. CASE UNCHANGED <<processed, handled>>
    BY <1>1 DEF Newest, NoRepeatInWindow
  <1>2. CASE Restart
    <2>1. Len(processed') = 0 /\ Len(handled') = 0 /\ Keep \in Nat
      BY <1>2, EmptySeq, KeepAssumption DEF Restart
    <2> QED
      BY <2>1 DEF Newest, NoRepeatInWindow
  <1>3. ASSUME Deliver, ~IsProcessed(Head(inbox))
        PROVE  Newest' /\ NoRepeatInWindow'
    <2> DEFINE x == Head(inbox)
               keys == Append(processed, x)
    <2>1. x \in Jobs
      BY <1>3, HeadTailProperties DEF TypeOK, Deliver
    <2>2. Len(processed) \in Nat /\ Len(handled) \in Nat /\ Keep \in Nat \ {0}
      BY LenProperties, KeepAssumption DEF TypeOK
    <2>3. /\ keys \in Seq(Jobs) /\ Len(keys) = Len(processed) + 1
          /\ \A i \in 1..Len(processed) : keys[i] = processed[i]
          /\ keys[Len(processed) + 1] = x
      BY <2>1, AppendProperties DEF TypeOK
    <2>4. /\ Len(handled') = Len(handled) + 1
          /\ \A i \in 1..Len(handled) : handled'[i] = handled[i]
          /\ handled'[Len(handled) + 1] = x
      <3>1. handled' = Append(handled, x) /\ handled \in Seq(Jobs)
        BY <1>3 DEF TypeOK, Deliver
      <3> HIDE DEF x
      <3> QED
        BY <2>1, <3>1, AppendProperties
    <2>5. processed' = Prune(keys)
      BY <1>3 DEF Deliver
    <2> HIDE DEF keys, x
    <2>6. /\ Len(processed') = IF Len(keys) > Keep THEN Keep ELSE Len(keys)
          /\ \A i \in 1..Len(processed') : processed'[i] = keys[Len(keys) - Len(processed') + i]
      BY <2>3, <2>5, PruneKeepsNewest
    <2>7. \A i \in 1..Len(keys) : keys[i] = handled'[Len(handled') - Len(keys) + i]
      <3> SUFFICES ASSUME NEW i \in 1..Len(keys)
                   PROVE  keys[i] = handled'[Len(handled') - Len(keys) + i]
        OBVIOUS
      <3>1. CASE i = Len(processed) + 1
        <4>1. Len(handled') - Len(keys) + i = Len(handled) + 1
          BY <2>2, <2>3, <2>4, <3>1
        <4> QED
          BY <2>3, <2>4, <3>1, <4>1
      <3>2. CASE i \in 1..Len(processed)
        <4>1. Len(handled') - Len(keys) + i = Len(handled) - Len(processed) + i
          BY <2>2, <2>3, <2>4, <3>2
        <4>2. Len(handled) - Len(processed) + i \in 1..Len(handled)
          BY <2>2, <3>2 DEF Newest
        <4> QED
          BY <2>3, <2>4, <3>2, <4>1, <4>2 DEF Newest
      <3> QED
        BY <2>2, <2>3, <3>1, <3>2
    <2>8. Newest'
      <3>1. Len(processed') = IF Len(handled') > Keep THEN Keep ELSE Len(handled')
        BY <2>2, <2>3, <2>4, <2>6 DEF Newest
      <3>2. ASSUME NEW i \in 1..Len(processed')
            PROVE  processed'[i] = handled'[Len(handled') - Len(processed') + i]
        <4>1. Len(keys) - Len(processed') + i \in 1..Len(keys)
          BY <2>2, <2>3, <2>6, <3>2
        <4>2. Len(handled') - Len(keys) + (Len(keys) - Len(processed') + i)
                = Len(handled') - Len(processed') + i
          BY <2>2, <2>3, <2>4, <2>6, <3>2
        <4> QED
          BY <2>6, <2>7, <3>2, <4>1, <4>2
      <3> QED
        BY <3>1, <3>2 DEF Newest
    <2>9. ASSUME NEW a \in 1..Len(handled), handled[a] = x
          PROVE  Len(handled) + 1 - a > Keep
      <3>1. \A i \in 1..Len(processed) : processed[i] # x
        BY <1>3 DEF IsProcessed, x
      <3>2. ~(a > Len(handled) - Len(processed))
        <4> SUFFICES ASSUME a > Len(handled) - Len(processed)
                     PROVE  FALSE
          OBVIOUS
        <4> DEFINE i == a - (Len(handled) - Len(processed))
        <4>1. i \in 1..Len(processed) /\ Len(handled) - Len(processed) + i = a
          BY <2>2
        <4> QED
          BY <2>9, <3>1, <4>1 DEF Newest
      <3> QED
        BY <2>2, <2>9, <3>2 DEF Newest
    <2>10. NoRepeatInWindow'
      <3> SUFFICES ASSUME NEW a \in 1..Len(handled'), NEW b \in 1..Len(handled'),
                          a < b, handled'[a] = handled'[b]
                   PROVE  b - a > Keep
        BY DEF NoRepeatInWindow
      <3>1. a \in 1..Len(handled) /\ handled'[a] = handled[a]
        BY <2>2, <2>4
      <3>2. CASE b = Len(handled) + 1
        <4>1. handled[a] = x
          BY <2>4, <3>1, <3>2
        <4>2. Len(handled) + 1 - a > Keep
          BY <2>9, <3>1, <4>1
        <4> QED
          BY <3>2, <4>2
      <3>3. CASE b \in 1..Len(handled)
        BY <2>4, <3>1, <3>3 DEF NoRepeatInWindow
      <3> QED
        BY <2>2, <2>4, <3>2, <3>3
    <2> QED
      BY <2>8, <2>10
  <1>4. \/ UNCHANGED <<processed, handled>>
        \/ Restart
        \/ Deliver /\ ~IsProcessed(Head(inbox))
    BY DEF Next, Report, Finish, Touch, StaleReplace, Deliver, GetMonitor, GetFails, Record,
           CloseWatch, vars, watchVars
  <1> QED
    BY <1>1, <1>2, <1>3, <1>4

(* However events are repeated and handlers overlap, no Job is handled     *)
(* again before Keep others were.                                          *)
THEOREM NoRepeatWithinWindow == Spec => []NoRepeatInWindow
  <1>1. Init => Newest /\ NoRepeatInWindow
    <2> SUFFICES ASSUME Init
                 PROVE  Newest /\ NoRepeatInWindow
      OBVIOUS
    <2>1. Len(processed) = 0 /\ Len(handled) = 0 /\ Keep \in Nat
      BY EmptySeq, KeepAssumption DEF Init
    <2> QED
      BY <2>1 DEF Newest, NoRepeatInWindow
  <1> QED
    BY <1>1, NewestStep, TypeCorrect, PTL DEF Spec
-----------------------------------------------------------------------------
(* No export is older than its Job's own result.                           *)

Finished(j) == phase[j] = "finished"

Caught ==
    /\ stale = 0 => lastResult = Len(results)
    /\ \A i \in 1..Len(inbox) : Finished(inbox[i])
    /\ \A h \in handlers :
        /\ Finished(h.job)
        /\ stale = 0 /\ h.step = "record" => h.read >= own[h.job]
    /\ \A i \in 1..Len(exports) : Finished(exports[i].job)
    /\ ExportIsNotOlder

(* What holds of finished Jobs is kept by a step that leaves them alone.   *)
LEMMA NotifyFinished ==
    ASSUME TypeOK, NEW j \in Jobs, Notify(j), phase' \in [Jobs -> {"running", "reported", "finished"}],
           \A k \in Jobs : Finished(k) => Finished(k)', Finished(j)',
           \A i \in 1..Len(inbox) : Finished(inbox[i])
    PROVE  \A i \in 1..Len(inbox') : phase'[inbox'[i]] = "finished"
  <1>1. inbox \in Seq(Jobs) /\ Len(inbox) \in Nat /\ \A i \in 1..Len(inbox) : inbox[i] \in Jobs
    BY LenProperties, ElementOfSeq DEF TypeOK
  <1>2. CASE inbox' = inbox
    BY <1>1, <1>2 DEF Finished
  <1>3. CASE inbox' = Append(inbox, j)
    <2>1. /\ Len(inbox') = Len(inbox) + 1
          /\ \A i \in 1..Len(inbox) : inbox'[i] = inbox[i]
          /\ inbox'[Len(inbox) + 1] = j
      BY <1>1, <1>3, AppendProperties
    <2> SUFFICES ASSUME NEW i \in 1..Len(inbox')
                 PROVE  phase'[inbox'[i]] = "finished"
      OBVIOUS
    <2>2. CASE i \in 1..Len(inbox)
      BY <1>1, <2>1, <2>2 DEF Finished
    <2>3. CASE i = Len(inbox) + 1
      BY <2>1, <2>3 DEF Finished
    <2> QED
      BY <1>1, <2>1, <2>2, <2>3
  <1> QED
    BY <1>2, <1>3 DEF Notify

LEMMA CaughtStep == TypeOK /\ Caught /\ [Next]_vars => Caught'
  <1> SUFFICES ASSUME TypeOK, Caught, [Next]_vars
               PROVE  Caught'
    OBVIOUS
  <1>0. /\ Len(results) \in Nat /\ Len(inbox) \in Nat /\ Len(exports) \in Nat
        /\ \A i \in 1..Len(inbox) : inbox[i] \in Jobs
        /\ \A i \in 1..Len(exports) : exports[i] \in Export
        /\ \A h \in handlers : h \in Handler
        /\ \A j \in Jobs : own[j] \in 0..Len(results)
    BY LenProperties, ElementOfSeq DEF TypeOK
  <1> USE DEF jobVars, watchVars, exportVars
  <1>1. ASSUME NEW j \in Jobs, NEW verdict \in Verdicts, Report(j, verdict)
        PROVE  Caught'
    <2>1. lastResult' = Len(results')
      BY <1>1, AppendProperties DEF TypeOK, Report
    <2>2. ASSUME NEW k \in Jobs, Finished(k)
          PROVE  phase'[k] = "finished" /\ own'[k] = own[k]
      BY <1>1, <2>2 DEF TypeOK, Report, Finished
    <2>3. UNCHANGED <<inbox, handlers, exports, stale>>
      BY <1>1 DEF Report
    <2>4. \A i \in 1..Len(exports) : exports[i].job \in Jobs
      BY <1>0 DEF Export
    <2>5. \A h \in handlers : h.job \in Jobs
      BY <1>0 DEF Handler
    <2>6. ExportIsNotOlder'
      BY <2>2, <2>3, <2>4 DEF Caught, ExportIsNotOlder
    <2> QED
      BY <1>0, <2>1, <2>2, <2>3, <2>4, <2>5, <2>6 DEF Caught, Finished
  <1>2. ASSUME NEW j \in Jobs, Finish(j) \/ Touch(j)
        PROVE  Caught'
    <2>1. /\ Notify(j) /\ Finished(j)'
          /\ UNCHANGED <<own, results, lastResult, handlers, exports, stale>>
      BY <1>2 DEF TypeOK, Finish, Touch, Finished
    <2>2. phase' \in [Jobs -> {"running", "reported", "finished"}]
      BY <1>2 DEF TypeOK, Finish, Touch
    <2>3. \A k \in Jobs : Finished(k) => Finished(k)'
      BY <1>2 DEF TypeOK, Finish, Touch, Finished
    <2>4. \A i \in 1..Len(inbox') : phase'[inbox'[i]] = "finished"
      BY <2>1, <2>2, <2>3, NotifyFinished DEF Caught
    <2>5. \A i \in 1..Len(exports) : exports[i].job \in Jobs
      BY <1>0 DEF Export
    <2>6. \A h \in handlers : h.job \in Jobs
      BY <1>0 DEF Handler
    <2> QED
      BY <2>1, <2>3, <2>4, <2>5, <2>6 DEF Caught, Finished, ExportIsNotOlder
  <1>3. CASE StaleReplace
    <2>1. stale' # 0 /\ UNCHANGED <<phase, inbox, handlers, exports>>
      BY <1>3 DEF TypeOK, StaleReplace
    <2> QED
      BY <2>1 DEF Caught, Finished, ExportIsNotOlder
  <1>4. CASE Deliver
    <2>1. /\ Len(inbox) # 0
          /\ inbox' = Tail(inbox) /\ inbox \in Seq(Jobs)
          /\ UNCHANGED <<phase, own, results, lastResult, exports, stale>>
      BY <1>4, EmptySeq DEF TypeOK, Deliver
    <2>2. Head(inbox) = inbox[1] /\ Len(inbox') = Len(inbox) - 1
          /\ \A i \in 1..Len(inbox') : inbox'[i] = inbox[i + 1]
      BY <1>4, HeadTailProperties DEF TypeOK, Deliver
    <2>3. \A i \in 1..Len(inbox') : phase'[inbox'[i]] = "finished"
      BY <1>0, <2>1, <2>2 DEF Caught, Finished
    <2>4. Finished(Head(inbox))
      BY <1>0, <2>1, <2>2 DEF Caught
    <2>5. \A h \in handlers' :
            \/ h \in handlers
            \/ h.job = Head(inbox) /\ h.step = "get"
      BY <1>4 DEF Deliver
    <2> QED
      BY <2>1, <2>3, <2>4, <2>5 DEF Caught, Finished, ExportIsNotOlder
  <1>5. ASSUME NEW h \in handlers, GetMonitor(h)
        PROVE  Caught'
    <2>1. UNCHANGED <<phase, own, results, lastResult, inbox, exports, stale>>
      BY <1>5 DEF GetMonitor
    <2> DEFINE g == [h EXCEPT !.step = "record", !.read = lastResult]
    <2>2. g.job = h.job /\ g.read = lastResult /\ h.job \in Jobs
      BY <1>0 DEF Handler
    <2>3. \A k \in handlers' : k \in handlers \/ k = g
      BY <1>5 DEF GetMonitor
    <2> HIDE DEF g
    <2>4. stale = 0 => g.read >= own[g.job]
      BY <1>0, <2>2 DEF Caught
    <2> QED
      BY <2>1, <2>2, <2>3, <2>4 DEF Caught, Finished, ExportIsNotOlder
  <1>6. ASSUME NEW h \in handlers, GetFails(h)
        PROVE  Caught'
    BY <1>6 DEF GetFails, Caught, Finished, ExportIsNotOlder
  <1>7. ASSUME NEW h \in handlers, Record(h)
        PROVE  Caught'
    <2>1. UNCHANGED <<phase, own, results, lastResult, inbox, stale>> /\ handlers' \subseteq handlers
      BY <1>7 DEF Record
    <2>2. CASE exports' = exports
      BY <2>1, <2>2 DEF Caught, Finished, ExportIsNotOlder
    <2>3. CASE exports' = Append(exports, [job |-> h.job, result |-> h.read])
      <3> DEFINE e == [job |-> h.job, result |-> h.read]
      <3>1. e \in Export /\ e.job = h.job /\ e.result = h.read
        BY <1>0 DEF Handler, Export
      <3>2. exports \in Seq(Export) /\ exports' = Append(exports, e)
        BY <2>3 DEF TypeOK
      <3> HIDE DEF e
      <3>3. /\ Len(exports') = Len(exports) + 1
            /\ \A i \in 1..Len(exports) : exports'[i] = exports[i]
            /\ exports'[Len(exports) + 1] = e
        BY <3>1, <3>2, AppendProperties
      <3>4. Finished(e.job) /\ (stale = 0 => e.result >= own[e.job])
        BY <1>7, <3>1 DEF Caught, Record
      <3>5. ASSUME NEW i \in 1..Len(exports')
            PROVE  Finished(exports'[i].job) /\ (stale = 0 => exports'[i].result >= own[exports'[i].job])
        <4>1. CASE i \in 1..Len(exports)
          BY <3>3, <4>1 DEF Caught, ExportIsNotOlder
        <4>2. CASE i = Len(exports) + 1
          BY <3>3, <3>4, <4>2
        <4> QED
          BY <1>0, <3>3, <4>1, <4>2
      <3> QED
        BY <2>1, <3>5 DEF Caught, Finished, ExportIsNotOlder
    <2> QED
      BY <1>7, <2>2, <2>3 DEF Record
  <1>8. CASE CloseWatch \/ Restart
    <2>1. /\ Len(inbox') = 0 /\ handlers' \subseteq handlers
          /\ UNCHANGED <<phase, own, results, lastResult, exports, stale>>
      BY <1>8, EmptySeq DEF CloseWatch, Restart
    <2> QED
      BY <2>1 DEF Caught, Finished, ExportIsNotOlder
  <1>9. CASE UNCHANGED vars
    BY <1>9 DEF vars, Caught, Finished, ExportIsNotOlder
  <1> QED
    BY <1>1, <1>2, <1>3, <1>4, <1>5, <1>6, <1>7, <1>8, <1>9 DEF Next

(* Unless a reconciler put an old status back, a finished Job is exported  *)
(* with its own result or a later one.                                     *)
THEOREM NoOlderExport == Spec => []ExportIsNotOlder
  <1>1. Init => Caught
    <2> SUFFICES ASSUME Init
                 PROVE  Caught
      OBVIOUS
    <2>1. Len(results) = 0 /\ Len(inbox) = 0 /\ Len(exports) = 0
      BY EmptySeq DEF Init
    <2> QED
      BY <2>1 DEF Init, Caught, ExportIsNotOlder
  <1>2. Caught => ExportIsNotOlder
    BY DEF Caught
  <1> QED
    BY <1>1, <1>2, CaughtStep, TypeCorrect, PTL DEF Spec
=============================================================================
