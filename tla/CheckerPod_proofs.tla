------------------------- MODULE CheckerPod_proofs -------------------------
(***************************************************************************)
(* Proofs about CheckerPod, for any monitors, any answers, any timeout and *)
(* any deadline.                                                           *)
(*                                                                         *)
(* A step of the pod is a step of SocketChecks or leaves it alone, so what *)
(* is proved of a check by itself holds of it in its pod.  The rest is     *)
(* about the phases: what each may have heard, opened, stored and exited   *)
(* with, and how long it may have taken; and about XPath, of which the     *)
(* code has a simplification that agrees with it where no element shares   *)
(* its name with a sibling: there each part of a path leads from one       *)
(* element to one or none, as each link of a chain does (by Induction).    *)
(***************************************************************************)
EXTENDS CheckerPod, SocketChecks_proofs, RecursionTheorems

(* A pod runs its check as SocketChecks has it, or some other one.         *)
LEMMA PodSteps == [PodNext]_allVars => [Next]_vars
  <1> SUFFICES ASSUME [PodNext]_allVars
               PROVE  Next \/ UNCHANGED vars
    OBVIOUS
  <1>1. CASE SocketBegins
    BY <1>1 DEF SocketBegins, Next
  <1>2. CASE SocketTimer
    BY <1>2 DEF SocketTimer, Next
  <1>3. CASE SocketStep
    BY <1>3 DEF SocketStep, Next
  <1>4. CASE UNCHANGED allVars
    BY <1>4 DEF allVars
  <1>5. CASE StepAnswers
    BY <1>5 DEF StepAnswers
  <1>6. CASE StepFails \/ StepTimesOut
    BY <1>6 DEF StepFails, StepTimesOut, Fails
  <1>7. CASE Tick \/ Start \/ LoadFails \/ Dispatch \/ Close \/ SocketReturns
    BY <1>7 DEF Tick, Start, LoadFails, Dispatch, Close, SocketReturns
  <1>8. CASE Apply \/ Exit \/ ReportFails \/ Kill \/ Crash
    BY <1>8 DEF Apply, Exit, ReportFails, Kill, Crash, Lose
  <1> QED
    BY <1>1, <1>2, <1>3, <1>4, <1>5, <1>6, <1>7, <1>8 DEF PodNext

(* The pod keeps what SocketChecks keeps.                                  *)
THEOREM PodRunsSocketChecks == PodSpec => Spec
  <1>1. PodInit => Init
    BY DEF PodInit
  <1> QED
    BY <1>1, PodSteps, PTL DEF PodSpec, Spec

-----------------------------------------------------------------------------
(* The steps of a check are a sequence, of at least one step if the check  *)
(* is a query, and with the request if it may require something of its     *)
(* response.                                                               *)
StepNames == {"resolve", "auth", "secret", "request", "content", "body", "call",
              "connect", "query", "exec", "read", "lookup"}

LEMMA Tuples ==
    ASSUME NEW S, NEW x \in S, NEW y \in S
    PROVE  /\ <<>> \in Seq(S) /\ Len(<<>>) = 0
           /\ <<x>> \in Seq(S) /\ Len(<<x>>) = 1 /\ <<x>>[1] = x
           /\ <<x, y>> \in Seq(S) /\ Len(<<x, y>>) = 2
  OBVIOUS

LEMMA NeededType ==
    ASSUME NEW t, NEW step \in StepNames
    PROVE  Needed(t, step) \in Seq(StepNames)
  BY Tuples DEF Needed

LEMMA HttpStepsType ==
    ASSUME NEW t
    PROVE  /\ HttpSteps(t) \in Seq(StepNames) /\ Len(HttpSteps(t)) \in Nat \ {0}
           /\ HttpSteps(t)[Len(HttpSteps(t))] = "request"
  <1> DEFINE before == Needed(t, "resolve") \o Needed(t, "auth") \o Needed(t, "secret")
  <1>1. /\ Needed(t, "resolve") \in Seq(StepNames) /\ Needed(t, "auth") \in Seq(StepNames)
        /\ Needed(t, "secret") \in Seq(StepNames)
    BY NeededType DEF StepNames
  <1>2. before \in Seq(StepNames)
    BY <1>1, ConcatProperties
  <1>3. HttpSteps(t) = before \o <<"request">>
    BY DEF HttpSteps, ResolveStep, AuthStep, SecretStep
  <1>4. <<"request">> \in Seq(StepNames) /\ Len(<<"request">>) = 1 /\ <<"request">>[1] = "request"
    BY Tuples DEF StepNames
  <1> HIDE DEF before
  <1>5. /\ before \o <<"request">> \in Seq(StepNames)
        /\ Len(before \o <<"request">>) = Len(before) + 1 /\ Len(before) \in Nat
        /\ (before \o <<"request">>)[Len(before) + 1] = "request"
    BY <1>2, <1>4, ConcatProperties, LenProperties
  <1> QED
    BY <1>3, <1>5

LEMMA KeywordStepsType ==
    ASSUME NEW t
    PROVE  /\ KeywordSteps(t) \in Seq(StepNames) /\ Len(KeywordSteps(t)) \in Nat
           /\ \E i \in 1..Len(KeywordSteps(t)) :
                i < Len(KeywordSteps(t)) /\ KeywordSteps(t)[i] = "request"
  <1>1. <<"content", "body">> \in Seq(StepNames) /\ Len(<<"content", "body">>) = 2
    BY Tuples DEF StepNames
  <1>2. /\ KeywordSteps(t) \in Seq(StepNames)
        /\ Len(KeywordSteps(t)) = Len(HttpSteps(t)) + 2
        /\ \A i \in 1..Len(HttpSteps(t)) : KeywordSteps(t)[i] = HttpSteps(t)[i]
    BY <1>1, HttpStepsType, ConcatProperties, LenProperties DEF KeywordSteps
  <1>3. /\ Len(HttpSteps(t)) \in 1..Len(KeywordSteps(t))
        /\ Len(HttpSteps(t)) < Len(KeywordSteps(t))
        /\ KeywordSteps(t)[Len(HttpSteps(t))] = "request"
    BY <1>2, HttpStepsType
  <1> QED
    BY <1>2, <1>3, HttpStepsType

LEMMA StepsType ==
    ASSUME NEW t \in Targets
    PROVE  /\ Steps(t) \in Seq(StepNames) /\ Len(Steps(t)) \in Nat
           /\ t.kind \in QueryKinds => Len(Steps(t)) > 0
           /\ t.requires # {} => \E i \in 1..Len(Steps(t)) : Steps(t)[i] = "request"
  <1>1. CASE t.kind = "http"
    <2>1. Steps(t) = HttpSteps(t)
      BY <1>1 DEF Steps, ContentKinds
    <2> QED
      BY <2>1, HttpStepsType
  <1>2. CASE t.kind \in ContentKinds
    <2>1. Steps(t) = KeywordSteps(t)
      BY <1>2 DEF Steps, ContentKinds
    <2> QED
      BY <2>1, KeywordStepsType
  <1>3. CASE t.kind = "grpc"
    <2>1. Steps(t) = Needed(t, "resolve") \o <<"call">>
      BY <1>3 DEF Steps, GrpcSteps, ResolveStep, ContentKinds
    <2>2. /\ Needed(t, "resolve") \in Seq(StepNames)
          /\ <<"call">> \in Seq(StepNames) /\ Len(<<"call">>) = 1
      BY NeededType, Tuples DEF StepNames
    <2>3. /\ Needed(t, "resolve") \o <<"call">> \in Seq(StepNames)
          /\ Len(Needed(t, "resolve") \o <<"call">>) = Len(Needed(t, "resolve")) + 1
          /\ Len(Needed(t, "resolve")) \in Nat
      BY <2>2, ConcatProperties, LenProperties
    <2>4. t.requires = {}
      BY <1>3, TargetsAssumption DEF ContentKinds
    <2> QED
      BY <2>1, <2>3, <2>4
  <1>4. CASE t.kind \notin {"http", "grpc"} \cup ContentKinds
    <2>1. t.requires = {}
      BY <1>4, TargetsAssumption
    <2>2. \/ Steps(t) \in {<<"connect", "query">>, <<"exec">>, <<"read">>, <<"lookup">>}
          \/ Steps(t) = <<>> /\ t.kind \notin QueryKinds
      BY <1>4 DEF Steps, PostgreSqlSteps, MySqlSteps, RedisSteps, PingSteps,
                  KubernetesSteps, DnsSteps, QueryKinds, ContentKinds
    <2>3. Steps(t) \in Seq(StepNames) /\ Len(Steps(t)) \in Nat
      BY <2>2, Tuples DEF StepNames
    <2>4. t.kind \in QueryKinds => Len(Steps(t)) > 0
      BY <2>2, Tuples DEF StepNames
    <2> QED
      BY <2>1, <2>3, <2>4
  <1> QED
    BY <1>1, <1>2, <1>3, <1>4

-----------------------------------------------------------------------------
(* The type invariant.                                                     *)

(* The verdict is pending as long as the pod works on it, and then is not; *)
(* an answer is there only once it has been judged.                        *)
Phases ==
    /\ phase \in {"pending", "loading", "checking"} => verdict = "pending" /\ answer = {}
    /\ phase \in {"closing", "reporting", "stored", "exited"} => verdict # "pending"
    /\ phase \in {"pending", "loading"} => heard = <<>> /\ ~open /\ stage = "new"
    /\ phase = "checking" /\ ~IsSocket =>
        target.kind \in QueryKinds /\ Len(heard) < Len(Steps(target))
    /\ IsSocket => ~open
    /\ ~IsSocket => stage = "new"

PodShape == PodTypeOK /\ Phases

LEMMA SettleShape ==
    ASSUME PodTypeOK, NEW v \in {"up", "down"}, Settle(v)
    PROVE  /\ phase' \in {"closing", "reporting"} /\ verdict' = v
           /\ open' \in BOOLEAN
           /\ open' => open /\ phase' = "closing"
  BY DEF PodTypeOK, Settle

LEMMA HeardGrows ==
    ASSUME PodTypeOK, NEW outcome \in {"answered", "failed"}, Awaiting,
           heard' = Append(heard, outcome), UNCHANGED target
    PROVE  /\ heard' \in Seq({"answered", "failed"}) /\ Len(heard') = Len(heard) + 1
           /\ Len(heard') <= Len(Steps(target')) /\ Len(heard) \in Nat
           /\ Len(Steps(target)) \in Nat
           /\ heard'[Len(heard) + 1] = outcome
           /\ \A i \in 1..Len(heard) : heard'[i] = heard[i]
  BY StepsType, AppendProperties, LenProperties DEF PodTypeOK, Awaiting

(* A step that is over leads to the next one or settles the check.         *)
LEMMA ProceedShape ==
    ASSUME PodTypeOK, NEW outcome \in {"answered", "failed"}, NEW given,
           Awaiting, Proceed(outcome, given), UNCHANGED target
    PROVE  /\ answer' = given /\ open' \in BOOLEAN
           /\ heard' = Append(heard, outcome)
           /\ \/ /\ phase' = "checking" /\ verdict' = verdict
                 /\ Len(heard') < Len(Steps(target))
              \/ /\ phase' \in {"closing", "reporting"} /\ verdict' \in {"up", "down"}
                 /\ open' => phase' = "closing"
  <1>1. Len(heard') = Len(heard) + 1 /\ Len(heard) \in Nat /\ Len(Steps(target)) \in Nat
    BY HeardGrows DEF Proceed
  <1>2. CASE Len(heard) + 1 < Len(Steps(target)) /\ UNCHANGED <<phase, verdict>>
    <2>1. open' = (open \/ Steps(target)[Len(heard) + 2] = Opens(target.kind))
      BY <1>1, <1>2 DEF Proceed
    <2>2. open' \in BOOLEAN
      BY <2>1, Zenon
    <2> QED
      BY <1>1, <1>2, <2>2 DEF Proceed, Awaiting
  <1>3. ASSUME NEW v \in {"up", "down"}, Settle(v)
        PROVE  /\ phase' \in {"closing", "reporting"} /\ verdict' \in {"up", "down"}
               /\ open' \in BOOLEAN /\ (open' => phase' = "closing")
    BY <1>3, SettleShape
  <1>4. CASE \E v \in {"up", "down"} : Settle(v)
    BY <1>3, <1>4 DEF Proceed
  <1>5. \/ Len(heard) + 1 < Len(Steps(target)) /\ UNCHANGED <<phase, verdict>>
        \/ \E v \in {"up", "down"} : Settle(v)
    BY DEF Proceed
  <1> QED
    BY <1>2, <1>4, <1>5

(* What every step that ends a step of the check leaves.                   *)
LEMMA HeardShape ==
    ASSUME PodShape, TypeOK', Awaiting, NEW outcome \in {"answered", "failed"},
           heard' = Append(heard, outcome), head' \subseteq target.requires,
           answer' \in {{}} \cup {{a} : a \in Answers[target.kind]},
           begun' \in {begun, elapsed}, open' \in BOOLEAN,
           \/ /\ phase' = "checking" /\ verdict' = verdict /\ answer' = {}
              /\ Len(heard') < Len(Steps(target))
           \/ phase' \in {"closing", "reporting"} /\ verdict' \in {"up", "down"},
           UNCHANGED <<target, stored, exit, elapsed, started, vars>>
    PROVE  PodShape'
  <1>1. ~IsSocket /\ target.kind \in QueryKinds /\ verdict = "pending"
    <2>1. target.kind = "socket" => Steps(target) = <<>>
      BY DEF Steps, ContentKinds
    <2>2. Len(<<>>) = 0
      OBVIOUS
    <2>3. Len(heard) \in Nat
      BY LenProperties DEF PodShape, PodTypeOK
    <2> QED
      BY <2>1, <2>2, <2>3 DEF PodShape, Phases, Awaiting, IsSocket
  <1>2. heard' \in Seq({"answered", "failed"}) /\ Len(heard') <= Len(Steps(target'))
    BY HeardGrows DEF PodShape
  <1>3. Cardinality(answer') <= 1
    <2>1. CASE answer' = {}
      BY <2>1, FS_EmptySet
    <2>2. CASE answer' # {}
      <3>1. PICK a : answer' = {a}
        BY <2>2
      <3>2. Cardinality({a}) = 1
        BY FS_Singleton
      <3> QED
        BY <3>1, <3>2
    <2> QED
      BY <2>1, <2>2
  <1>4. begun' \in started'..elapsed' /\ elapsed' \in 0..Deadline /\ started' \in 0..elapsed'
    BY TimeAssumption DEF PodShape, PodTypeOK
  <1>5. PodTypeOK'
    BY <1>1, <1>2, <1>3, <1>4 DEF PodShape, PodTypeOK
  <1>6. Phases'
    BY <1>1 DEF PodShape, Phases, IsSocket, vars
  <1> QED
    BY <1>5, <1>6 DEF PodShape

LEMMA StepAnswersShape ==
    ASSUME PodShape, TypeOK', StepAnswers
    PROVE  PodShape'
  <1>1. CASE /\ head' \in SUBSET target.requires
             /\ heard' = Append(heard, "answered") /\ Settle("down")
             /\ UNCHANGED <<answer, begun>>
    <2>1. answer' = {}
      BY <1>1 DEF PodShape, Phases, StepAnswers, Awaiting
    <2> QED
      BY <1>1, <2>1, SettleShape, HeardShape DEF StepAnswers, PodShape
  <1>2. ASSUME NEW given, Proceed("answered", given), head' \subseteq target.requires,
               given \in {{}} \cup {{a} : a \in Answers[target.kind]},
               Len(heard) + 1 < Len(Steps(target)) \/ Current = "request" => given = {}
        PROVE  PodShape'
    <2>1. CASE given = {}
      BY <1>2, <2>1, ProceedShape, HeardShape DEF StepAnswers, Proceed, PodShape
    <2>2. CASE given # {}
      <3>1. Len(heard') = Len(heard) + 1 /\ Len(heard) \in Nat /\ Len(Steps(target)) \in Nat
        BY <1>2, HeardGrows DEF StepAnswers, Proceed, PodShape
      <3>2. ~(Len(heard') < Len(Steps(target)))
        BY <1>2, <2>2, <3>1 DEF StepAnswers
      <3>3. heard' = Append(heard, "answered") /\ answer' = given /\ begun' = elapsed
        BY <1>2 DEF Proceed
      <3>4. /\ open' \in BOOLEAN
            /\ phase' \in {"closing", "reporting"} /\ verdict' \in {"up", "down"}
        BY <1>2, <3>2, ProceedShape DEF StepAnswers, PodShape
      <3> QED
        BY <1>2, <3>3, <3>4, HeardShape DEF StepAnswers
    <2> QED
      BY <2>1, <2>2
  <1>3. head \subseteq target.requires
    BY DEF PodShape, PodTypeOK
  <1>4. CASE Current = "request" /\ head' \in SUBSET target.requires
    <2>1. CASE Proceed("answered", {})
      BY <1>2, <1>4, <2>1
    <2> QED
      BY <1>1, <1>4, <2>1 DEF StepAnswers
  <1>5. CASE Current # "request" /\ UNCHANGED head
    <2>1. CASE Len(heard) + 1 < Len(Steps(target)) /\ Proceed("answered", {})
      BY <1>2, <1>3, <1>5, <2>1
    <2>2. ASSUME NEW a \in Answers[target.kind], Proceed("answered", {a}),
                 Len(heard) + 1 = Len(Steps(target))
          PROVE  PodShape'
      <3>1. ~(Len(heard) + 1 < Len(Steps(target)))
        BY <2>2, StepsType DEF PodShape, PodTypeOK
      <3> QED
        BY <1>2, <1>3, <1>5, <2>2, <3>1
    <2> QED
      BY <1>5, <2>1, <2>2 DEF StepAnswers
  <1> QED
    BY <1>4, <1>5 DEF StepAnswers

LEMMA FailsShape ==
    ASSUME PodShape, TypeOK', Awaiting, Fails
    PROVE  PodShape'
  <1>1. head' \subseteq target.requires
    BY DEF Fails, PodShape, PodTypeOK
  <1>2. CASE Proceed("failed", {})
    BY <1>1, <1>2, ProceedShape, HeardShape DEF Fails, Proceed, PodShape
  <1>3. CASE /\ heard' = Append(heard, "failed") /\ Settle("down")
             /\ UNCHANGED <<answer, begun>>
    <2>1. answer' = {}
      BY <1>3 DEF PodShape, Phases, Awaiting
    <2> QED
      BY <1>1, <1>3, <2>1, SettleShape, HeardShape DEF Fails, PodShape
  <1> QED
    BY <1>2, <1>3 DEF Fails

(* The steps of the socket leave the rest of the pod alone, and do not     *)
(* take back that the check has begun.                                     *)
LEMMA SocketShape ==
    ASSUME PodShape, Settlement, TypeOK',
           SocketBegins \/ SocketTimer \/ SocketStep
    PROVE  PodShape'
  <1>1. /\ IsSocket /\ phase \notin {"pending", "loading"}
        /\ UNCHANGED <<target, phase, heard, head, answer, open, verdict, stored, exit,
                       elapsed, started>>
        /\ begun' \in {begun, elapsed}
    <2>1. CASE SocketBegins
      BY <2>1 DEF SocketBegins, service
    <2>2. CASE SocketTimer
      <3>1. stage # "new"
        BY <2>2 DEF SocketTimer, TimerFires, Settlement
      <3> QED
        BY <2>2, <3>1 DEF SocketTimer, podVars, service, PodShape, Phases
    <2>3. CASE SocketStep
      <3>1. stage # "new"
        BY <2>3 DEF SocketStep, Connected, WriteReturns, Breaks, PeerSends, TcpData,
                    WebSocketMessage, SteamMessage, Live, Begun, Settlement
      <3> QED
        BY <2>3, <3>1 DEF SocketStep, podVars, service, PodShape, Phases
    <2> QED
      BY <2>1, <2>2, <2>3
  <1>2. begun' \in started'..elapsed'
    BY <1>1, TimeAssumption DEF PodShape, PodTypeOK
  <1> QED
    BY <1>1, <1>2 DEF PodShape, PodTypeOK, Phases, IsSocket

LEMMA ShapeStep == PodShape /\ Settlement /\ TypeOK' /\ [PodNext]_allVars => PodShape'
  <1> SUFFICES ASSUME PodShape, Settlement, TypeOK', [PodNext]_allVars
               PROVE  PodShape'
    OBVIOUS
  <1> USE DEF PodShape, PodTypeOK, Phases, IsSocket, service, vars, runVars
  <1>1. CASE Tick
    <2>1. elapsed' \in 0..Deadline /\ started \in 0..elapsed' /\ begun \in started..elapsed'
      BY <1>1, TimeAssumption DEF Tick
    <2> QED
      BY <1>1, <2>1 DEF Tick
  <1>2. CASE Start
    BY <1>2 DEF Start
  <1>3. CASE LoadFails
    BY <1>3, SettleShape DEF LoadFails
  <1>4. CASE Dispatch
    <2>1. started' \in 0..elapsed' /\ begun' \in started'..elapsed'
      BY <1>4, TimeAssumption DEF Dispatch
    <2>2. CASE \E v \in {"up", "down"} : Settle(v)
      BY <1>4, <2>1, <2>2, SettleShape DEF Dispatch
    <2>3. CASE /\ ~Rejected(target) /\ target.kind # "push" /\ phase' = "checking"
               /\ open' = (~IsSocket /\ Steps(target)[1] = Opens(target.kind))
               /\ UNCHANGED verdict
      <3>1. open' \in BOOLEAN /\ (IsSocket => ~open')
        BY <2>3, Zenon
      <3>2. target.kind \in QueryKinds \cup {"socket"}
        BY <2>3, TargetsAssumption
      <3>3. target.kind \in QueryKinds => Len(heard') < Len(Steps(target))
        BY <1>4, StepsType DEF Dispatch
      <3> QED
        BY <1>4, <2>1, <2>3, <3>1, <3>2, <3>3 DEF Dispatch
    <2> QED
      BY <1>4, <2>2, <2>3 DEF Dispatch
  <1>5. CASE StepAnswers
    BY <1>5, StepAnswersShape
  <1>6. CASE StepFails \/ StepTimesOut
    BY <1>6, FailsShape DEF StepFails, StepTimesOut
  <1>7. CASE Close
    BY <1>7 DEF Close
  <1>8. CASE SocketBegins \/ SocketTimer \/ SocketStep
    BY <1>8, SocketShape
  <1>9. CASE SocketReturns
    <2>1. result \in {"up", "down"}
      BY <1>9 DEF SocketReturns, TypeOK
    <2> QED
      BY <1>9, <2>1, SettleShape DEF SocketReturns
  <1>10. CASE Apply
    <2>1. stored' \subseteq [state : {"up", "down"}, fresh : BOOLEAN]
      BY <1>10 DEF Apply
    <2> QED
      BY <1>10, <2>1 DEF Apply
  <1>11. CASE Exit \/ ReportFails
    BY <1>11 DEF Exit, ReportFails
  <1>12. CASE Kill \/ Crash
    BY <1>12 DEF Kill, Crash, Lose, Running
  <1>13. CASE UNCHANGED allVars
    BY <1>13 DEF allVars, podVars
  <1> QED
    BY <1>1, <1>2, <1>3, <1>4, <1>5, <1>6, <1>7, <1>8, <1>9, <1>10, <1>11, <1>12, <1>13
       DEF PodNext

LEMMA AlwaysShape == PodSpec => [](PodShape /\ Settlement)
  <1>1. PodInit => PodShape
    <2> SUFFICES ASSUME PodInit
                 PROVE  PodShape
      OBVIOUS
    <2>1. TypeOK
      BY InitType DEF PodInit
    <2>2. heard \in Seq({"answered", "failed"}) /\ Len(heard) <= Len(Steps(target))
      BY StepsType, Tuples DEF PodInit
    <2>3. Cardinality(answer) <= 1
      BY FS_EmptySet DEF PodInit
    <2>4. /\ stored \subseteq [state : {"up", "down"}, fresh : BOOLEAN]
          /\ elapsed \in 0..Deadline /\ started \in 0..elapsed /\ begun \in started..elapsed
      BY TimeAssumption DEF PodInit
    <2>5. /\ target \in Targets /\ phase = "pending" /\ head = {} /\ answer = {}
          /\ verdict = "pending" /\ exit = "none" /\ ~open
      BY DEF PodInit
    <2>6. open \in BOOLEAN
      BY Zenon DEF PodInit
    <2>7. PodTypeOK
      BY <2>1, <2>2, <2>3, <2>4, <2>5, <2>6 DEF PodTypeOK
    <2> QED
      BY <2>7 DEF PodInit, Init, PodShape, Phases
  <1> QED
    BY <1>1, ShapeStep, PodRunsSocketChecks, TypeCorrect, AlwaysSettlement, PTL DEF PodSpec

(* The pod's state is well formed: no step is over before it was begun,    *)
(* and no pod outlives the deadline of its Job.                            *)
THEOREM PodTypeCorrect == PodSpec => []PodTypeOK
  <1>1. PodShape => PodTypeOK
    BY DEF PodShape
  <1> QED
    BY <1>1, AlwaysShape, PTL

-----------------------------------------------------------------------------
(* The end of the pod: it stores what it decided, with its client closed.  *)
Ending ==
    /\ ClientsAreClosed
    /\ phase = "stored" => stored = {[state |-> verdict, fresh |-> TRUE]}
    /\ phase # "exited" => exit = "none"
    /\ ExitFollowsStore

LEMMA EndingStep == PodShape /\ Ending /\ [PodNext]_allVars => Ending'
  <1> SUFFICES ASSUME PodShape, Ending, [PodNext]_allVars
               PROVE  Ending'
    OBVIOUS
  <1>0. PodTypeOK
    BY DEF PodShape
  <1> USE DEF Ending, ClientsAreClosed, ExitFollowsStore, service
  <1>1. ASSUME NEW v \in {"up", "down"}, Settle(v), UNCHANGED exit, exit = "none"
        PROVE  Ending'
    BY <1>0, <1>1, SettleShape
  <1>2. ASSUME NEW outcome \in {"answered", "failed"}, NEW given, Awaiting,
               Proceed(outcome, given), UNCHANGED <<target, exit>>
        PROVE  Ending'
    <2>1. phase' \in {"checking", "closing", "reporting"} /\ (phase' = "reporting" => ~open')
      BY <1>0, <1>2, ProceedShape
    <2> QED
      BY <1>2, <2>1 DEF Awaiting
  <1>3. CASE Tick \/ Start \/ SocketBegins
    BY <1>3 DEF Tick, Start, SocketBegins
  <1>4. CASE LoadFails
    BY <1>1, <1>4 DEF LoadFails
  <1>5. CASE Dispatch
    <2>1. CASE \E v \in {"up", "down"} : Settle(v)
      BY <1>1, <1>5, <2>1 DEF Dispatch
    <2>2. CASE phase' = "checking"
      BY <1>5, <2>2 DEF Dispatch
    <2> QED
      BY <1>5, <2>1, <2>2 DEF Dispatch
  <1>6. CASE StepAnswers
    <2>1. CASE Settle("down")
      BY <1>1, <1>6, <2>1 DEF StepAnswers, Awaiting
    <2>2. CASE \E given : Proceed("answered", given)
      BY <1>2, <1>6, <2>2 DEF StepAnswers
    <2> QED
      BY <1>6, <2>1, <2>2 DEF StepAnswers
  <1>7. CASE StepFails \/ StepTimesOut
    <2>1. CASE Settle("down")
      BY <1>1, <1>7, <2>1 DEF StepFails, StepTimesOut, Fails, Awaiting
    <2>2. CASE Proceed("failed", {})
      BY <1>2, <1>7, <2>2 DEF StepFails, StepTimesOut, Fails
    <2> QED
      BY <1>7, <2>1, <2>2 DEF StepFails, StepTimesOut, Fails
  <1>8. CASE SocketReturns
    <2>1. result \in {"up", "down"}
      BY <1>0, <1>8 DEF SocketReturns, PodTypeOK, TypeOK
    <2> QED
      BY <1>1, <1>8, <2>1 DEF SocketReturns
  <1>9. CASE SocketTimer \/ SocketStep \/ UNCHANGED allVars
    BY <1>9 DEF SocketTimer, SocketStep, allVars, podVars
  <1>10. CASE Close \/ Apply
    BY <1>10 DEF Close, Apply
  <1>11. CASE Exit
    <2>1. verdict \in {"up", "down"}
      BY <1>0, <1>11 DEF Exit, PodShape, PodTypeOK, Phases
    <2> QED
      BY <1>11, <2>1 DEF Exit
  <1>12. CASE ReportFails
    BY <1>12 DEF ReportFails
  <1>13. CASE Kill \/ Crash
    BY <1>13 DEF Kill, Crash, Lose, Running
  <1> QED
    BY <1>3, <1>4, <1>5, <1>6, <1>7, <1>8, <1>9, <1>10, <1>11, <1>12, <1>13 DEF PodNext

LEMMA AlwaysEnding == PodSpec => []Ending
  <1>1. PodInit => Ending
    BY DEF PodInit, Ending, ClientsAreClosed, ExitFollowsStore
  <1> QED
    BY <1>1, EndingStep, AlwaysShape, PTL DEF PodSpec

(* Whichever step of a check failed or timed out, its client is closed     *)
(* when the result is reported.                                            *)
THEOREM ClientsAreAlwaysClosed == PodSpec => []ClientsAreClosed
  <1>1. Ending => ClientsAreClosed
    BY DEF Ending
  <1> QED
    BY <1>1, AlwaysEnding, PTL

(* An exit code of 0 or 1 is that of the result which was stored.          *)
THEOREM ExitAlwaysFollowsStore == PodSpec => []ExitFollowsStore
  <1>1. Ending => ExitFollowsStore
    BY DEF Ending
  <1> QED
    BY <1>1, AlwaysEnding, PTL

(* In its pod, too, a check that has begun has its timer.                  *)
THEOREM NoCheckIsStrandedInPod == PodSpec => []NeverStranded
  BY PodRunsSocketChecks, NoCheckIsStranded, PTL

(* And the verdict of its socket is the answer, whatever else the pod does *)
(* meanwhile, as long as it lives.                                         *)
THEOREM VerdictIsTheAnswerInPod == PodSpec => []UpIffAnswered
  BY PodRunsSocketChecks, VerdictIsTheAnswer, PTL

-----------------------------------------------------------------------------
(* Verdicts are earned.                                                    *)

(* What makes a verdict up, by what the code accepts.                      *)
Passed ==
    /\ Len(heard) = Len(Steps(target))
    /\ \A i \in DOMAIN heard : heard[i] = "failed" => Steps(target)[i] \in Tolerated
    /\ HttpVerdict(target.requires, head)
    /\ \A a \in answer : Accepts(target.kind, target.criteria, a)

(* A check goes on only as long as nothing speaks against it.              *)
Earned ==
    /\ phase = "checking" /\ ~IsSocket =>
        \A i \in 1..Len(heard) :
            /\ heard[i] = "failed" => Steps(target)[i] \in Tolerated
            /\ Steps(target)[i] = "request" => HttpVerdict(target.requires, head)
    /\ verdict # "pending" /\ target.kind \in QueryKinds => (verdict = "up" <=> Passed)

LEMMA ProceedEarns ==
    ASSUME PodShape, Earned, Awaiting, NEW outcome \in {"answered", "failed"}, NEW given,
           Proceed(outcome, given), UNCHANGED target,
           outcome = "failed" => Current \in Tolerated,
           IF Current = "request" THEN HttpVerdict(target.requires, head') ELSE UNCHANGED head
    PROVE  Earned'
  <1>1. PodTypeOK /\ target \in Targets
    BY DEF PodShape, PodTypeOK
  <1>2. /\ heard' \in Seq({"answered", "failed"}) /\ Len(heard') = Len(heard) + 1
        /\ Len(heard) \in Nat /\ Len(Steps(target)) \in Nat
        /\ heard'[Len(heard) + 1] = outcome
        /\ \A i \in 1..Len(heard) : heard'[i] = heard[i]
    BY <1>1, HeardGrows DEF Proceed
  <1>3. target.kind \in QueryKinds /\ ~IsSocket /\ verdict = "pending"
    <2>1. target.kind = "socket" => Steps(target) = <<>>
      BY DEF Steps, ContentKinds
    <2>2. Len(<<>>) = 0
      OBVIOUS
    <2> QED
      BY <1>2, <2>1, <2>2 DEF PodShape, Phases, Awaiting, IsSocket
  <1>4. ASSUME NEW i \in 1..Len(heard')
        PROVE  /\ heard'[i] = "failed" => Steps(target)[i] \in Tolerated
               /\ Steps(target)[i] = "request" => HttpVerdict(target.requires, head')
    <2>1. CASE i = Len(heard) + 1
      BY <1>2, <2>1 DEF Current
    <2>2. CASE i \in 1..Len(heard)
      BY <1>2, <1>3, <2>2 DEF Earned, Awaiting
    <2> QED
      BY <1>2, <2>1, <2>2
  <1>5. CASE Len(heard) + 1 < Len(Steps(target)) /\ UNCHANGED <<phase, verdict>>
    BY <1>3, <1>4, <1>5 DEF Earned
  <1>6. CASE /\ Len(heard) + 1 = Len(Steps(target))
             /\ Settle(IF \A a \in given : Accepts(target.kind, target.criteria, a)
                       THEN "up" ELSE "down")
    <2>1. HttpVerdict(target.requires, head')
      <3>1. CASE target.requires = {}
        BY <3>1 DEF HttpVerdict
      <3>2. CASE target.requires # {}
        <4>1. PICK i \in 1..Len(Steps(target)) : Steps(target)[i] = "request"
          BY <1>1, <3>2, StepsType
        <4> QED
          BY <1>2, <1>4, <1>6, <4>1
      <3> QED
        BY <3>1, <3>2
    <2>2. DOMAIN heard' = 1..Len(heard')
      BY <1>2, LenProperties
    <2>3. Passed' <=> \A a \in given : Accepts(target.kind, target.criteria, a)
      BY <1>2, <1>4, <1>6, <2>1, <2>2 DEF Passed, Proceed
    <2>4. phase' # "checking"
      BY <1>6 DEF Settle
    <2>5. verdict' = "up" <=> \A a \in given : Accepts(target.kind, target.criteria, a)
      BY <1>6 DEF Settle
    <2> QED
      BY <2>3, <2>4, <2>5 DEF Earned
  <1> QED
    BY <1>5, <1>6 DEF Proceed

(* A verdict that is down because a step of the check says so.             *)
LEMMA FailureEarns ==
    ASSUME PodShape, Awaiting, NEW outcome \in {"answered", "failed"},
           heard' = Append(heard, outcome), Settle("down"), UNCHANGED target,
           \/ outcome = "failed" /\ Current \notin Tolerated
           \/ ~HttpVerdict(target.requires, head')
    PROVE  Earned'
  <1>1. /\ heard' \in Seq({"answered", "failed"}) /\ Len(heard') = Len(heard) + 1
        /\ Len(heard) \in Nat /\ heard'[Len(heard) + 1] = outcome
    BY HeardGrows DEF PodShape
  <1>2. Len(heard) + 1 \in DOMAIN heard'
    BY <1>1, LenProperties
  <1>3. ~Passed'
    BY <1>1, <1>2 DEF Passed, Current
  <1>4. phase' # "checking" /\ verdict' = "down"
    BY DEF Settle
  <1> QED
    BY <1>3, <1>4 DEF Earned

LEMMA EarnedStep == PodShape /\ Earned /\ [PodNext]_allVars => Earned'
  <1> SUFFICES ASSUME PodShape, Earned, [PodNext]_allVars
               PROVE  Earned'
    OBVIOUS
  <1>0. CASE /\ UNCHANGED <<target, heard, head, answer, verdict>>
             /\ phase' = "checking" => phase = "checking"
    BY <1>0 DEF Earned, Passed, IsSocket
  <1>1. CASE UNCHANGED <<target, heard, head, answer>> /\ phase = "loading"
    <2>1. heard' = <<>> /\ Len(<<>>) = 0
      BY <1>1 DEF PodShape, Phases
    <2>2. target.kind \in QueryKinds => Len(Steps(target)) > 0
      BY StepsType DEF PodShape, PodTypeOK
    <2>3. target'.kind \in QueryKinds => ~Passed'
      BY <1>1, <2>1, <2>2 DEF Passed
    <2>4. target'.kind \in QueryKinds => verdict' \in {"pending", "down"}
      <3>1. CASE LoadFails
        BY <3>1 DEF LoadFails, Settle
      <3>2. CASE Dispatch
        <4>1. verdict = "pending"
          BY <1>1 DEF PodShape, Phases
        <4>2. target.kind \in QueryKinds => target.kind # "push"
          BY DEF QueryKinds, ContentKinds
        <4> QED
          BY <1>1, <3>2, <4>1, <4>2 DEF Dispatch, Settle
      <3>3. CASE UNCHANGED verdict
        BY <1>1, <3>3 DEF PodShape, Phases
      <3> QED
        BY <1>1, <3>1, <3>2, <3>3
           DEF PodNext, Tick, Start, StepAnswers, StepFails, StepTimesOut, Close, Awaiting,
               SocketBegins, SocketTimer, SocketStep, SocketReturns, Apply, Exit,
               ReportFails, Kill, Crash, Lose, allVars, podVars
    <2> QED
      BY <2>1, <2>3, <2>4 DEF Earned
  <1>2. CASE Tick \/ Start \/ Close \/ SocketBegins \/ Apply \/ Exit \/ ReportFails
    BY <1>0, <1>2 DEF Tick, Start, Close, SocketBegins, Apply, Exit, ReportFails, service
  <1>3. CASE Kill \/ Crash
    BY <1>0, <1>3 DEF Kill, Crash, Lose, service
  <1>4. CASE SocketTimer \/ SocketStep \/ UNCHANGED allVars
    BY <1>0, <1>4 DEF SocketTimer, SocketStep, allVars, podVars, service
  <1>5. CASE LoadFails \/ Dispatch
    BY <1>1, <1>5 DEF LoadFails, Dispatch, service
  <1>6. CASE SocketReturns
    <2>1. target'.kind \notin QueryKinds /\ phase' # "checking"
      BY <1>6 DEF SocketReturns, IsSocket, QueryKinds, ContentKinds, Settle
    <2> QED
      BY <2>1 DEF Earned
  <1>7. CASE StepAnswers
    <2>1. CASE ~HttpVerdict(target.requires, head') /\ Settle("down")
      BY <1>7, <2>1, FailureEarns DEF StepAnswers, Proceed
    <2>2. ASSUME NEW given, Proceed("answered", given),
                 IF Current = "request" THEN HttpVerdict(target.requires, head')
                 ELSE UNCHANGED head
          PROVE  Earned'
      BY <1>7, <2>2, ProceedEarns DEF StepAnswers
    <2> QED
      BY <1>7, <2>1, <2>2 DEF StepAnswers
  <1>8. CASE StepFails \/ StepTimesOut
    <2>1. Awaiting /\ Fails
      BY <1>8 DEF StepFails, StepTimesOut
    <2>2. CASE Current \in Tolerated /\ Proceed("failed", {})
      <3>1. Current # "request"
        BY <2>2 DEF Tolerated
      <3> QED
        BY <2>1, <2>2, <3>1, ProceedEarns DEF Fails
    <2>3. CASE Current \notin Tolerated /\ Settle("down")
      BY <2>1, <2>3, FailureEarns DEF Fails
    <2> QED
      BY <2>1, <2>2, <2>3 DEF Fails
  <1> QED
    BY <1>2, <1>3, <1>4, <1>5, <1>6, <1>7, <1>8 DEF PodNext
-----------------------------------------------------------------------------
(* XPath: the code's walk, beside the chains of elements a path means.     *)

(* What is known of a document, and of its elements.                       *)
LEMMA Document ==
    ASSUME NEW doc, IsDocument(doc)
    PROVE  /\ Len(doc) \in Nat /\ DOMAIN doc = 1..Len(doc) /\ DOMAIN doc \subseteq Nat
           /\ IsFiniteSet(DOMAIN doc)
           /\ 0 \notin DOMAIN doc
           /\ \A n \in DOMAIN doc :
                /\ doc[n].parent \in Nat /\ doc[n].parent < n /\ doc[n].parent <= Len(doc)
                /\ doc[n].text \subseteq Content /\ doc[n].attr \subseteq Content
  <1>1. Len(doc) \in Nat /\ DOMAIN doc = 1..Len(doc) /\ \A n \in DOMAIN doc : doc[n] \in Element
    BY LenProperties, ElementOfSeq DEF IsDocument
  <1>2. IsFiniteSet(DOMAIN doc)
    BY <1>1, FS_Interval
  <1> QED
    BY <1>1, <1>2 DEF IsDocument, Element

(* The order of one number, and of none.                                   *)
LEMMA InOrderOfFew ==
    /\ InOrder({}) = <<>>
    /\ \A x \in Nat : InOrder({x}) = <<x>>
  <1>1. InOrder({}) = <<>>
    <2>1. 1..Cardinality({}) = {}
      BY FS_EmptySet
    <2> QED
      BY <2>1 DEF InOrder
  <1>2. ASSUME NEW x \in Nat
        PROVE  InOrder({x}) = <<x>>
    <2>1. 1..Cardinality({x}) = {1}
      BY FS_Singleton
    <2>2. {m \in {x} : m <= x} = {x} /\ Cardinality({x}) = 1
      BY FS_Singleton
    <2>3. (CHOOSE n \in {x} : Cardinality({m \in {x} : m <= n}) = 1) = x
      BY <2>2
    <2>4. InOrder({x}) = [i \in {1} |-> x]
      BY <2>1, <2>3 DEF InOrder
    <2> QED
      BY <2>4
  <1> QED
    BY <1>1, <1>2

(* The strings of one set, and of none.                                    *)
LEMMA StringsOfFew ==
    ASSUME NEW sets
    PROVE  /\ DOMAIN sets = {} => Strings(sets) = <<>>
           /\ \A x \in Nat : DOMAIN sets = {x} =>
                Strings(sets) = IF sets[x] = {} THEN <<>> ELSE <<CHOOSE v \in sets[x] : TRUE>>
  <1> DEFINE present == {n \in DOMAIN sets : sets[n] # {}}
             Value(x) == CHOOSE v \in sets[x] : TRUE
  <1>0. Strings(sets) = [i \in DOMAIN InOrder(present) |-> Value(InOrder(present)[i])]
    BY DEF Strings
  <1> HIDE DEF present, Value
  <1>1. present = {} => Strings(sets) = <<>>
    BY <1>0, InOrderOfFew
  <1>2. ASSUME NEW x \in Nat, present = {x}
        PROVE  Strings(sets) = <<Value(x)>>
    <2>1. InOrder(present) = <<x>>
      BY <1>2, InOrderOfFew
    <2>2. Strings(sets) = [i \in 1..1 |-> Value(x)]
      BY <1>0, <2>1
    <2> QED
      BY <2>2
  <1> QED
    BY <1>1, <1>2 DEF present, Value

(* The strings are as many as the sets that are not empty.                 *)
LEMMA StringsCount ==
    ASSUME NEW sets, IsFiniteSet(DOMAIN sets)
    PROVE  /\ DOMAIN Strings(sets) = 1..Cardinality({n \in DOMAIN sets : sets[n] # {}})
           /\ Len(Strings(sets)) = Cardinality({n \in DOMAIN sets : sets[n] # {}})
  <1> DEFINE present == {n \in DOMAIN sets : sets[n] # {}}
             k == Cardinality(present)
  <1>1. k \in Nat
    BY FS_Subset, FS_CardinalityType
  <1>2. DOMAIN InOrder(present) = 1..k
    BY DEF InOrder
  <1> HIDE DEF k
  <1>3. Strings(sets) = [i \in 1..k |-> CHOOSE v \in sets[InOrder(present)[i]] : TRUE]
    BY <1>2 DEF Strings
  <1>4. Len([i \in 1..k |-> CHOOSE v \in sets[InOrder(present)[i]] : TRUE]) = k
    BY <1>1
  <1> QED
    BY <1>3, <1>4 DEF k
-----------------------------------------------------------------------------
(* What a path has come to after each of its parts.                        *)
ReachedFrom(doc, from, parts) ==
    CHOOSE current : current =
        [i \in 0..Len(parts) |->
            IF i = 0 THEN {from} ELSE GetElement(doc, current[i - 1], parts[i])]

(* The code goes to the end of it.                                         *)
LEMMA ExecuteOfReached ==
    ASSUME NEW doc, NEW from, NEW parts, NEW final
    PROVE  ExecuteSimplifiedXPath(doc, from, parts, final)
            = PathEnd(doc, ReachedFrom(doc, from, parts)[Len(parts)], final)
  BY DEF ExecuteSimplifiedXPath, ReachedFrom

(* A part leads to elements of the document.                               *)
LEMMA GetElementType ==
    ASSUME NEW doc, IsDocument(doc), NEW current, NEW part
    PROVE  GetElement(doc, current, part) \subseteq DOMAIN doc
  BY DEF GetElement, GetElements

(* What a path has come to follows from one part to the next.              *)
LEMMA ReachedFollows ==
    ASSUME NEW doc, IsDocument(doc), NEW from \in Nat, NEW parts, Len(parts) \in Nat
    PROVE  /\ ReachedFrom(doc, from, parts)[0] = {from}
           /\ \A i \in 1..Len(parts) : ReachedFrom(doc, from, parts)[i]
                = GetElement(doc, ReachedFrom(doc, from, parts)[i - 1], parts[i])
  <1> DEFINE n == Len(parts)
             Body(f) == [i \in 0..n |->
                            IF i = 0 THEN {from} ELSE GetElement(doc, f[i - 1], parts[i])]
             S == SUBSET Nat
             step == [i \in 1..n |-> [c \in S |-> GetElement(doc, c, parts[i])]]
  <1>0. n \in Nat /\ {from} \in S
    OBVIOUS
  <1>1. step \in [1..n -> [S -> S]]
    BY GetElementType, Document
  <1>2. \A i \in 1..n : \A c \in S : step[i][c] = GetElement(doc, c, parts[i])
    OBVIOUS
  <1> HIDE DEF step, S, n
  <1>3. PICK f \in [0..n -> S] : Follows(f, n, {from}, step)
    BY <1>0, <1>1, RecursionExists
  <1>4. f = Body(f)
    <2>1. ASSUME NEW i \in 0..n
          PROVE  f[i] = IF i = 0 THEN {from} ELSE GetElement(doc, f[i - 1], parts[i])
      <3>1. CASE i = 0
        BY <1>3, <3>1 DEF Follows
      <3>2. CASE i # 0
        <4>1. i \in 1..n /\ i - 1 \in 0..n
          BY <1>0, <3>2
        <4>2. f[i - 1] \in S /\ f[i] = step[i][f[i - 1]]
          BY <1>3, <4>1 DEF Follows
        <4> QED
          BY <1>2, <3>2, <4>1, <4>2
      <3> QED
        BY <3>1, <3>2
    <2> QED
      BY <1>3, <2>1
  <1> DEFINE current == ReachedFrom(doc, from, parts)
  <1>5. current = Body(current)
    <2>1. \E g : g = Body(g)
      BY <1>4
    <2>2. current = CHOOSE g : g = Body(g)
      BY DEF ReachedFrom, n
    <2> HIDE DEF Body, current
    <2> QED
      BY <2>1, <2>2
  <1> HIDE DEF current
  <1>6. /\ current[0] = {from}
        /\ \A i \in 1..n : current[i] = GetElement(doc, current[i - 1], parts[i])
    <2>1. 0 \in 0..n /\ \A i \in 1..n : i \in 0..n /\ i # 0
      BY <1>0
    <2> QED
      BY <1>5, <2>1
  <1> QED
    BY <1>6 DEF current, n
-----------------------------------------------------------------------------
(* In a plain document what is written is the text.                        *)
LEMMA PlainWritten ==
    ASSUME NEW doc, NEW path, Plain(doc, path), NEW n \in DOMAIN doc
    PROVE  /\ Writings(doc[n].attr) = Texts(doc[n].attr)
           /\ Writings(doc[n].text) = Texts(doc[n].text)
  <1>1. \A c \in doc[n].text \cup doc[n].attr : c.written = c.text
    BY DEF Plain
  <1> QED
    BY <1>1 DEF Writings, Texts

(* The parts whose predicate, if they have one, is legible.                *)
IsLegible(part) == part.value # {} => part.legible

(* Where no element shares its name with a sibling, a part of a path leads *)
(* from one element to one or none.                                        *)
Leads(doc, p, part, n) ==
    /\ n \in DOMAIN doc /\ doc[n].parent = p /\ doc[n].name = part.name
    /\ part.value \in {{}, Texts(doc[n].attr)}

(* From one element the code goes where the part leads, to one or none.    *)
LEMMA LeadsToOne ==
    ASSUME NEW doc, IsDocument(doc), NEW path, Plain(doc, path), NEW part, IsLegible(part),
           NEW p
    PROVE  /\ GetElement(doc, {p}, part) = {n \in DOMAIN doc : Leads(doc, p, part, n)}
           /\ \A m, n \in GetElement(doc, {p}, part) : m = n
  <1> DEFINE named == {n \in DOMAIN doc : doc[n].parent = p /\ doc[n].name = part.name}
             fit == {n \in named : part.legible /\ part.value = Writings(doc[n].attr)}
  <1>1. \A m, n \in named : m = n
    BY DEF Plain
  <1>2. UNION {GetElements(doc, i, part.name) : i \in Alone({p})} = named
    BY DEF Alone, GetElements
  <1>3. GetElement(doc, {p}, part) =
            IF part.value = {} THEN named ELSE {n \in fit : \A m \in fit : n <= m}
    BY <1>2 DEF GetElement
  <1>4. {n \in fit : \A m \in fit : n <= m} = fit
    BY <1>1, Document
  <1>5. {n \in DOMAIN doc : Leads(doc, p, part, n)} = IF part.value = {} THEN named ELSE fit
    BY PlainWritten DEF Leads, IsLegible
  <1> QED
    BY <1>1, <1>3, <1>4, <1>5

(* From no element it goes nowhere.                                        *)
LEMMA NothingLeads ==
    ASSUME NEW doc, NEW part
    PROVE  GetElement(doc, {}, part) = {}
  BY DEF GetElement, Alone

(* So a walk is at one element at most, wherever it is.                    *)
LEMMA ReachedIsOne ==
    ASSUME NEW doc, IsDocument(doc), NEW path, Plain(doc, path), NEW from \in Nat,
           NEW parts, Len(parts) \in Nat, \A i \in 1..Len(parts) : IsLegible(parts[i])
    PROVE  \A i \in 0..Len(parts) :
                /\ \A m, n \in ReachedFrom(doc, from, parts)[i] : m = n
                /\ i > 0 => ReachedFrom(doc, from, parts)[i] \subseteq DOMAIN doc
  <1> DEFINE C == ReachedFrom(doc, from, parts)
             T == {i \in 0..Len(parts) : \A m, n \in C[i] : m = n}
  <1>1. /\ C[0] = {from}
        /\ \A i \in 1..Len(parts) : C[i] = GetElement(doc, C[i - 1], parts[i])
    BY ReachedFollows
  <1> HIDE DEF C
  <1>2. 0 \in T
    BY <1>1
  <1>3. ASSUME NEW i \in 0..(Len(parts) - 1), i \in T
        PROVE  i + 1 \in T
    <2>1. i + 1 \in 1..Len(parts) /\ (i + 1) - 1 = i
      OBVIOUS
    <2>2. C[i + 1] = GetElement(doc, C[i], parts[i + 1])
      BY <1>1, <2>1
    <2>3. C[i] = {} \/ \E p : C[i] = {p}
      BY <1>3
    <2>4. CASE C[i] = {}
      BY <2>1, <2>2, <2>4, NothingLeads
    <2>5. ASSUME NEW p, C[i] = {p}
          PROVE  i + 1 \in T
      <3>1. \A m, n \in GetElement(doc, {p}, parts[i + 1]) : m = n
        BY <2>1, LeadsToOne
      <3>2. \A m, n \in C[i + 1] : m = n
        <4> HIDE DEF T
        <4> QED
          BY <2>2, <2>5, <3>1
      <3> QED
        BY <2>1, <3>2
    <2> QED
      BY <2>3, <2>4, <2>5
  <1> HIDE DEF T
  <1>4. \A i \in 0..(Len(parts) - 1) : i \in T => i + 1 \in T
    BY <1>3
  <1>5. 0..Len(parts) \subseteq T
    BY <1>2, <1>4, InductionUpTo
  <1>6. \A i \in 1..Len(parts) : C[i] \subseteq DOMAIN doc
    BY <1>1, GetElementType
  <1> QED
    BY <1>5, <1>6 DEF T, C

(* One step of the walk: an element is reached exactly if its parent was   *)
(* and the part leads from there to it.                                    *)
LEMMA ReachedStep ==
    ASSUME NEW doc, IsDocument(doc), NEW path, Plain(doc, path), NEW from \in Nat,
           NEW parts, Len(parts) \in Nat, \A i \in 1..Len(parts) : IsLegible(parts[i]),
           NEW i \in 1..Len(parts), NEW n
    PROVE  n \in ReachedFrom(doc, from, parts)[i]
            <=> /\ Leads(doc, doc[n].parent, parts[i], n)
                /\ doc[n].parent \in ReachedFrom(doc, from, parts)[i - 1]
  <1> DEFINE C == ReachedFrom(doc, from, parts)
  <1>1. C[i] = GetElement(doc, C[i - 1], parts[i])
    BY ReachedFollows
  <1>2. \A l, m \in C[i - 1] : l = m
    <2>1. i - 1 \in 0..Len(parts)
      OBVIOUS
    <2> QED
      BY <2>1, ReachedIsOne
  <1> HIDE DEF C
  <1>3. CASE C[i - 1] = {}
    BY <1>1, <1>3, NothingLeads DEF C
  <1>4. ASSUME NEW p, C[i - 1] = {p}
        PROVE  n \in C[i] <=> /\ Leads(doc, doc[n].parent, parts[i], n)
                              /\ doc[n].parent \in C[i - 1]
    <2>1. GetElement(doc, {p}, parts[i]) = {m \in DOMAIN doc : Leads(doc, p, parts[i], m)}
      BY LeadsToOne
    <2>2. C[i] = {m \in DOMAIN doc : Leads(doc, p, parts[i], m)}
      BY <1>1, <1>4, <2>1
    <2> QED
      BY <1>4, <2>2 DEF Leads
  <1>5. C[i - 1] = {} \/ \E p : C[i - 1] = {p}
    BY <1>2
  <1> QED
    BY <1>3, <1>4, <1>5 DEF C

(* What a path selects, part by part.                                      *)
Chain(doc, path, i, n, chain) ==
    /\ chain \in [1..i -> DOMAIN doc] /\ chain[i] = n
    /\ ~path.anywhere => doc[chain[1]].parent = 0
    /\ \A j \in 1..i :
        /\ j > 1 => doc[chain[j]].parent = chain[j - 1]
        /\ doc[chain[j]].name = path.parts[j].name
        /\ path.parts[j].value \in {{}, Texts(doc[chain[j]].attr)}

(* Whether the first i parts of a path select an element.                  *)
Selected(doc, path, i, n) == \E chain : Chain(doc, path, i, n, chain)

(* A path selects what all of its parts do.                                *)
LEMMA SelectsAll ==
    ASSUME NEW doc, NEW path, NEW n
    PROVE  Selects(doc, path, n) <=> Selected(doc, path, Len(path.parts), n)
  BY DEF Selects, Selected, Chain

(* The first part selects by itself.                                       *)
LEMMA SelectedFirst ==
    ASSUME NEW doc, NEW path, NEW n
    PROVE  Selected(doc, path, 1, n) <=>
                /\ Leads(doc, doc[n].parent, path.parts[1], n)
                /\ ~path.anywhere => doc[n].parent = 0
  <1>1. ASSUME NEW chain, Chain(doc, path, 1, n, chain)
        PROVE  /\ Leads(doc, doc[n].parent, path.parts[1], n)
               /\ ~path.anywhere => doc[n].parent = 0
    BY <1>1 DEF Chain, Leads
  <1>2. ASSUME Leads(doc, doc[n].parent, path.parts[1], n),
               ~path.anywhere => doc[n].parent = 0
        PROVE  Selected(doc, path, 1, n)
    <2> DEFINE chain == [j \in 1..1 |-> n]
    <2>1. Chain(doc, path, 1, n, chain)
      BY <1>2 DEF Chain, Leads
    <2> QED
      BY <2>1 DEF Selected
  <1> QED
    BY <1>1, <1>2 DEF Selected

(* Each further part selects below what the parts before it did.           *)
LEMMA SelectedNext ==
    ASSUME NEW doc, NEW path, NEW i \in Nat \ {0}, NEW n
    PROVE  Selected(doc, path, i + 1, n) <=>
                /\ Leads(doc, doc[n].parent, path.parts[i + 1], n)
                /\ Selected(doc, path, i, doc[n].parent)
  <1>0. i + 1 \in 1..(i + 1) /\ i \in 1..i /\ 1 \in 1..i /\ (i + 1) - 1 = i /\ i + 1 > 1
    OBVIOUS
  <1>1. ASSUME NEW chain, Chain(doc, path, i + 1, n, chain)
        PROVE  /\ Leads(doc, doc[n].parent, path.parts[i + 1], n)
               /\ Selected(doc, path, i, doc[n].parent)
    <2> DEFINE before == [j \in 1..i |-> chain[j]]
    <2>1. /\ n \in DOMAIN doc /\ chain[i + 1] = n /\ doc[n].parent = chain[i]
          /\ Leads(doc, doc[n].parent, path.parts[i + 1], n)
      BY <1>0, <1>1 DEF Chain, Leads
    <2>2. \A j \in 1..i : j \in 1..(i + 1) /\ (j > 1 => j - 1 \in 1..i)
      OBVIOUS
    <2>3. /\ before \in [1..i -> DOMAIN doc] /\ before[i] = doc[n].parent
          /\ before[1] = chain[1]
      BY <1>0, <1>1, <2>1, <2>2 DEF Chain
    <2>4. \A j \in 1..i : before[j] = chain[j] /\ (j > 1 => before[j - 1] = chain[j - 1])
      BY <2>2
    <2> HIDE DEF before
    <2>5. Chain(doc, path, i, doc[n].parent, before)
      BY <1>1, <2>2, <2>3, <2>4 DEF Chain
    <2> QED
      BY <2>1, <2>5 DEF Selected
  <1>2. ASSUME Leads(doc, doc[n].parent, path.parts[i + 1], n),
               NEW before, Chain(doc, path, i, doc[n].parent, before)
        PROVE  Selected(doc, path, i + 1, n)
    <2> DEFINE chain == [j \in 1..(i + 1) |-> IF j = i + 1 THEN n ELSE before[j]]
    <2>1. \A j \in 1..(i + 1) : /\ j # i + 1 => j \in 1..i
                               /\ j > 1 => j - 1 \in 1..i /\ j - 1 # i + 1
                                           /\ j - 1 \in 1..(i + 1)
      OBVIOUS
    <2>2. 1 \in 1..(i + 1) /\ 1 # i + 1
      OBVIOUS
    <2>3. /\ chain \in [1..(i + 1) -> DOMAIN doc] /\ chain[i + 1] = n
          /\ chain[1] = before[1]
      BY <1>0, <1>2, <2>1, <2>2 DEF Chain, Leads
    <2>4. \A j \in 1..(i + 1) : j > 1 => chain[j - 1] = before[j - 1]
      BY <2>1
    <2>5. \A j \in 1..i : chain[j] = before[j]
      <3>1. \A j \in 1..i : j \in 1..(i + 1) /\ j # i + 1
        OBVIOUS
      <3> QED
        BY <3>1
    <2> HIDE DEF chain
    <2>6. ASSUME NEW j \in 1..(i + 1)
          PROVE  /\ j > 1 => doc[chain[j]].parent = chain[j - 1]
                 /\ doc[chain[j]].name = path.parts[j].name
                 /\ path.parts[j].value \in {{}, Texts(doc[chain[j]].attr)}
      <3>1. CASE j = i + 1
        <4>1. chain[j - 1] = before[i] /\ before[i] = doc[n].parent
          BY <1>0, <1>2, <2>4, <3>1 DEF Chain
        <4> QED
          BY <1>2, <2>3, <3>1, <4>1 DEF Leads
      <3>2. CASE j # i + 1
        <4>1. j \in 1..i
          BY <2>1, <3>2
        <4>2. chain[j] = before[j]
          BY <2>5, <4>1
        <4> QED
          BY <1>2, <2>4, <4>1, <4>2 DEF Chain
      <3> QED
        BY <3>1, <3>2
    <2>7. Chain(doc, path, i + 1, n, chain)
      BY <1>2, <2>3, <2>6 DEF Chain
    <2> QED
      BY <2>7 DEF Selected
  <1> QED
    BY <1>1, <1>2 DEF Selected
-----------------------------------------------------------------------------
(* What an element gives, for each way a path may end.                     *)
Value(doc, final, n) ==
    CASE final = "attribute" -> Texts(doc[n].attr)
      [] final = "text" -> Texts(doc[n].text)
      [] final = "element" ->
            IF Texts(doc[n].text) = {} THEN {Markup} ELSE Texts(doc[n].text)

(* The value of a set of one, as a sequence.                               *)
OneOf(values) == IF values = {} THEN <<>> ELSE <<CHOOSE v \in values : TRUE>>

(* The ways a path may end.                                                *)
Finals == {"element", "text", "attribute"}

(* What the code gives of one element is its value, of none nothing.       *)
LEMMA PathEndOfFew ==
    ASSUME NEW doc, IsDocument(doc), NEW path, Plain(doc, path), path.final \in Finals
    PROVE  /\ PathEnd(doc, {}, path.final) = <<>>
           /\ \A n \in DOMAIN doc :
                PathEnd(doc, {n}, path.final) = OneOf(Value(doc, path.final, n))
  <1> DEFINE final == path.final
  <1>0. final \in Finals /\ final = path.final
    OBVIOUS
  <1> HIDE DEF final
  <1>1. PathEnd(doc, {}, final) = <<>>
    <2>1. Alone({}) = {}
      BY DEF Alone
    <2>2. /\ Strings([n \in {} |-> Text(doc, n)]) = <<>>
          /\ Strings([n \in {} |-> Writings(doc[n].attr)]) = <<>>
      BY StringsOfFew
    <2> QED
      BY <1>0, <2>1, <2>2 DEF PathEnd, Finals
  <1>2. ASSUME NEW n \in DOMAIN doc
        PROVE  PathEnd(doc, {n}, final) = OneOf(Value(doc, final, n))
    <2>1. Alone({n}) = {n} /\ n \in Nat
      BY Document DEF Alone
    <2>2. /\ Text(doc, n) = Texts(doc[n].text) /\ Writings(doc[n].attr) = Texts(doc[n].attr)
          /\ final = "text" => ~IsTruthValue(doc, n)
      BY <1>0, PlainWritten DEF Text, Plain
    <2> DEFINE texts == [m \in {n} |-> Text(doc, m)]
               attrs == [m \in {n} |-> Writings(doc[m].attr)]
    <2>3. /\ DOMAIN texts = {n} /\ texts[n] = Texts(doc[n].text)
          /\ DOMAIN attrs = {n} /\ attrs[n] = Texts(doc[n].attr)
      BY <2>2
    <2>4. PathEnd(doc, {n}, final) =
            CASE final = "attribute" -> Strings(attrs)
              [] final = "text" -> Strings(texts)
              [] final = "element" -> IF {n} = {} \/ Strings(texts) # <<>> THEN Strings(texts)
                                      ELSE <<Markup>>
      BY <2>1, <2>2 DEF PathEnd
    <2> HIDE DEF texts, attrs
    <2>5. Strings(texts) = OneOf(Texts(doc[n].text)) /\ Strings(attrs) = OneOf(Texts(doc[n].attr))
      BY <2>1, <2>3, StringsOfFew DEF OneOf
    <2>6. CASE final = "attribute"
      BY <2>4, <2>5, <2>6 DEF Value
    <2>7. CASE final = "text"
      BY <2>4, <2>5, <2>7 DEF Value
    <2>8. CASE final = "element"
      <3>1. Value(doc, final, n) = IF Texts(doc[n].text) = {} THEN {Markup}
                                    ELSE Texts(doc[n].text)
        BY <2>8 DEF Value
      <3>2. PathEnd(doc, {n}, final) = IF Strings(texts) # <<>> THEN Strings(texts) ELSE <<Markup>>
        BY <2>4, <2>8
      <3>3. CASE Texts(doc[n].text) = {}
        BY <2>5, <3>1, <3>2, <3>3 DEF OneOf
      <3>4. CASE Texts(doc[n].text) # {}
        <4>1. OneOf(Texts(doc[n].text)) # <<>>
          BY <3>4 DEF OneOf
        <4> QED
          BY <2>5, <3>1, <3>2, <3>4, <4>1
      <3> QED
        BY <3>3, <3>4
    <2> QED
      BY <1>0, <2>6, <2>7, <2>8 DEF Finals
  <1> QED
    BY <1>0, <1>1, <1>2 DEF final

(* The elements a path selects.                                            *)
Nodes(doc, path) == {n \in DOMAIN doc : Selects(doc, path, n)}

(* What XPath gives are their values.                                      *)
LEMMA ValuesOfNodes ==
    ASSUME NEW doc, NEW path, path.final \in Finals
    PROVE  XPathValues(doc, path) =
                Strings([n \in Nodes(doc, path) |-> Value(doc, path.final, n)])
  <1>1. CASE path.final = "attribute"
    BY <1>1 DEF XPathValues, Nodes, Value
  <1>2. CASE path.final = "text"
    BY <1>2 DEF XPathValues, Nodes, Value
  <1>3. CASE path.final = "element"
    BY <1>3 DEF XPathValues, Nodes, Value
  <1> QED
    BY <1>1, <1>2, <1>3 DEF Finals

(* A path has a first part and the rest.                                   *)
LEMMA Parts ==
    ASSUME NEW path, IsPath(path)
    PROVE  /\ Len(path.parts) \in Nat \ {0}
           /\ Len(Tail(path.parts)) = Len(path.parts) - 1
           /\ Head(path.parts) = path.parts[1]
           /\ \A i \in 1..(Len(path.parts) - 1) : Tail(path.parts)[i] = path.parts[i + 1]
           /\ path.final \in Finals
  BY EmptySeq, LenProperties, HeadTailProperties DEF IsPath, Finals

(* The predicates of a plain path are legible.                             *)
LEMMA PlainLegible ==
    ASSUME NEW doc, NEW path, IsPath(path), Plain(doc, path)
    PROVE  /\ \A i \in 1..Len(path.parts) : IsLegible(path.parts[i])
           /\ \A i \in 1..Len(Tail(path.parts)) : IsLegible(Tail(path.parts)[i])
  <1>1. \A i \in 1..Len(path.parts) : IsLegible(path.parts[i])
    BY DEF Plain, IsLegible
  <1>2. /\ Len(path.parts) \in Nat /\ Len(Tail(path.parts)) = Len(path.parts) - 1
        /\ \A i \in 1..(Len(path.parts) - 1) : Tail(path.parts)[i] = path.parts[i + 1]
    BY Parts
  <1> HIDE DEF IsLegible
  <1> QED
    BY <1>1, <1>2
-----------------------------------------------------------------------------
(* A path from the root.                                                   *)
LEMMA AbsoluteSelects ==
    ASSUME NEW doc, IsDocument(doc), NEW path, IsPath(path), Plain(doc, path), ~path.anywhere
    PROVE  Nodes(doc, path) = ReachedFrom(doc, 0, path.parts)[Len(path.parts)]
  <1> DEFINE k == Len(path.parts)
             C == ReachedFrom(doc, 0, path.parts)
             T == {i \in 0..k : i > 0 => \A n : n \in C[i] <=> Selected(doc, path, i, n)}
  <1>0. k \in Nat \ {0}
    BY Parts
  <1>1. C[0] = {0}
    BY <1>0, ReachedFollows
  <1>2. \A i \in 1..k : \A n :
            n \in C[i] <=> /\ Leads(doc, doc[n].parent, path.parts[i], n)
                           /\ doc[n].parent \in C[i - 1]
    <2> DEFINE parts == path.parts
    <2> HIDE DEF T
    <2>1. Len(parts) \in Nat /\ 0 \in Nat /\ \A i \in 1..Len(parts) : IsLegible(parts[i])
      BY <1>0, PlainLegible
    <2> HIDE DEF parts
    <2>2. ASSUME NEW i \in 1..Len(parts), NEW n
          PROVE  n \in ReachedFrom(doc, 0, parts)[i] <=>
                    /\ Leads(doc, doc[n].parent, parts[i], n)
                    /\ doc[n].parent \in ReachedFrom(doc, 0, parts)[i - 1]
      BY <2>1, ReachedStep
    <2> QED
      BY <2>2 DEF parts
  <1>3. C[k] \subseteq DOMAIN doc
    <2> HIDE DEF T
    <2> DEFINE parts == path.parts
    <2>1. /\ Len(parts) \in Nat /\ Len(parts) \in 0..Len(parts) /\ Len(parts) > 0 /\ 0 \in Nat
          /\ \A i \in 1..Len(parts) : IsLegible(parts[i])
      BY <1>0, PlainLegible
    <2> HIDE DEF parts
    <2>2. ReachedFrom(doc, 0, parts)[Len(parts)] \subseteq DOMAIN doc
      BY <2>1, ReachedIsOne
    <2> QED
      BY <2>2 DEF parts
  <1> HIDE DEF k, C
  <1>4. 0 \in T
    BY <1>0
  <1>5. ASSUME NEW i \in 0..(k - 1), i \in T
        PROVE  i + 1 \in T
    <2>0. i + 1 \in 1..k /\ i + 1 \in 0..k /\ (i + 1) - 1 = i /\ i \in Nat
      BY <1>0
    <2>1. ASSUME NEW n
          PROVE  n \in C[i + 1] <=> Selected(doc, path, i + 1, n)
      <3>0. n \in C[i + 1] <=> /\ Leads(doc, doc[n].parent, path.parts[i + 1], n)
                               /\ doc[n].parent \in C[i]
        BY <1>2, <2>0
      <3>1. CASE i = 0
        <4>1. doc[n].parent \in C[i] <=> doc[n].parent = 0
          BY <1>1, <3>1
        <4>2. i + 1 = 1
          BY <3>1
        <4> QED
          BY <3>0, <4>1, <4>2, SelectedFirst
      <3>2. CASE i # 0
        <4>1. i \in Nat \ {0} /\ i > 0
          BY <2>0, <3>2
        <4>2. doc[n].parent \in C[i] <=> Selected(doc, path, i, doc[n].parent)
          BY <1>5, <4>1
        <4> QED
          BY <3>0, <4>1, <4>2, SelectedNext
      <3> QED
        BY <3>1, <3>2
    <2> QED
      BY <2>0, <2>1
  <1> HIDE DEF T
  <1>6. \A i \in 0..(k - 1) : i \in T => i + 1 \in T
    BY <1>5
  <1>7. 0..k \subseteq T
    BY <1>0, <1>4, <1>6, InductionUpTo
  <1>8. k \in T /\ k > 0
    BY <1>0, <1>7
  <1>9. \A n : n \in C[k] <=> Selected(doc, path, k, n)
    BY <1>8 DEF T
  <1>10. \A n : n \in C[k] <=> n \in DOMAIN doc /\ Selects(doc, path, n)
    BY <1>3, <1>9, SelectsAll DEF k
  <1> QED
    BY <1>10 DEF Nodes, C, k

(* On such a path the code gives what XPath does.                          *)
LEMMA AbsoluteAgrees ==
    ASSUME NEW doc, IsDocument(doc), NEW path, IsPath(path), Plain(doc, path), ~path.anywhere
    PROVE  QueryXPath(doc, path) = XPathValues(doc, path)
  <1> DEFINE nodes == ReachedFrom(doc, 0, path.parts)[Len(path.parts)]
             values == [n \in nodes |-> Value(doc, path.final, n)]
  <1>0. Len(path.parts) \in Nat \ {0} /\ path.final \in Finals
    BY Parts
  <1>1. QueryXPath(doc, path) = PathEnd(doc, nodes, path.final)
    BY ExecuteOfReached DEF QueryXPath
  <1>2. XPathValues(doc, path) = Strings(values)
    BY <1>0, AbsoluteSelects, ValuesOfNodes
  <1>3. (\A m, n \in nodes : m = n) /\ nodes \subseteq DOMAIN doc
    BY <1>0, PlainLegible, ReachedIsOne
  <1> HIDE DEF nodes
  <1>4. CASE nodes = {}
    <2>1. DOMAIN values = {}
      BY <1>4
    <2> HIDE DEF values
    <2> QED
      BY <1>0, <1>1, <1>2, <1>4, <2>1, StringsOfFew, PathEndOfFew
  <1>5. ASSUME NEW n, nodes = {n}
        PROVE  QueryXPath(doc, path) = XPathValues(doc, path)
    <2>1. n \in DOMAIN doc /\ n \in Nat
      BY <1>3, <1>5, Document
    <2>2. DOMAIN values = {n} /\ values[n] = Value(doc, path.final, n)
      BY <1>5
    <2> HIDE DEF values
    <2>3. Strings(values) = OneOf(Value(doc, path.final, n))
      BY <2>1, <2>2, StringsOfFew DEF OneOf
    <2>4. PathEnd(doc, {n}, path.final) = OneOf(Value(doc, path.final, n))
      BY <1>0, <2>1, PathEndOfFew
    <2> QED
      BY <1>1, <1>2, <1>5, <2>3, <2>4
  <1>6. nodes = {} \/ \E n : nodes = {n}
    BY <1>3
  <1> QED
    BY <1>4, <1>5, <1>6
-----------------------------------------------------------------------------
(* A path from anywhere: the walks from the elements of its first name.    *)
Named(doc, name) == {n \in DOMAIN doc : doc[n].name = name}

(* Where the walk from element m is after i parts more.                    *)
Walked(doc, path, m, i) == ReachedFrom(doc, m, Tail(path.parts))[i]

(* A step of such a walk.                                                  *)
LEMMA WalkedStep ==
    ASSUME NEW doc, IsDocument(doc), NEW path, IsPath(path), Plain(doc, path), path.anywhere,
           NEW m \in Nat
    PROVE  /\ Walked(doc, path, m, 0) = {m}
           /\ \A i \in 0..(Len(path.parts) - 2) : \A n :
                n \in Walked(doc, path, m, i + 1) <=>
                    /\ Leads(doc, doc[n].parent, path.parts[i + 2], n)
                    /\ doc[n].parent \in Walked(doc, path, m, i)
           /\ \A i \in 0..(Len(path.parts) - 1) :
                \A p, n \in Walked(doc, path, m, i) : p = n
           /\ m \in DOMAIN doc =>
                Walked(doc, path, m, Len(path.parts) - 1) \subseteq DOMAIN doc
  <1> DEFINE rest == Tail(path.parts)
             k == Len(path.parts)
  <1>1. k \in Nat \ {0} /\ Len(rest) = k - 1 /\ \A i \in 1..(k - 1) : rest[i] = path.parts[i + 1]
    BY Parts
  <1>7. \A i \in 1..Len(rest) : IsLegible(rest[i])
    BY PlainLegible
  <1> HIDE DEF rest, k
  <1>2. Len(rest) \in Nat
    BY <1>1
  <1>3. ReachedFrom(doc, m, rest)[0] = {m}
    BY <1>2, ReachedFollows
  <1>4. ASSUME NEW i \in 0..(k - 2), NEW n
        PROVE  n \in ReachedFrom(doc, m, rest)[i + 1] <=>
                    /\ Leads(doc, doc[n].parent, path.parts[i + 2], n)
                    /\ doc[n].parent \in ReachedFrom(doc, m, rest)[i]
    <2>1. i + 1 \in 1..(k - 1) /\ i + 1 \in 1..Len(rest) /\ (i + 1) - 1 = i /\ (i + 1) + 1 = i + 2
      BY <1>1
    <2>2. rest[i + 1] = path.parts[i + 2]
      BY <1>1, <2>1
    <2>3. n \in ReachedFrom(doc, m, rest)[i + 1] <=>
                /\ Leads(doc, doc[n].parent, rest[i + 1], n)
                /\ doc[n].parent \in ReachedFrom(doc, m, rest)[(i + 1) - 1]
      BY <1>2, <1>7, <2>1, ReachedStep
    <2> QED
      BY <2>1, <2>2, <2>3
  <1>5. /\ \A i \in 0..(k - 1) : \A p, n \in ReachedFrom(doc, m, rest)[i] : p = n
        /\ k - 1 > 0 => ReachedFrom(doc, m, rest)[k - 1] \subseteq DOMAIN doc
    <2>1. \A i \in 0..Len(rest) :
                /\ \A p, n \in ReachedFrom(doc, m, rest)[i] : p = n
                /\ i > 0 => ReachedFrom(doc, m, rest)[i] \subseteq DOMAIN doc
      BY <1>2, <1>7, ReachedIsOne
    <2>2. k - 1 \in 0..Len(rest)
      BY <1>1
    <2> QED
      BY <1>1, <2>1, <2>2
  <1>6. m \in DOMAIN doc => ReachedFrom(doc, m, rest)[k - 1] \subseteq DOMAIN doc
    <2>1. CASE k - 1 = 0
      BY <1>3, <2>1
    <2>2. CASE k - 1 # 0
      BY <1>1, <1>5, <2>2
    <2> QED
      BY <2>1, <2>2
  <1> QED
    BY <1>3, <1>4, <1>5, <1>6 DEF Walked, rest, k

(* The path selects where some walk ends.                                  *)
LEMMA AnywhereSelects ==
    ASSUME NEW doc, IsDocument(doc), NEW path, IsPath(path), Plain(doc, path), path.anywhere,
           NEW n
    PROVE  n \in Nodes(doc, path) <=>
                \E m \in Named(doc, Head(path.parts).name) :
                    n \in Walked(doc, path, m, Len(path.parts) - 1)
  <1> DEFINE k == Len(path.parts)
             N == Named(doc, Head(path.parts).name)
             Found(i, x) == \E m \in N : x \in Walked(doc, path, m, i)
             T == {i \in 0..(k - 1) : \A x : Found(i, x) <=> Selected(doc, path, i + 1, x)}
  <1>0. k \in Nat \ {0} /\ Head(path.parts) = path.parts[1] /\ k - 1 \in Nat
    BY Parts
  <1>1. N \subseteq DOMAIN doc /\ N \subseteq Nat
    BY Document DEF Named
  <1> HIDE DEF k
  <1>2. 0 \in T
    <2>1. ASSUME NEW x
          PROVE  Found(0, x) <=> Selected(doc, path, 1, x)
      <3>1. Found(0, x) <=> x \in N
        BY <1>1, WalkedStep
      <3>2. x \in N <=> Leads(doc, doc[x].parent, path.parts[1], x)
        BY <1>0 DEF Named, Leads, Plain
      <3> QED
        BY <3>1, <3>2, SelectedFirst
    <2>2. 0 + 1 = 1 /\ 0 \in 0..(k - 1)
      BY <1>0
    <2> HIDE DEF Found
    <2> QED
      BY <2>1, <2>2
  <1>3. ASSUME NEW i \in 0..((k - 1) - 1), i \in T
        PROVE  i + 1 \in T
    <2>0. /\ i \in 0..(k - 2) /\ i + 1 \in 0..(k - 1) /\ i + 1 \in Nat \ {0}
          /\ (i + 1) + 1 = i + 2
      BY <1>0
    <2>1. ASSUME NEW x
          PROVE  Found(i + 1, x) <=> Selected(doc, path, i + 2, x)
      <3>1. \A m \in N : x \in Walked(doc, path, m, i + 1) <=>
                            /\ Leads(doc, doc[x].parent, path.parts[i + 2], x)
                            /\ doc[x].parent \in Walked(doc, path, m, i)
        BY <1>1, <2>0, WalkedStep DEF k
      <3>2. Found(i + 1, x) <=> /\ Leads(doc, doc[x].parent, path.parts[i + 2], x)
                               /\ Found(i, doc[x].parent)
        BY <3>1
      <3>3. Found(i, doc[x].parent) <=> Selected(doc, path, i + 1, doc[x].parent)
        BY <1>3
      <3>4. Selected(doc, path, (i + 1) + 1, x) <=>
                /\ Leads(doc, doc[x].parent, path.parts[(i + 1) + 1], x)
                /\ Selected(doc, path, i + 1, doc[x].parent)
        BY <2>0, SelectedNext
      <3> QED
        BY <2>0, <3>2, <3>3, <3>4
    <2> HIDE DEF Found
    <2> QED
      BY <2>0, <2>1
  <1> HIDE DEF T
  <1>4. \A i \in 0..((k - 1) - 1) : i \in T => i + 1 \in T
    BY <1>3
  <1>5. 0..(k - 1) \subseteq T
    BY <1>0, <1>2, <1>4, InductionUpTo
  <1>6. k - 1 \in T /\ (k - 1) + 1 = k
    BY <1>0, <1>5
  <1>7. Found(k - 1, n) <=> Selected(doc, path, k, n)
    BY <1>6 DEF T
  <1>8. Found(k - 1, n) => n \in DOMAIN doc
    BY <1>1, WalkedStep DEF k
  <1> QED
    BY <1>7, <1>8, SelectsAll DEF Nodes, k

(* No two walks end at one element.                                        *)
LEMMA WalksApart ==
    ASSUME NEW doc, IsDocument(doc), NEW path, IsPath(path), Plain(doc, path), path.anywhere,
           NEW l \in Nat, NEW m \in Nat, NEW n,
           n \in Walked(doc, path, l, Len(path.parts) - 1),
           n \in Walked(doc, path, m, Len(path.parts) - 1)
    PROVE  l = m
  <1> DEFINE k == Len(path.parts)
             Both(i) == {x \in Walked(doc, path, l, i) : x \in Walked(doc, path, m, i)}
             T == {i \in 0..(k - 1) : Both(i) # {} => l = m}
  <1>0. k \in Nat \ {0} /\ k - 1 \in Nat
    BY Parts
  <1> HIDE DEF k
  <1>1. 0 \in T
    BY <1>0, WalkedStep
  <1>2. ASSUME NEW i \in 0..((k - 1) - 1), i \in T
        PROVE  i + 1 \in T
    <2>0. i \in 0..(k - 2) /\ i + 1 \in 0..(k - 1)
      BY <1>0
    <2>1. \A x \in Both(i + 1) : doc[x].parent \in Both(i)
      BY <2>0, WalkedStep DEF k
    <2> QED
      BY <1>2, <2>0, <2>1
  <1>3. n \in Both(k - 1)
    BY DEF k
  <1> HIDE DEF T
  <1>4. \A i \in 0..((k - 1) - 1) : i \in T => i + 1 \in T
    BY <1>2
  <1>5. 0..(k - 1) \subseteq T
    BY <1>0, <1>1, <1>4, InductionUpTo
  <1>6. k - 1 \in T
    BY <1>0, <1>5
  <1> QED
    BY <1>3, <1>6 DEF T

(* Each element of a name is found once.                                   *)
LEMMA EachIsFound ==
    ASSUME NEW doc, IsDocument(doc), NEW path, Plain(doc, path), NEW name
    PROVE  LET found == FindAllElements(doc, name)
           IN  /\ Len(found) \in Nat /\ DOMAIN found = 1..Len(found)
               /\ Pairs(found, 1..Len(found), Named(doc, name))
  <1> DEFINE n == Len(doc) + 1
             Below(i) == GetElements(doc, i - 1, name)
             seqs == [i \in 1..n |-> InOrder(Below(i))]
             found == FindAllElements(doc, name)
             N == Named(doc, name)
  <1>0. n \in Nat /\ Len(doc) \in Nat /\ N \subseteq Nat
    BY Document DEF Named
  <1>1. \A i \in 1..n : \A x \in Below(i) :
            x \in N /\ x \in Nat /\ doc[x].parent = i - 1 /\ Below(i) = {x}
    BY Document DEF GetElements, Named, Plain
  <1>2. ASSUME NEW x \in N
        PROVE  doc[x].parent + 1 \in 1..n /\ x \in Below(doc[x].parent + 1)
    <2>1. doc[x].parent \in Nat /\ doc[x].parent <= Len(doc)
      BY Document DEF Named
    <2>2. (doc[x].parent + 1) - 1 = doc[x].parent
      BY <2>1
    <2> QED
      BY <1>0, <2>1, <2>2 DEF GetElements, Named
  <1> HIDE DEF Below, n, N
  <1>3. ASSUME NEW i \in 1..n
        PROVE  \/ Below(i) = {} /\ seqs[i] = <<>>
               \/ \E x \in N : Below(i) = {x} /\ seqs[i] = <<x>> /\ doc[x].parent = i - 1
    <2>1. CASE Below(i) = {}
      BY <2>1, InOrderOfFew
    <2>2. ASSUME NEW x \in Below(i)
          PROVE  \E y \in N : Below(i) = {y} /\ seqs[i] = <<y>> /\ doc[y].parent = i - 1
      <3>1. x \in N /\ x \in Nat /\ doc[x].parent = i - 1 /\ Below(i) = {x}
        BY <1>1, <2>2
      <3>2. InOrder({x}) = <<x>>
        BY <3>1, InOrderOfFew
      <3>3. seqs[i] = <<x>>
        BY <3>1, <3>2
      <3> QED
        BY <3>1, <3>3
    <2> QED
      BY <2>1, <2>2
  <1>4. found = FlattenSeq(seqs)
    BY DEF FindAllElements, Below, n
  <1>5. Len(seqs) = n /\ DOMAIN seqs = 1..n
    BY <1>0
  <1> HIDE DEF seqs, found
  <1>6. \A i \in 1..n : seqs[i] \in Seq(N) /\ Len(seqs[i]) <= 1 /\ (seqs[i] # <<>> => seqs[i][1] \in N)
    <2> SUFFICES ASSUME NEW i \in 1..n
                 PROVE  seqs[i] \in Seq(N) /\ Len(seqs[i]) <= 1 /\ (seqs[i] # <<>> => seqs[i][1] \in N)
      OBVIOUS
    <2>1. CASE seqs[i] = <<>>
      <3>1. <<>> \in Seq(N) /\ Len(<<>>) = 0
        BY EmptySeq
      <3> QED
        BY <2>1, <3>1
    <2>2. ASSUME NEW x \in N, seqs[i] = <<x>>
          PROVE  seqs[i] \in Seq(N) /\ Len(seqs[i]) <= 1 /\ (seqs[i] # <<>> => seqs[i][1] \in N)
      <3>1. <<x>> \in Seq(N) /\ Len(<<x>>) = 1 /\ <<x>>[1] = x
        OBVIOUS
      <3> QED
        BY <2>2, <3>1
    <2> QED
      BY <1>3, <2>1, <2>2
  <1>7. seqs \in Seq(Seq(N))
    <2>1. seqs \in [1..n -> Seq(N)]
      BY <1>6 DEF seqs
    <2> QED
      BY <1>0, <2>1
  <1>8. /\ found \in Seq(N)
        /\ \E b : /\ Pairs(b, 1..Len(found), {i \in 1..Len(seqs) : seqs[i] # <<>>})
                  /\ \A j \in 1..Len(found) : found[j] = seqs[b[j]][1]
    BY <1>4, <1>5, <1>6, <1>7, FlattenSingles
  <1>9. PICK b : /\ Pairs(b, 1..Len(found), {i \in 1..n : seqs[i] # <<>>})
                 /\ \A j \in 1..Len(found) : found[j] = seqs[b[j]][1]
    BY <1>5, <1>8
  <1>10. Len(found) \in Nat /\ DOMAIN found = 1..Len(found) /\ found \in [1..Len(found) -> N]
    BY <1>8, LenProperties
  <1>11. ASSUME NEW j \in 1..Len(found)
         PROVE  /\ b[j] \in 1..n /\ Below(b[j]) = {found[j]}
                /\ doc[found[j]].parent = b[j] - 1
    <2>1. b[j] \in 1..n /\ seqs[b[j]] # <<>> /\ found[j] = seqs[b[j]][1]
      BY <1>9 DEF Pairs
    <2>2. PICK x \in N : Below(b[j]) = {x} /\ seqs[b[j]] = <<x>> /\ doc[x].parent = b[j] - 1
      BY <1>3, <2>1
    <2>3. found[j] = x
      BY <2>1, <2>2
    <2> QED
      BY <2>1, <2>2, <2>3
  <1>12. \A i, j \in 1..Len(found) : found[i] = found[j] => i = j
    <2> SUFFICES ASSUME NEW i \in 1..Len(found), NEW j \in 1..Len(found), found[i] = found[j]
                 PROVE  i = j
      OBVIOUS
    <2>1. doc[found[i]].parent = b[i] - 1 /\ doc[found[j]].parent = b[j] - 1
      BY <1>11
    <2>2. b[i] - 1 = b[j] - 1 /\ b[i] \in 1..n /\ b[j] \in 1..n
      BY <1>11, <2>1
    <2>3. b[i] = b[j]
      BY <1>0, <2>2
    <2> QED
      BY <1>9, <2>3 DEF Pairs
  <1>13. ASSUME NEW x \in N
         PROVE  \E j \in 1..Len(found) : found[j] = x
    <2> DEFINE i == doc[x].parent + 1
    <2>1. i \in 1..n /\ x \in Below(i)
      BY <1>2
    <2> HIDE DEF i
    <2>2. Below(i) = {x}
      BY <1>1, <2>1
    <2>3. PICK y \in N : Below(i) = {y} /\ seqs[i] = <<y>>
      BY <1>3, <2>1, <2>2
    <2>4. <<y>> # <<>>
      OBVIOUS
    <2>5. seqs[i] # <<>>
      BY <2>3, <2>4
    <2>6. PICK j \in 1..Len(found) : b[j] = i
      BY <1>9, <2>1, <2>5 DEF Pairs
    <2>7. Below(i) = {found[j]}
      BY <1>11, <2>6
    <2> QED
      BY <2>2, <2>7
  <1> QED
    BY <1>10, <1>12, <1>13 DEF Pairs, found, N

(* On such a path the code gives as many values as XPath does, if not      *)
(* in their order.                                                         *)
LEMMA AnywhereCounts ==
    ASSUME NEW doc, IsDocument(doc), NEW path, IsPath(path), Plain(doc, path), path.anywhere
    PROVE  /\ Len(QueryXPath(doc, path)) = Len(XPathValues(doc, path))
           /\ QueryXPath(doc, path) = <<>> <=> XPathValues(doc, path) = <<>>
  <1> DEFINE k == Len(path.parts)
             final == path.final
             found == FindAllElements(doc, Head(path.parts).name)
             L == Len(found)
             N == Named(doc, Head(path.parts).name)
             End(m) == Walked(doc, path, m, k - 1)
             V == {CHOOSE v \in Value(doc, final, n) : TRUE : n \in DOMAIN doc}
             seqs == [j \in 1..L |-> PathEnd(doc, End(found[j]), final)]
             full == {j \in 1..L : seqs[j] # <<>>}
             given == {n \in Nodes(doc, path) : Value(doc, final, n) # {}}
  <1>0. k \in Nat \ {0} /\ k - 1 \in Nat /\ final \in Finals /\ Len(Tail(path.parts)) = k - 1
    BY Parts
  <1>1. L \in Nat /\ DOMAIN found = 1..L /\ Pairs(found, 1..L, N)
    BY EachIsFound
  <1>2. N \subseteq DOMAIN doc /\ N \subseteq Nat
    BY Document DEF Named
  <1>3. QueryXPath(doc, path) = FlattenSeq(seqs)
    <2>1. \A j \in 1..L : ExecuteSimplifiedXPath(doc, found[j], Tail(path.parts), final)
                            = PathEnd(doc, End(found[j]), final)
      BY <1>0, ExecuteOfReached DEF Walked
    <2>2. QueryXPath(doc, path) =
            FlattenSeq([j \in DOMAIN found |->
                ExecuteSimplifiedXPath(doc, found[j], Tail(path.parts), final)])
      BY DEF QueryXPath
    <2> HIDE DEF found, L, End
    <2>3. [j \in DOMAIN found |-> ExecuteSimplifiedXPath(doc, found[j], Tail(path.parts), final)]
            = seqs
      BY <1>1, <2>1
    <2> QED
      BY <2>2, <2>3
  <1> HIDE DEF found, L
  <1>4. ASSUME NEW m \in N
        PROVE  End(m) = {} \/ \E n \in DOMAIN doc : End(m) = {n}
    <2>1. k - 1 \in 0..(k - 1)
      BY <1>0
    <2>2. (\A p, n \in End(m) : p = n) /\ End(m) \subseteq DOMAIN doc
      BY <1>2, <2>1, WalkedStep
    <2> HIDE DEF End
    <2> QED
      BY <2>2
  <1>5. \A n : n \in Nodes(doc, path) <=> \E m \in N : n \in End(m)
    BY AnywhereSelects
  <1>6. \A l, m \in N : \A n : n \in End(l) /\ n \in End(m) => l = m
    BY <1>2, WalksApart
  <1>7. /\ \A j \in 1..L : found[j] \in N
        /\ \A i, j \in 1..L : found[i] = found[j] => i = j
        /\ \A m \in N : \E j \in 1..L : found[j] = m
    BY <1>1 DEF Pairs
  <1>8. /\ \A n \in DOMAIN doc : OneOf(Value(doc, final, n)) \in Seq(V)
        /\ \A values : Len(OneOf(values)) <= 1 /\ (OneOf(values) # <<>> <=> values # {})
        /\ <<>> \in Seq(V) /\ Len(<<>>) = 0
    <2>1. <<>> \in Seq(V) /\ Len(<<>>) = 0
      BY EmptySeq
    <2>2. ASSUME NEW n \in DOMAIN doc
          PROVE  OneOf(Value(doc, final, n)) \in Seq(V)
      <3> DEFINE chosen == CHOOSE v \in Value(doc, final, n) : TRUE
      <3>1. chosen \in V
        OBVIOUS
      <3> HIDE DEF V
      <3>2. <<chosen>> \in Seq(V)
        BY <3>1
      <3>3. OneOf(Value(doc, final, n)) = <<>> \/ OneOf(Value(doc, final, n)) = <<chosen>>
        BY DEF OneOf
      <3> QED
        BY <2>1, <3>2, <3>3
    <2>3. \A values : Len(OneOf(values)) <= 1 /\ (OneOf(values) # <<>> <=> values # {})
      BY <2>1 DEF OneOf
    <2> QED
      BY <2>1, <2>2, <2>3
  <1> HIDE DEF End, N, V, k
  <1>9. ASSUME NEW j \in 1..L
        PROVE  \/ End(found[j]) = {} /\ seqs[j] = <<>>
               \/ \E n \in DOMAIN doc : /\ End(found[j]) = {n}
                                       /\ seqs[j] = OneOf(Value(doc, final, n))
    <2>1. found[j] \in N /\ seqs[j] = PathEnd(doc, End(found[j]), final)
      BY <1>7
    <2> HIDE DEF seqs
    <2>2. CASE End(found[j]) = {}
      BY <1>0, <2>1, <2>2, PathEndOfFew
    <2>3. ASSUME NEW n \in DOMAIN doc, End(found[j]) = {n}
          PROVE  seqs[j] = OneOf(Value(doc, final, n))
      BY <1>0, <2>1, <2>3, PathEndOfFew
    <2> QED
      BY <1>4, <2>1, <2>2, <2>3
  <1>10. Len(seqs) = L /\ seqs \in Seq(Seq(V)) /\ \A i \in 1..L : Len(seqs[i]) <= 1
    <2>1. ASSUME NEW j \in 1..L
          PROVE  seqs[j] \in Seq(V) /\ Len(seqs[j]) <= 1
      <3> HIDE DEF seqs
      <3> QED
        BY <1>8, <1>9
    <2>2. Len(seqs) = L
      BY <1>1
    <2>3. seqs \in [1..L -> Seq(V)]
      BY <2>1
    <2> HIDE DEF seqs
    <2>4. seqs \in Seq(Seq(V))
      BY <1>1, <2>3
    <2> QED
      BY <2>1, <2>2, <2>4
  <1> HIDE DEF seqs
  <1>11. FlattenSeq(seqs) \in Seq(V) /\ Cardinality(full) = Len(FlattenSeq(seqs)) /\ IsFiniteSet(full)
    <2>1. PICK b : /\ FlattenSeq(seqs) \in Seq(V)
                   /\ Pairs(b, 1..Len(FlattenSeq(seqs)), {i \in 1..Len(seqs) : seqs[i] # <<>>})
      BY <1>10, FlattenSingles
    <2>2. Len(FlattenSeq(seqs)) \in Nat
      BY <2>1, LenProperties
    <2>3. /\ IsFiniteSet(1..Len(FlattenSeq(seqs)))
          /\ Cardinality(1..Len(FlattenSeq(seqs))) = Len(FlattenSeq(seqs))
      BY <2>2, FS_Interval
    <2>4. Pairs(b, 1..Len(FlattenSeq(seqs)), full)
      BY <1>10, <2>1
    <2> HIDE DEF full
    <2> QED
      BY <2>1, <2>3, <2>4, PairsCount
  <1>12. Cardinality(given) = Cardinality(full)
    <2> DEFINE end(j) == CHOOSE n : n \in End(found[j])
               h == [j \in full |-> end(j)]
    <2>1. ASSUME NEW j \in full
          PROVE  h[j] \in given /\ End(found[j]) = {h[j]}
      <3>1. PICK n \in DOMAIN doc : End(found[j]) = {n} /\ seqs[j] = OneOf(Value(doc, final, n))
        BY <1>9
      <3>2. h[j] = n
        BY <3>1
      <3>3. n \in Nodes(doc, path)
        BY <1>5, <1>7, <3>1
      <3>4. Value(doc, final, n) # {}
        BY <1>8, <3>1
      <3> QED
        BY <3>1, <3>2, <3>3, <3>4
    <2> HIDE DEF h
    <2>2. h \in [full -> given]
      BY <2>1 DEF h
    <2>3. \A i, j \in full : h[i] = h[j] => i = j
      <3> SUFFICES ASSUME NEW i \in full, NEW j \in full, h[i] = h[j]
                   PROVE  i = j
        OBVIOUS
      <3>1. h[i] \in End(found[i]) /\ h[i] \in End(found[j])
        BY <2>1
      <3>2. found[i] = found[j]
        BY <1>6, <1>7, <3>1
      <3> QED
        BY <1>7, <3>2
    <2>4. ASSUME NEW n \in given
          PROVE  \E j \in full : h[j] = n
      <3>1. PICK m \in N : n \in End(m)
        BY <1>5
      <3>2. PICK j \in 1..L : found[j] = m
        BY <1>7
      <3>3. End(found[j]) = {n} /\ seqs[j] = OneOf(Value(doc, final, n))
        BY <1>9, <3>1, <3>2
      <3>4. j \in full
        BY <1>8, <3>3
      <3>5. h[j] = n
        BY <2>1, <3>3, <3>4
      <3> QED
        BY <3>4, <3>5
    <2>5. Pairs(h, full, given)
      BY <2>2, <2>3, <2>4 DEF Pairs
    <2> HIDE DEF full, given
    <2> QED
      BY <1>11, <2>5, PairsCount
  <1>13. /\ Len(XPathValues(doc, path)) = Cardinality(given)
         /\ DOMAIN XPathValues(doc, path) = 1..Cardinality(given)
    <2> DEFINE values == [n \in Nodes(doc, path) |-> Value(doc, final, n)]
    <2>1. XPathValues(doc, path) = Strings(values)
      BY <1>0, ValuesOfNodes
    <2>2. IsFiniteSet(Nodes(doc, path))
      BY Document, FS_Subset DEF Nodes
    <2>3. DOMAIN values = Nodes(doc, path) /\ {n \in DOMAIN values : values[n] # {}} = given
      OBVIOUS
    <2> HIDE DEF values, given
    <2> QED
      BY <2>1, <2>2, <2>3, StringsCount
  <1> HIDE DEF full, given
  <1>14. Len(QueryXPath(doc, path)) = Len(XPathValues(doc, path))
    BY <1>3, <1>11, <1>12, <1>13
  <1>15. QueryXPath(doc, path) = <<>> <=> Len(QueryXPath(doc, path)) = 0
    BY <1>3, <1>11, EmptySeq
  <1>16. XPathValues(doc, path) = <<>> <=> Len(XPathValues(doc, path)) = 0
    BY <1>13
  <1> QED
    BY <1>14, <1>15, <1>16

(* validateXPathResult judges what the simplified XPath gives as it would  *)
(* judge what XPath does, for any plain document and any path: all of the  *)
(* criteria after "/", whether there is a value and how many after "//".   *)
THEOREM XPathAgrees ==
    ASSUME NEW doc, IsDocument(doc), NEW c, IsPath(c.path), Plain(doc, c.path),
           c.path.anywhere => c.equals \cup c.contains = {}
    PROVE  ValidateXPathResult(c, QueryXPath(doc, c.path))
            <=> ValidateXPathResult(c, XPathValues(doc, c.path))
  <1>1. CASE c.path.anywhere
    BY <1>1, AnywhereCounts DEF ValidateXPathResult, Counted
  <1>2. CASE ~c.path.anywhere
    BY <1>2, AbsoluteAgrees
  <1> QED
    BY <1>1, <1>2
-----------------------------------------------------------------------------
(* What a checker accepts meets the criteria.                              *)
LEMMA AcceptedMeets ==
    ASSUME NEW t \in Targets, t.kind \in QueryKinds,
           NEW a \in Answers[t.kind], Comparable(t.kind, t.criteria, a)
    PROVE  Accepts(t.kind, t.criteria, a) <=> Meets(t.kind, t.criteria, a)
  <1>1. CASE t.kind = "xmlQuery"
    <2>1. IsDocument(a) /\ IsPath(t.criteria.path)
      BY <1>1, TargetsAssumption
    <2>2. /\ Plain(a, t.criteria.path)
          /\ t.criteria.path.anywhere => t.criteria.equals \cup t.criteria.contains = {}
      BY <1>1 DEF Comparable
    <2>3. ValidateXPathResult(t.criteria, QueryXPath(a, t.criteria.path))
            <=> ValidateXPathResult(t.criteria, XPathValues(a, t.criteria.path))
      BY <2>1, <2>2, XPathAgrees
    <2> QED
      BY <1>1, <2>3 DEF Accepts, Meets
  <1>2. CASE t.kind = "k8s"
    <2> DEFINE least == IF t.criteria.min \in {{}, {0}} THEN 1
                        ELSE CHOOSE n \in t.criteria.min : TRUE
    <2>1. /\ a.ready \in Nat /\ t.criteria.min \subseteq Nat
          /\ \A m, n \in t.criteria.min : m = n
      BY <1>2, TargetsAssumption
    <2>2. Accepts("k8s", t.criteria, a) <=> a.ready >= least /\ a.ready > 0
      BY <1>2 DEF Accepts, KubernetesVerdict, Comparable
    <2>3. Meets("k8s", t.criteria, a) <=> \A n \in t.criteria.min \cup {1} : a.ready >= n
      BY DEF Meets
    <2>4. CASE t.criteria.min \in {{}, {0}}
      BY <1>2, <2>1, <2>2, <2>3, <2>4
    <2>5. CASE t.criteria.min \notin {{}, {0}}
      <3>1. least \in t.criteria.min
        BY <2>5
      <3>2. t.criteria.min = {least} /\ least \in Nat
        BY <2>1, <3>1
      <3> HIDE DEF least
      <3> QED
        BY <1>2, <2>1, <2>2, <2>3, <3>2
    <2> QED
      BY <2>4, <2>5
  <1>3. CASE t.kind \notin {"xmlQuery", "k8s"}
    BY <1>3 DEF Meets
  <1> QED
    BY <1>1, <1>2, <1>3

(* A verdict is up exactly if every step of the check was answered in its  *)
(* time, those that are tolerated excepted, and the answer meets what the  *)
(* documentation says of the criteria.                                     *)
THEOREM EveryVerdictIsEarned == PodSpec => []VerdictIsEarned
  <1>1. PodInit => Earned
    BY DEF PodInit, Earned
  <1>2. PodShape /\ Earned => VerdictIsEarned
    <2> SUFFICES ASSUME PodShape, Earned, verdict # "pending", target.kind \in QueryKinds,
                        \A a \in answer : Comparable(target.kind, target.criteria, a)
                 PROVE  verdict = "up" <=>
                            /\ Len(heard) = Len(Steps(target))
                            /\ \A i \in DOMAIN heard :
                                heard[i] = "failed" => Steps(target)[i] \in Tolerated
                            /\ HttpVerdict(target.requires, head)
                            /\ \A a \in answer : Meets(target.kind, target.criteria, a)
      BY DEF VerdictIsEarned
    <2>1. \A a \in answer :
            Accepts(target.kind, target.criteria, a) <=> Meets(target.kind, target.criteria, a)
      BY AcceptedMeets DEF PodShape, PodTypeOK
    <2> QED
      BY <2>1 DEF Earned, Passed
  <1> QED
    BY <1>1, <1>2, EarnedStep, AlwaysShape, PTL DEF PodSpec

-----------------------------------------------------------------------------
(* Time: the steps of a check that are limited end within their timeouts.  *)
AllTimed == \A i \in DOMAIN Steps(target) : Steps(target)[i] \in Timed

(* What has passed is within the limits of the steps that are over and the *)
(* one that is under way.                                                  *)
Limits ==
    /\ phase = "checking" /\ ~IsSocket /\ AllTimed =>
        elapsed - begun <= Timeout /\ begun - started <= Timeout * Len(heard)
    /\ phase = "checking" /\ IsSocket /\ result = "pending" =>
        /\ IF stage = "new" THEN begun = started
           ELSE begun - started <= (IF check.kind = "tcp" THEN Timeout ELSE 0)
        /\ elapsed - begun <=
            (IF stage = "new" /\ check.kind # "tcp" THEN 0 ELSE Timeout)

LEMMA TimesNext == ASSUME NEW t \in Nat, NEW n \in Nat PROVE t * (n + 1) = t * n + t
  OBVIOUS

LEMMA TimesMonotonic ==
    ASSUME NEW t \in Nat, NEW m \in Nat, NEW n \in Nat, m <= n
    PROVE  t * m <= t * n
  <1>1. PICK d \in Nat : n = m + d
    <2>1. n - m \in Nat /\ n = m + (n - m)
      OBVIOUS
    <2> QED
      BY <2>1
  <1>2. t * n = t * m + t * d
    BY <1>1
  <1>3. t * d \in Nat /\ t * m \in Nat
    OBVIOUS
  <1> QED
    BY <1>2, <1>3

LEMMA LimitsStep == PodShape /\ Settlement /\ Limits /\ [PodNext]_allVars => Limits'
  <1> SUFFICES ASSUME PodShape, Settlement, Limits, [PodNext]_allVars
               PROVE  Limits'
    OBVIOUS
  <1>0. /\ elapsed \in Nat /\ started \in Nat /\ begun \in Nat /\ Timeout \in Nat \ {0}
        /\ started <= begun /\ begun <= elapsed /\ PodTypeOK
    BY TimeAssumption DEF PodShape, PodTypeOK
  <1>1. CASE Tick
    <2>1. CASE phase = "checking" /\ ~IsSocket /\ AllTimed
      <3>1. Len(heard) < Len(Steps(target)) /\ Len(heard) \in Nat
        BY <2>1, LenProperties DEF PodShape, PodTypeOK, Phases
      <3>2. Current \in Timed
        BY <2>1, <3>1, StepsType, LenProperties DEF AllTimed, Current, PodShape, PodTypeOK
      <3>3. elapsed < begun + Timeout
        BY <1>0, <1>1, <2>1, <3>1, <3>2 DEF Tick, Due, Awaiting
      <3> QED
        BY <1>0, <1>1, <2>1, <3>3 DEF Tick, Limits, IsSocket, AllTimed, service, vars, runVars
    <2>2. CASE phase = "checking" /\ IsSocket /\ result = "pending"
      <3>1. CASE stage = "new"
        <4>1. check.kind = "tcp" /\ elapsed < begun + Timeout
          BY <1>0, <1>1, <2>2, <3>1 DEF Tick, Due
        <4> QED
          BY <1>0, <1>1, <2>2, <3>1, <4>1 DEF Tick, Limits, IsSocket, service, vars, runVars
      <3>2. CASE stage # "new"
        <4>1. timer = "armed" /\ Running
          BY <2>2, <3>2 DEF Settlement, NeverStranded, Running
        <4>2. elapsed < begun + Timeout
          BY <1>0, <1>1, <2>2, <4>1 DEF Tick, Due
        <4> QED
          BY <1>0, <1>1, <2>2, <3>2, <4>2 DEF Tick, Limits, IsSocket, service, vars, runVars
      <3> QED
        BY <3>1, <3>2
    <2> QED
      BY <1>1, <2>1, <2>2 DEF Tick, Limits, IsSocket, AllTimed, service, vars, runVars
  <1>2. CASE phase' # "checking"
    BY <1>2 DEF Limits
  <1>3. CASE Dispatch /\ phase' = "checking"
    <2>1. stage' = "new" /\ elapsed' - begun' = 0 /\ begun' - started' = 0
      BY <1>0, <1>3 DEF Dispatch, PodShape, Phases, vars
    <2>2. heard' = <<>> /\ Timeout * Len(<<>>) = 0
      BY <1>0, <1>3 DEF Dispatch, PodShape, Phases, service
    <2>3. begun' = started' /\ elapsed' - begun' <= 0 /\ 0 <= Timeout
      BY <1>0, <1>3 DEF Dispatch
    <2> QED
      BY <1>0, <2>1, <2>2, <2>3 DEF Limits
  <1>4. ASSUME NEW outcome \in {"answered", "failed"}, Awaiting, heard' = Append(heard, outcome),
               UNCHANGED <<target, elapsed, started>>, begun' = elapsed
        PROVE  Limits'
    <2>1. Len(heard') = Len(heard) + 1 /\ Len(heard) \in Nat
      BY <1>0, <1>4, HeardGrows
    <2>2. ~IsSocket
      <3>1. target.kind = "socket" => Steps(target) = <<>>
        BY DEF Steps, ContentKinds
      <3>2. Len(<<>>) = 0
        OBVIOUS
      <3> QED
        BY <1>4, <2>1, <3>1, <3>2 DEF Awaiting, IsSocket
    <2>3. CASE AllTimed
      <3>1. elapsed - begun <= Timeout /\ begun - started <= Timeout * Len(heard)
        BY <1>4, <2>2, <2>3 DEF Limits, Awaiting
      <3>2. Timeout * Len(heard') = Timeout * Len(heard) + Timeout
        BY <1>0, <2>1, TimesNext
      <3>3. Timeout * Len(heard) \in Nat
        BY <1>0, <2>1
      <3> QED
        BY <1>0, <1>4, <2>2, <3>1, <3>2, <3>3 DEF Limits, IsSocket
    <2> QED
      BY <1>4, <2>2, <2>3 DEF Limits, IsSocket, AllTimed
  <1>5. CASE (StepAnswers \/ StepFails \/ StepTimesOut) /\ phase' = "checking"
    <2>1. \E outcome \in {"answered", "failed"} :
            heard' = Append(heard, outcome) /\ begun' = elapsed
      BY <1>5 DEF StepAnswers, StepFails, StepTimesOut, Fails, Proceed, Settle
    <2> QED
      BY <1>4, <1>5, <2>1 DEF StepAnswers, StepFails, StepTimesOut, Fails
  <1>6. CASE SocketBegins
    <2>1. /\ IsSocket /\ phase = "checking" /\ stage = "new" /\ result = "pending"
          /\ stage' # "new" /\ check' = check
          /\ UNCHANGED <<target, elapsed, started, phase>> /\ begun' = elapsed
      BY <1>6 DEF SocketBegins, Begin, Settlement
    <2>2. begun = started /\ elapsed - begun <= (IF check.kind = "tcp" THEN Timeout ELSE 0)
      BY <1>0, <2>1 DEF Limits
    <2> QED
      BY <1>0, <2>1, <2>2 DEF Limits, IsSocket
  <1>7. CASE (SocketTimer \/ SocketStep) /\ result' = "pending"
    <2>1. /\ UNCHANGED <<target, phase, elapsed, started, begun, heard, check>>
          /\ result = "pending"
      <3>1. CASE SocketTimer
        BY <1>7, <3>1 DEF SocketTimer, TimerFires, Resolve, podVars, service
      <3>2. CASE SocketStep
        <4>1. [Next]_vars
          BY <3>2, PodSteps DEF PodNext
        <4>2. result # "pending" => result' = result
          BY <4>1, ResultStays DEF PodShape, PodTypeOK
        <4> QED
          BY <1>7, <3>2, <4>2
             DEF SocketStep, podVars, service, Connected, WriteReturns, Breaks, PeerSends,
                 TcpData, WebSocketMessage, SteamMessage
      <3> QED
        BY <1>7, <3>1, <3>2
    <2>2. stage = "new" <=> stage' = "new"
      BY <1>7, <2>1 DEF SocketTimer, SocketStep, TimerFires, Connected, WriteReturns, Breaks,
                       PeerSends, TcpData, WebSocketMessage, SteamMessage, Settlement, Live,
                       Begun
    <2> QED
      BY <2>1, <2>2 DEF Limits, IsSocket, AllTimed
  <1>8. CASE UNCHANGED allVars
    BY <1>8 DEF allVars, podVars, service, vars, runVars, Limits, IsSocket, AllTimed
  <1>9. CASE (SocketTimer \/ SocketStep) /\ result' # "pending"
    <2>1. UNCHANGED podVars /\ IsSocket
      BY <1>9 DEF SocketTimer, SocketStep
    <2> QED
      BY <1>9, <2>1 DEF Limits, IsSocket, podVars
  <1>10. CASE phase' = "checking" /\ (Start \/ LoadFails \/ Close \/ SocketReturns \/ Apply
                \/ Exit \/ ReportFails \/ Kill \/ Crash)
    BY <1>10 DEF Start, LoadFails, Close, SocketReturns, Apply, Exit, ReportFails, Kill,
                 Crash, Lose, Settle
  <1> QED
    BY <1>1, <1>2, <1>3, <1>5, <1>6, <1>7, <1>8, <1>9, <1>10 DEF PodNext

(* A check whose steps are all limited has its verdict within one timeout  *)
(* for each of its steps, a socket within one, or two with a lookup.       *)
THEOREM LimitedAlwaysEndsInTime == PodSpec => []LimitedEndsInTime
  <1>1. PodInit => Limits
    BY DEF PodInit, Limits
  <1>2. PodShape /\ Limits => LimitedEndsInTime
    <2> SUFFICES ASSUME PodShape, Limits, phase = "checking"
                 PROVE  LimitedEndsInTime
      BY DEF LimitedEndsInTime
    <2>1. /\ elapsed \in Nat /\ started \in Nat /\ begun \in Nat /\ Timeout \in Nat \ {0}
          /\ Len(heard) \in Nat /\ Len(Steps(target)) \in Nat
      BY TimeAssumption, StepsType, LenProperties DEF PodShape, PodTypeOK
    <2>2. CASE ~IsSocket /\ AllTimed
      <3>1. Len(heard) + 1 <= Len(Steps(target))
        BY <2>1, <2>2 DEF PodShape, Phases
      <3>2. Timeout * (Len(heard) + 1) <= Timeout * Len(Steps(target))
        BY <2>1, <3>1, TimesMonotonic
      <3>3. Timeout * (Len(heard) + 1) = Timeout * Len(heard) + Timeout
        BY <2>1, TimesNext
      <3>4. elapsed - begun <= Timeout /\ begun - started <= Timeout * Len(heard)
        BY <2>2 DEF Limits
      <3>5. Timeout * Len(heard) \in Nat /\ Timeout * Len(Steps(target)) \in Nat
        BY <2>1
      <3> QED
        BY <2>1, <2>2, <3>2, <3>3, <3>4, <3>5 DEF LimitedEndsInTime
    <2>3. CASE IsSocket /\ result = "pending"
      BY <2>1, <2>3 DEF Limits, LimitedEndsInTime, SocketLimit
    <2> QED
      BY <2>2, <2>3 DEF LimitedEndsInTime, AllTimed
  <1> QED
    BY <1>1, <1>2, LimitsStep, AlwaysShape, PTL DEF PodSpec

-----------------------------------------------------------------------------
(* The pod implements the promise of a check.                              *)
Held == Running /\ (open \/ socket = "live")

(* What a socket returned is the verdict.                                  *)
Agree == IsSocket /\ verdict # "pending" /\ stage # "new" => result = verdict

LEMMA PromiseMoves ==
    /\ Outcome = "pending" /\ Outcome' \in {"up", "down", "lost"} =>
           [PodPromise!Next]_(PodPromise!vars)
    /\ Outcome' = Outcome /\ Held' = Held => [PodPromise!Next]_(PodPromise!vars)
    /\ Outcome' = Outcome /\ Outcome = "pending" /\ (Held => Held') =>
           [PodPromise!Next]_(PodPromise!vars)
    /\ Outcome' = Outcome /\ Outcome # "pending" /\ (Held' => Held) =>
           [PodPromise!Next]_(PodPromise!vars)
  <1>1. Held \in BOOLEAN /\ Held' \in BOOLEAN
    BY Zenon DEF Held
  <1>2. ASSUME Outcome = "pending", Outcome' \in {"up", "down", "lost"}
        PROVE  [PodPromise!Next]_(PodPromise!vars)
    BY <1>1, <1>2 DEF PodPromise!Next, PodPromise!Decide, Held
  <1>3. ASSUME Outcome' = Outcome, Held' = Held
        PROVE  [PodPromise!Next]_(PodPromise!vars)
    BY <1>3 DEF PodPromise!vars, Held
  <1>4. ASSUME Outcome' = Outcome, Outcome = "pending", Held' /\ ~Held
        PROVE  [PodPromise!Next]_(PodPromise!vars)
    <2>1. PodPromise!Acquire
      BY <1>1, <1>4 DEF PodPromise!Acquire, Held
    <2> QED
      BY <2>1 DEF PodPromise!Next
  <1>5. ASSUME Outcome' = Outcome, Outcome # "pending", ~Held' /\ Held
        PROVE  [PodPromise!Next]_(PodPromise!vars)
    <2>1. PodPromise!Release
      BY <1>1, <1>5 DEF PodPromise!Release, Held
    <2> QED
      BY <2>1 DEF PodPromise!Next
  <1>6. (Held => Held') /\ (Held' => Held) => Held' = Held
    BY <1>1, Zenon
  <1> QED
    BY <1>2, <1>3, <1>4, <1>5, <1>6, Zenon

(* A step of a socket that begun: it is given up only with a result.       *)
LEMMA SocketKeeps ==
    ASSUME TypeOK, Settlement, SocketTimer \/ SocketStep
    PROVE  /\ IsSocket /\ Running /\ stage # "new" /\ stage' # "new"
           /\ UNCHANGED podVars
           /\ result # "pending" => result' = result
           /\ result' \in {"pending", "up", "down"}
           /\ socket' \in {socket, "destroyed"}
           /\ result' = "pending" => socket' = socket
  <1>1. CASE SocketTimer
    <2>1. stage # "new" /\ (~completed => result' \in {"up", "down"})
      BY <1>1, ResolveType DEF SocketTimer, TimerFires, Settlement
    <2> QED
      BY <1>1, <2>1, ResolveType DEF SocketTimer, TimerFires, TypeOK
  <1>2. CASE SocketStep
    <2>1. stage # "new" /\ stage' # "new"
      BY <1>2 DEF SocketStep, Connected, WriteReturns, Breaks, PeerSends, TcpData,
                  WebSocketMessage, SteamMessage, Live, Begun, Settlement
    <2>2. \/ UNCHANGED runVars
          \/ \E v \in {"up", "down"} : Finish(v)
      BY <1>2 DEF SocketStep, Connected, WriteReturns, Breaks, PeerSends, TcpData,
                  WebSocketMessage, SteamMessage, FinishOnce
    <2>3. ASSUME NEW v \in {"up", "down"}, Finish(v)
          PROVE  /\ result' \in {"up", "down"} /\ (result # "pending" => result' = result)
                 /\ socket' \in {socket, "destroyed"}
      BY <2>3, FinishType DEF Finish
    <2>4. CASE UNCHANGED runVars
      BY <1>2, <2>1, <2>4 DEF SocketStep, runVars, TypeOK
    <2>5. CASE \E v \in {"up", "down"} : Finish(v)
      BY <1>2, <2>1, <2>3, <2>5 DEF SocketStep
    <2> QED
      BY <2>2, <2>4, <2>5
  <1> QED
    BY <1>1, <1>2

LEMMA AgreeStep == PodShape /\ Settlement /\ Agree /\ [PodNext]_allVars => Agree'
  <1> SUFFICES ASSUME PodShape, Settlement, Agree, [PodNext]_allVars
               PROVE  Agree'
    OBVIOUS
  <1> USE DEF Agree, IsSocket
  <1>1. CASE Tick \/ Start \/ Close \/ Apply \/ Exit \/ ReportFails
    BY <1>1 DEF Tick, Start, Close, Apply, Exit, ReportFails, vars, runVars
  <1>2. CASE LoadFails \/ Dispatch
    <2>1. stage' = "new"
      BY <1>2 DEF LoadFails, Dispatch, vars, PodShape, Phases
    <2> QED
      BY <2>1
  <1>3. CASE StepAnswers \/ StepFails \/ StepTimesOut
    <2>1. UNCHANGED vars /\ UNCHANGED target /\ phase = "checking" /\ Len(heard) < Len(Steps(target))
      BY <1>3 DEF StepAnswers, StepFails, StepTimesOut, Fails, Awaiting
    <2>2. ~IsSocket
      <3>1. target.kind = "socket" => Steps(target) = <<>>
        BY DEF Steps, ContentKinds
      <3>2. Len(<<>>) = 0 /\ Len(heard) \in Nat
        BY LenProperties DEF PodShape, PodTypeOK
      <3> QED
        BY <2>1, <3>1, <3>2
    <2> QED
      BY <2>1, <2>2
  <1>4. CASE SocketBegins
    BY <1>4 DEF SocketBegins, PodShape, Phases
  <1>5. CASE SocketTimer \/ SocketStep
    BY <1>5, SocketKeeps DEF PodShape, PodTypeOK, podVars
  <1>6. CASE SocketReturns
    BY <1>6 DEF SocketReturns, Settle, vars, runVars
  <1>7. CASE Kill \/ Crash
    BY <1>7 DEF Kill, Crash, Lose, vars, runVars
  <1>8. CASE UNCHANGED allVars
    BY <1>8 DEF allVars, podVars, vars, runVars
  <1> QED
    BY <1>1, <1>2, <1>3, <1>4, <1>5, <1>6, <1>7, <1>8 DEF PodNext

LEMMA PodPromiseStep ==
    PodShape /\ Settlement /\ Agree /\ [PodNext]_allVars => [PodPromise!Next]_(PodPromise!vars)
  <1> SUFFICES ASSUME PodShape, Settlement, Agree, [PodNext]_allVars
               PROVE  [PodPromise!Next]_(PodPromise!vars)
    OBVIOUS
  <1>0. PodTypeOK /\ TypeOK
    BY DEF PodShape, PodTypeOK
  <1>1. ASSUME result = "pending", verdict = "pending", phase # "lost", UNCHANGED result,
               verdict' \in {"up", "down"}
        PROVE  [PodPromise!Next]_(PodPromise!vars)
    <2>1. Outcome = "pending" /\ Outcome' \in {"up", "down", "lost"}
      BY <1>1 DEF Outcome
    <2> QED
      BY <2>1, PromiseMoves
  <1>2. phase \in {"pending", "loading"} =>
            result = "pending" /\ verdict = "pending" /\ socket = "none" /\ ~open
    BY DEF PodShape, Phases, Settlement
  <1>3. CASE UNCHANGED <<phase, open, verdict, result, socket>>
    <2>1. Outcome' = Outcome /\ Held' = Held
      BY <1>3 DEF Outcome, Held, Running
    <2> QED
      BY <2>1, PromiseMoves
  <1>4. CASE Tick \/ UNCHANGED allVars
    BY <1>3, <1>4 DEF Tick, allVars, podVars, vars, runVars
  <1>5. CASE Start
    <2>1. Outcome' = Outcome /\ Outcome = "pending" /\ ~Held /\ ~Held'
      BY <1>2, <1>5 DEF Start, Outcome, Held, Running, vars, runVars
    <2> QED
      BY <2>1, PromiseMoves
  <1>6. CASE LoadFails
    BY <1>1, <1>2, <1>6 DEF LoadFails, Settle, vars, runVars
  <1>7. CASE Dispatch
    <2>1. CASE UNCHANGED verdict
      <3>1. Outcome' = Outcome /\ Outcome = "pending" /\ ~Held
        BY <1>2, <1>7, <2>1 DEF Dispatch, Outcome, Held, vars, runVars, Settle
      <3> QED
        BY <3>1, PromiseMoves
    <2>2. CASE \E v \in {"up", "down"} : Settle(v)
      BY <1>1, <1>2, <1>7, <2>2 DEF Dispatch, Settle, vars, runVars
    <2> QED
      BY <1>7, <2>1, <2>2 DEF Dispatch
  <1>8. CASE StepAnswers \/ StepFails \/ StepTimesOut
    <2>1. UNCHANGED vars /\ Awaiting
      BY <1>8 DEF StepAnswers, StepFails, StepTimesOut, Fails
    <2>2. result = "pending" /\ verdict = "pending" /\ phase = "checking"
      <3>1. target.kind = "socket" => Steps(target) = <<>>
        BY DEF Steps, ContentKinds
      <3>2. Len(<<>>) = 0 /\ Len(heard) \in Nat
        BY <1>0, LenProperties DEF PodTypeOK
      <3>3. ~IsSocket
        BY <2>1, <3>1, <3>2 DEF Awaiting, IsSocket
      <3> QED
        BY <2>1, <3>3 DEF PodShape, Phases, Settlement, Awaiting
    <2>3. CASE \E v \in {"up", "down"} : Settle(v)
      BY <1>1, <2>1, <2>2, <2>3 DEF Settle, vars, runVars
    <2>4. CASE /\ UNCHANGED <<phase, verdict>>
               /\ open' = (open \/ Steps(target)[Len(heard) + 2] = Opens(target.kind))
      <3>1. Outcome' = Outcome /\ Outcome = "pending"
        BY <2>1, <2>2, <2>4 DEF Outcome, vars, runVars
      <3>2. Held => Held'
        BY <2>1, <2>4 DEF Held, Running, vars, runVars
      <3>3. Held \in BOOLEAN /\ Held' \in BOOLEAN
        BY Zenon DEF Held
      <3> QED
        BY <3>1, <3>2, <3>3, PromiseMoves
    <2>5. \/ \E v \in {"up", "down"} : Settle(v)
          \/ /\ UNCHANGED <<phase, verdict>>
             /\ open' = (open \/ Steps(target)[Len(heard) + 2] = Opens(target.kind))
      BY <1>8 DEF StepAnswers, StepFails, StepTimesOut, Fails, Proceed
    <2> QED
      BY <2>3, <2>4, <2>5
  <1>9. CASE Close \/ Apply \/ Exit \/ ReportFails
    <2>1. /\ phase \in {"closing", "reporting", "stored"} /\ verdict # "pending"
          /\ UNCHANGED <<verdict, vars>> /\ phase' # "lost" /\ (open' => open)
      BY <1>9 DEF Close, Apply, Exit, ReportFails, PodShape, Phases
    <2>2. Outcome' = Outcome /\ Outcome # "pending"
      BY <2>1 DEF Outcome, vars, runVars
    <2>3. Held' => Held
      BY <2>1 DEF Held, Running, vars, runVars
    <2>4. Held \in BOOLEAN /\ Held' \in BOOLEAN
      BY Zenon DEF Held
    <2> QED
      BY <2>2, <2>3, <2>4, PromiseMoves
  <1>10. CASE SocketBegins
    <2>1. /\ verdict = "pending" /\ result = "pending" /\ phase = "checking"
          /\ UNCHANGED <<phase, verdict, open>> /\ ~open /\ socket = "none"
          /\ result' \in {"pending", "up", "down"}
      BY <1>0, <1>10, ResolveType
         DEF SocketBegins, Begin, PodShape, Phases, Settlement, service
    <2>2. Outcome = "pending" /\ Outcome' \in {"pending", "up", "down"} /\ ~Held
      BY <2>1 DEF Outcome, Held
    <2> QED
      BY <2>2, PromiseMoves
  <1>11. CASE SocketTimer \/ SocketStep
    <2>1. /\ IsSocket /\ Running /\ stage # "new" /\ UNCHANGED podVars
          /\ result # "pending" => result' = result
          /\ result' \in {"pending", "up", "down"}
          /\ socket' \in {socket, "destroyed"}
          /\ result' = "pending" => socket' = socket
      BY <1>0, <1>11, SocketKeeps
    <2>2. UNCHANGED <<phase, verdict, open>> /\ ~open
      BY <2>1 DEF podVars, PodShape, Phases
    <2>3. CASE result = "pending" /\ result' # "pending"
      <3>1. verdict = "pending" /\ phase # "lost"
        BY <2>1, <2>3 DEF Agree, Running
      <3>2. Outcome = "pending" /\ Outcome' \in {"up", "down", "lost"}
        BY <2>1, <2>3, <3>1 DEF Outcome
      <3> QED
        BY <3>2, PromiseMoves
    <2>4. CASE result # "pending"
      <3>1. Outcome' = Outcome /\ Outcome # "pending"
        BY <2>1, <2>2, <2>4 DEF Outcome
      <3>2. Held' => Held
        BY <2>1, <2>2 DEF Held, Running
      <3>3. Held \in BOOLEAN /\ Held' \in BOOLEAN
        BY Zenon DEF Held
      <3> QED
        BY <3>1, <3>2, <3>3, PromiseMoves
    <2>5. CASE result' = "pending"
      BY <1>3, <2>1, <2>2, <2>5
    <2> QED
      BY <2>3, <2>4, <2>5
  <1>12. CASE SocketReturns
    <2>1. /\ result # "pending" /\ UNCHANGED <<result, socket>> /\ ~open /\ ~open'
          /\ phase = "checking" /\ phase' = "reporting"
      BY <1>12 DEF SocketReturns, Settle, PodShape, Phases, IsSocket, vars, runVars
    <2>2. Outcome' = Outcome /\ Held' = Held
      BY <2>1 DEF Outcome, Held, Running
    <2> QED
      BY <2>2, PromiseMoves
  <1>13. CASE Kill \/ Crash
    <2>1. phase' = "lost" /\ phase # "lost" /\ UNCHANGED <<verdict, result>>
      BY <1>13 DEF Kill, Crash, Lose, Running, vars, runVars
    <2>2. ~Held' /\ Held \in BOOLEAN
      BY <2>1, Zenon DEF Held, Running
    <2>3. \/ Outcome = "pending" /\ Outcome' = "lost"
          \/ Outcome # "pending" /\ Outcome' = Outcome
      BY <2>1 DEF Outcome
    <2> QED
      BY <2>2, <2>3, PromiseMoves
  <1> QED
    BY <1>4, <1>5, <1>6, <1>7, <1>8, <1>9, <1>10, <1>11, <1>12, <1>13 DEF PodNext

(* A pod gives its check one verdict, or is lost before, and holds nothing *)
(* once it is over: it implements CheckOnce.                               *)
THEOREM PodImplementsPromise == PodSpec => PodPromise!Spec
  <1>1. PodInit => PodPromise!Init
    <2> SUFFICES ASSUME PodInit
                 PROVE  PodPromise!Init
      OBVIOUS
    <2>1. Outcome = "pending"
      BY DEF PodInit, Init, Outcome
    <2>2. ~Held
      BY DEF PodInit, Held, Running
    <2>3. Held = FALSE
      BY <2>2, Zenon DEF Held
    <2> QED
      BY <2>1, <2>3 DEF PodPromise!Init, Held
  <1>2. PodInit => Agree
    BY DEF PodInit, Agree
  <1> QED
    BY <1>1, <1>2, AgreeStep, PodPromiseStep, AlwaysShape, PTL DEF PodSpec, PodPromise!Spec
=============================================================================
