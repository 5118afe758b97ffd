----------------------------- MODULE CheckerPod -----------------------------
(***************************************************************************)
(* The pod of one check, from its Job to its exit: it loads the monitor,   *)
(* runs the checker of its type, writes the result into the status of the  *)
(* monitor and exits.  The Job does not retry; at its deadline it kills    *)
(* the pod, whatever it is at.                                             *)
(*                                                                         *)
(* A checker is a sequence of steps, each of them awaited: a lookup, a     *)
(* request, a connection, a query.  Some are limited by the timeout of the *)
(* monitor, each anew, others by nothing.  The checkers that drive a       *)
(* socket of their own are those of SocketChecks.                          *)
(***************************************************************************)
EXTENDS SocketChecks, Verdicts

CONSTANTS
    Targets,    \* the monitors, by what their check depends on
    Answers,    \* what services may answer, for each kind of check
    Timeout,    \* timeoutSeconds, in ticks
    Deadline    \* activeDeadlineSeconds, in ticks

ContentKinds == {"keyword", "jsonQuery", "xmlQuery", "htmlQuery"}
QueryKinds == {"http", "grpc", "postgresql", "mysql", "redis", "ping", "k8s", "dns"}
                \cup ContentKinds

(* configured: the target has the fields its checker asks for, and there   *)
(* is a checker.  needs: the steps that depend on the spec.  credentials:  *)
(* the environment from its Secret, or "missing" if that does not exist.   *)
(* A content check without criteria is an "http" check.                    *)
ASSUME TargetsAssumption ==
    \A t \in Targets :
        /\ t.kind \in QueryKinds \cup {"socket", "push"}
        /\ t.configured \in BOOLEAN
        /\ t.needs \subseteq {"resolve", "auth", "secret"}
        /\ t.requires # {} => t.kind \in {"http"} \cup ContentKinds
        /\ t.credentials \in {"given", "empty", "missing"}
        /\ t.kind \in QueryKinds => Answers[t.kind] # {}
        /\ t.kind = "xmlQuery" =>
            IsPath(t.criteria.path) /\ \A a \in Answers["xmlQuery"] : IsDocument(a)
        /\ t.kind = "k8s" =>
            /\ t.criteria.min \subseteq Nat /\ \A m, n \in t.criteria.min : m = n
            /\ \A a \in Answers["k8s"] : a.ready \in Nat
ASSUME TimeAssumption == Timeout \in Nat \ {0} /\ Deadline \in Nat

VARIABLES
    target,     \* the monitor
    phase,      \* "pending", "loading", "checking", "closing", "reporting",
                \* "stored", "exited" or "lost"
    heard,      \* for each step that is over, "answered" or "failed"
    head,       \* what held of the first response
    answer,     \* the answer to be judged, if there is one
    open,       \* whether a client of a library is open
    verdict,    \* "pending", "up" or "down"
    stored,     \* lastResult in the status of the monitor, if there is one
    exit,       \* "none", "healthy" (0), "unhealthy" (1) or "error" (2)
    elapsed,    \* the clock, from the start of the Job
    started,    \* when the checker was called
    begun       \* when the current step began

service == <<heard, head, answer>>
podVars == <<target, phase, service, open, verdict, stored, exit, elapsed, started, begun>>
allVars == <<podVars, vars>>

-----------------------------------------------------------------------------
(* The steps of a check.                                                   *)
Needed(t, step) == IF step \in t.needs THEN <<step>> ELSE <<>>

(* The name is asked of the resolvers, if there are any and it is no       *)
(* address.                                                                *)
ResolveStep(t) == Needed(t, "resolve")

(* The token of OAuth, or whatever credentials the environment is to hold. *)
AuthStep(t) == Needed(t, "auth")

(* The Secrets of headers, read without a limit.                           *)
SecretStep(t) == Needed(t, "secret")

HttpSteps(t) == ResolveStep(t) \o AuthStep(t) \o SecretStep(t) \o <<"request">>

(* The body is that of a second request, without the credentials and the   *)
(* method of the first; its status is not looked at.                       *)
KeywordSteps(t) == HttpSteps(t) \o <<"content", "body">>

GrpcSteps(t) == ResolveStep(t) \o <<"call">>

(* connect: what the library limits by the timeout it is given; query: all *)
(* that comes after.                                                       *)
PostgreSqlSteps == <<"connect", "query">>

MySqlSteps == <<"connect", "query">>

RedisSteps == <<"connect", "query">>

PingSteps == <<"exec">>

KubernetesSteps == <<"read">>

DnsSteps == <<"lookup">>

Steps(t) ==
    CASE t.kind = "http" -> HttpSteps(t)
      [] t.kind \in ContentKinds -> KeywordSteps(t)
      [] t.kind = "grpc" -> GrpcSteps(t)
      [] t.kind = "postgresql" -> PostgreSqlSteps
      [] t.kind = "mysql" -> MySqlSteps
      [] t.kind = "redis" -> RedisSteps
      [] t.kind = "ping" -> PingSteps
      [] t.kind = "k8s" -> KubernetesSteps
      [] t.kind = "dns" -> DnsSteps
      [] OTHER -> <<>>

Timed == {"resolve", "auth", "request", "content", "call", "connect", "exec"}

(* A failure of these is logged, and the check goes on without.            *)
Tolerated == {"resolve", "secret"}

(* The step at whose beginning there is a client to be closed in the end;  *)
(* that of mysql is its connection.                                        *)
Opens(kind) ==
    CASE kind \in {"postgresql", "redis"} -> "connect"
      [] kind = "mysql" -> "query"
      [] kind = "grpc" -> "call"
      [] OTHER -> "none"

(* The checker turns the monitor down before its first step.  The others   *)
(* that use credentials find out in a step.                                *)
Rejected(t) ==
    \/ ~t.configured
    \/ t.kind \in {"postgresql", "mysql", "redis"} /\ t.credentials = "empty"

-----------------------------------------------------------------------------
(* Time.                                                                   *)
Running == phase \notin {"pending", "exited", "lost"}
IsSocket == target.kind = "socket"
Awaiting == phase = "checking" /\ Len(heard) < Len(Steps(target))
Current == Steps(target)[Len(heard) + 1]

(* Mutant: only the first request is given a timer.                        *)
DueForRequestOnly ==
    \/ Awaiting /\ Current = "request" /\ elapsed >= begun + Timeout
    \/ IsSocket /\ Running /\ timer = "armed" /\ elapsed >= begun + Timeout

(* A timer is about to fire, or the name to be given up: it is no later.   *)
Due ==
    \/ Awaiting /\ Current \in Timed /\ elapsed >= begun + Timeout
    \/ IsSocket /\ Running /\ timer = "armed" /\ elapsed >= begun + Timeout
    \/ /\ IsSocket /\ phase = "checking" /\ stage = "new"
       /\ check.kind = "tcp" => elapsed >= begun + Timeout

(* Mutant: the Job has no deadline.                                        *)
TickOn ==
    /\ phase \notin {"exited", "lost"}
    /\ ~Due
    /\ elapsed' = elapsed + 1
    /\ UNCHANGED <<target, phase, service, open, verdict, stored, exit, started, begun, vars>>

Tick ==
    /\ phase \notin {"exited", "lost"}
    /\ elapsed < Deadline /\ ~Due
    /\ elapsed' = elapsed + 1
    /\ UNCHANGED <<target, phase, service, open, verdict, stored, exit, started, begun, vars>>

-----------------------------------------------------------------------------
(* Mutant: what is open is left open if the check fails.                   *)
SettleOpen(v) ==
    /\ verdict' = v
    /\ phase' = IF open /\ v = "up" THEN "closing" ELSE "reporting"
    /\ UNCHANGED open

(* The checker returns: first the client is closed, which only the call of *)
(* grpc does at once.                                                      *)
Settle(v) ==
    /\ verdict' = v
    /\ \/ open /\ target.kind # "grpc" /\ phase' = "closing" /\ UNCHANGED open
       \/ (~open \/ target.kind = "grpc") /\ phase' = "reporting" /\ open' = FALSE

(* The pod starts, which it never does without the Secret its environment  *)
(* refers to.                                                              *)
Start ==
    /\ phase = "pending"
    /\ target.credentials # "missing"
    /\ phase' = "loading"
    /\ UNCHANGED <<target, service, open, verdict, stored, exit, elapsed, started, begun, vars>>

LoadFails ==
    /\ phase = "loading"
    /\ Settle("down")
    /\ UNCHANGED <<target, service, stored, exit, elapsed, started, begun, vars>>

(* The monitor is loaded and the checker of its type called.  A push       *)
(* monitor is judged by the last result, of this check itself.             *)
Dispatch ==
    /\ phase = "loading"
    /\ started' = elapsed /\ begun' = elapsed
    /\ \/ /\ Rejected(target) \/ target.kind = "push"
          /\ Settle(IF ~Rejected(target) /\ PushVerdict(stored) THEN "up" ELSE "down")
       \/ /\ ~Rejected(target) /\ target.kind # "push"
          /\ phase' = "checking"
          /\ open' = (~IsSocket /\ Steps(target)[1] = Opens(target.kind))
          /\ UNCHANGED verdict
    /\ UNCHANGED <<target, service, stored, exit, elapsed, vars>>

(* The next step begins; after the last one the answer is judged.          *)
Proceed(outcome, given) ==
    /\ heard' = Append(heard, outcome)
    /\ answer' = given
    /\ begun' = elapsed
    /\ \/ /\ Len(heard) + 1 < Len(Steps(target))
          /\ open' = (open \/ Steps(target)[Len(heard) + 2] = Opens(target.kind))
          /\ UNCHANGED <<phase, verdict>>
       \/ /\ Len(heard) + 1 = Len(Steps(target))
          /\ Settle(IF \A a \in given : Accepts(target.kind, target.criteria, a)
                    THEN "up" ELSE "down")

StepAnswers ==
    /\ Awaiting
    /\ \/ /\ Current = "request"
          /\ head' \in SUBSET target.requires
          /\ \/ HttpVerdict(target.requires, head') /\ Proceed("answered", {})
             \/ /\ ~HttpVerdict(target.requires, head')
                /\ heard' = Append(heard, "answered")
                /\ Settle("down")
                /\ UNCHANGED <<answer, begun>>
       \/ /\ Current # "request" /\ Len(heard) + 1 < Len(Steps(target))
          /\ Proceed("answered", {})
          /\ UNCHANGED head
       \/ /\ Current # "request" /\ Len(heard) + 1 = Len(Steps(target))
          /\ \E a \in Answers[target.kind] : Proceed("answered", {a})
          /\ UNCHANGED head
    /\ UNCHANGED <<target, stored, exit, elapsed, started, vars>>

(* Mutant: when the content cannot be had, the result of the first request *)
(* is returned.                                                            *)
FailsAsBefore ==
    /\ \/ Current \in Tolerated /\ Proceed("failed", {})
       \/ /\ Current \notin Tolerated
          /\ heard' = Append(heard, "failed")
          /\ Settle(IF Current = "content" THEN "up" ELSE "down")
          /\ UNCHANGED <<answer, begun>>
    /\ UNCHANGED <<target, head, stored, exit, elapsed, started, vars>>

(* An error, whatever its kind: none leaves the checker without a verdict. *)
Fails ==
    /\ \/ Current \in Tolerated /\ Proceed("failed", {})
       \/ /\ Current \notin Tolerated
          /\ heard' = Append(heard, "failed")
          /\ Settle("down")
          /\ UNCHANGED <<answer, begun>>
    /\ UNCHANGED <<target, head, stored, exit, elapsed, started, vars>>

StepFails == Awaiting /\ Fails

StepTimesOut == Awaiting /\ Due /\ Fails

(* The client is closed, or its close fails, which is ignored.             *)
Close ==
    /\ phase = "closing"
    /\ phase' = "reporting" /\ open' = FALSE
    /\ UNCHANGED <<target, service, verdict, stored, exit, elapsed, started, begun, vars>>

-----------------------------------------------------------------------------
(* The checkers of SocketChecks, as long as the process lives.             *)
SocketBegins ==
    /\ IsSocket /\ phase = "checking"
    /\ Begin
    /\ begun' = elapsed
    /\ UNCHANGED <<target, phase, service, open, verdict, stored, exit, elapsed, started>>

SocketTimer ==
    /\ IsSocket /\ Running /\ elapsed >= begun + Timeout
    /\ TimerFires
    /\ UNCHANGED podVars

SocketStep ==
    /\ IsSocket /\ Running
    /\ \/ Connected
       \/ WriteReturns
       \/ Breaks
       \/ \E piece \in Pieces[check.kind] : PeerSends(piece)
       \/ TcpData
       \/ WebSocketMessage
       \/ SteamMessage
    /\ UNCHANGED podVars

SocketReturns ==
    /\ IsSocket /\ phase = "checking" /\ result # "pending"
    /\ Settle(result)
    /\ UNCHANGED <<target, service, stored, exit, elapsed, started, begun, vars>>

-----------------------------------------------------------------------------
(* The end of the pod.                                                     *)

(* The API server applies the patch of the status.                         *)
Apply ==
    /\ phase = "reporting"
    /\ phase' = "stored"
    /\ stored' = {[state |-> verdict, fresh |-> TRUE]}
    /\ UNCHANGED <<target, service, open, verdict, exit, elapsed, started, begun, vars>>

Exit ==
    /\ phase = "stored"
    /\ phase' = "exited"
    /\ exit' = IF verdict = "up" THEN "healthy" ELSE "unhealthy"
    /\ UNCHANGED <<target, service, open, verdict, stored, elapsed, started, begun, vars>>

(* Mutant: an error of the patch is logged, no more.                       *)
ReportFailsSilently ==
    /\ phase \in {"reporting", "stored"}
    /\ phase' = "exited"
    /\ exit' = IF verdict = "up" THEN "healthy" ELSE "unhealthy"
    /\ UNCHANGED <<target, service, open, verdict, stored, elapsed, started, begun, vars>>

(* The patch, or only its answer, is lost or refused.                      *)
ReportFails ==
    /\ phase \in {"reporting", "stored"}
    /\ phase' = "exited"
    /\ exit' = "error"
    /\ UNCHANGED <<target, service, open, verdict, stored, elapsed, started, begun, vars>>

Lose ==
    /\ phase' = "lost"
    /\ UNCHANGED <<target, service, open, verdict, stored, exit, elapsed, started, begun, vars>>

(* Mutant: the deadline holds only for a pod that does not start.          *)
KillPending == phase = "pending" /\ elapsed = Deadline /\ Lose

Kill == phase \notin {"exited", "lost"} /\ elapsed = Deadline /\ Lose

(* The pod is evicted, or its process crashes.                             *)
Crash == Running /\ Lose

-----------------------------------------------------------------------------
PodInit ==
    /\ Init
    /\ target \in Targets
    /\ ~IsSocket => check = CHOOSE c \in Check : TRUE
    /\ phase = "pending" /\ heard = <<>> /\ head = {} /\ answer = {}
    /\ open = FALSE /\ verdict = "pending"
    /\ stored \in {{}} \cup {{[state |-> s, fresh |-> f]} : s \in {"up", "down"}, f \in BOOLEAN}
    /\ stored # {} => target.kind = "push"
    /\ exit = "none" /\ elapsed = 0 /\ started = 0 /\ begun = 0

PodNext ==
    \/ Tick
    \/ Start
    \/ LoadFails
    \/ Dispatch
    \/ StepAnswers
    \/ StepFails
    \/ StepTimesOut
    \/ Close
    \/ SocketBegins
    \/ SocketTimer
    \/ SocketStep
    \/ SocketReturns
    \/ Apply
    \/ Exit
    \/ ReportFails
    \/ Kill
    \/ Crash

PodSpec == PodInit /\ [][PodNext]_allVars

(* Time passes, timers fire and the deadline is enforced.  Nothing is      *)
(* promised of a service, of the API server or of a client that closes.    *)
PodFairSpec ==
    /\ PodSpec
    /\ WF_allVars(Tick) /\ WF_allVars(Kill)
    /\ WF_allVars(StepTimesOut) /\ WF_allVars(SocketBegins) /\ WF_allVars(SocketTimer)

-----------------------------------------------------------------------------
(* The shape of the state: no step is over before it was begun, and the    *)
(* pod does not outlive its deadline.                                      *)
PodTypeOK ==
    /\ TypeOK
    /\ target \in Targets
    /\ phase \in {"pending", "loading", "checking", "closing", "reporting", "stored",
                  "exited", "lost"}
    /\ heard \in Seq({"answered", "failed"}) /\ Len(heard) <= Len(Steps(target))
    /\ head \subseteq target.requires
    /\ answer # {} => target.kind \in QueryKinds /\ answer \subseteq Answers[target.kind]
    /\ Cardinality(answer) <= 1
    /\ open \in BOOLEAN
    /\ verdict \in {"pending", "up", "down"}
    /\ stored \subseteq [state : {"up", "down"}, fresh : BOOLEAN]
    /\ exit \in {"none", "healthy", "unhealthy", "error"}
    /\ elapsed \in 0..Deadline /\ started \in 0..elapsed /\ begun \in started..elapsed

(* What the answer is worth by the documentation: an XPath selects what    *)
(* XPath says, and replicas are counted.                                   *)
Meets(kind, c, a) ==
    CASE kind = "xmlQuery" -> ValidateXPathResult(c, XPathValues(a, c.path))
      [] kind = "k8s" -> \A n \in c.min \cup {1} : a.ready >= n
      [] OTHER -> Accepts(kind, c, a)

(* The answers on which the code is not to agree with that: the documents  *)
(* for which its XPath is too simple, and pods, of which the documentation *)
(* wants all containers ready and the code only the least number.          *)
Comparable(kind, c, a) ==
    /\ kind = "xmlQuery" => Plain(a, c.path) /\ (c.path.anywhere => c.equals \cup c.contains = {})
    /\ kind = "k8s" => c.workload # "Pod"

(* A verdict is up exactly if every step of the check was answered in its  *)
(* time, those that are tolerated excepted, and the answers meet the       *)
(* criteria: no error, timeout or order of them passes for an answer, and  *)
(* no answer for an error.                                                 *)
VerdictIsEarned ==
    /\ verdict # "pending" /\ target.kind \in QueryKinds
    /\ \A a \in answer : Comparable(target.kind, target.criteria, a)
    => (verdict = "up" <=>
            /\ Len(heard) = Len(Steps(target))
            /\ \A i \in DOMAIN heard : heard[i] = "failed" => Steps(target)[i] \in Tolerated
            /\ HttpVerdict(target.requires, head)
            /\ \A a \in answer : Meets(target.kind, target.criteria, a))

(* An XPath selects from whatever document is answered what XPath selects. *)
(* lib/parsers/xpath.ts:29 lists "Supported syntax", /root/child/element   *)
(* and /element/text() among it, and says of no document that it is not.   *)
(* The code finds nothing below elements that share a name with a sibling, *)
(* nor for a predicate that is not legible, nor the text of a boolean.     *)
XPathIsHonoured ==
    verdict # "pending" /\ target.kind = "xmlQuery" /\ answer # {}
    => (verdict = "up" <=> \A a \in answer : Meets("xmlQuery", target.criteria, a))

(* A pod is up only if it is running with all of its containers ready:     *)
(* docs/reference/monitors/kubernetes.md:51 has it healthy if "Pod phase = *)
(* Running, containers ready".  The code counts its ready containers as    *)
(* replicas, of which one is enough, and then no longer asks if it runs.   *)
PodsAreWhole ==
    verdict = "up" /\ target.kind = "k8s" /\ target.criteria.workload = "Pod"
    => \A a \in answer : a.running /\ a.ready = a.total

(* When a result is reported no client is open: whichever step failed or   *)
(* timed out, its client was closed first.                                 *)
ClientsAreClosed == phase \in {"reporting", "stored", "exited"} => ~open

(* A pod that exits healthy or unhealthy has stored that very result; one  *)
(* that could not store it exits with an error, and one that is killed     *)
(* does not exit.                                                          *)
ExitFollowsStore ==
    exit \in {"healthy", "unhealthy"} =>
        /\ verdict = IF exit = "healthy" THEN "up" ELSE "down"
        /\ stored = {[state |-> verdict, fresh |-> TRUE]}

(* A check whose steps are all limited has its verdict within one timeout  *)
(* for each of them, not within one timeout.                               *)
SocketLimit == IF check.kind = "tcp" THEN 2 * Timeout ELSE Timeout

LimitedEndsInTime ==
    /\ phase = "checking"
    /\ IF IsSocket THEN result = "pending"
       ELSE \A i \in DOMAIN Steps(target) : Steps(target)[i] \in Timed
    => elapsed - started <= IF IsSocket THEN SocketLimit ELSE Timeout * Len(Steps(target))

(* No check is under way for longer than the timeout of its monitor, which *)
(* docs/guide/monitors.md:64 calls "Max time for check".  The code gives   *)
(* it to each of its requests anew.                                        *)
TimeoutIsMax == phase = "checking" => elapsed - started <= Timeout

(* The pod implements the promise: one verdict, or none if it is lost      *)
(* first, and in the end nothing is held, whatever never answers.          *)
Outcome ==
    CASE result # "pending" -> result
      [] result = "pending" /\ verdict # "pending" -> verdict
      [] OTHER -> IF phase = "lost" THEN "lost" ELSE "pending"

PodPromise == INSTANCE CheckOnce
    WITH verdict <- Outcome, held <- Running /\ (open \/ socket = "live")

PodKeepsPromise == PodPromise!FairSpec
=============================================================================
