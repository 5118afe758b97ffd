------------------------------ MODULE Verdicts ------------------------------
(***************************************************************************)
(* How a checker judges the answer of the service it checks.               *)
(*                                                                         *)
(* A criterion that is not set is the empty set, one that is set is the    *)
(* set of its value: \A n \in c.count : P(n) demands P of a count only if  *)
(* there is one.  A string is the set of the words it includes.            *)
(***************************************************************************)
EXTENDS XPathQuery, FiniteSets

First(values) == IF values = <<>> THEN {} ELSE {Head(values)}

(* What the three query checks have in common.                             *)
Counted(c, values) ==
    /\ \A wanted \in c.exists : wanted = (values # <<>>)
    /\ \A n \in c.count : Len(values) = n

-----------------------------------------------------------------------------
(* head is what holds of a response among "accepted" (its status code),    *)
(* "typed" (its content type) and "fast" (its latency).                    *)
HttpVerdict(requires, head) == requires \subseteq head

Broken == "broken"  \* a pattern that is no regular expression

Fits(pattern, string) == pattern # Broken /\ pattern \in string

KeywordVerdict(c, body) ==
    /\ c.contains \subseteq body
    /\ c.notContains \cap body = {}
    /\ \A pattern \in c.regex : Fits(pattern, body)

(* A value of a JSON document: the number it converts to, if it is one (a  *)
(* null is 0), and its words.  A path that is none has no result.          *)
QueryJsonPath(c, document) == IF c.path \in DOMAIN document THEN {document[c.path]} ELSE {}

ValidateJsonPathResult(c, document) ==
    \E values \in QueryJsonPath(c, document) :
        /\ Counted(c, values)
        /\ \A v \in c.equals : First(values) = {v}
        /\ \A word \in c.contains : \E first \in First(values) : word \in first.words
        /\ \A n \in c.greaterThan :
            \E first \in First(values) : \E m \in first.number : m > n
        /\ \A n \in c.lessThan : \E first \in First(values) : \E m \in first.number : m < n

(* Any string includes the empty one.                                      *)
Includes(string, part) == part \in string \cup {""}

(* A value that is missing is the empty string.                            *)
ValidateXPathResult(c, values) ==
    LET first == IF values = <<>> THEN {} ELSE Head(values)
    IN  /\ Counted(c, values)
        /\ \A v \in c.equals : first = v
        /\ \A part \in c.contains : Includes(first, part)

(* The elements a selector finds, each with its text and the values of the *)
(* attribute asked for.  What is asked of the first one is not asked if    *)
(* there is none.                                                          *)
ValidateCssSelectorResult(c, elements) ==
    /\ Counted(c, elements)
    /\ \A first \in First(elements) :
        /\ \A v \in c.text.equals : first.text = v
        /\ \A word \in c.text.contains : word \in first.text
        /\ \A pattern \in c.text.matches : Fits(pattern, first.text)
        /\ \A wanted \in c.attribute.exists : wanted = (first.attribute # {})
        /\ \A v \in c.attribute.equals : first.attribute = {v}
        /\ \A word \in c.attribute.contains : \E v \in first.attribute : word \in v

-----------------------------------------------------------------------------
(* Records are the strings of the answer.                                  *)
DnsVerdict(expected, records) ==
    /\ records # {}
    /\ expected = {} \/ \E word \in expected, r \in records : word \in r

GrpcVerdict(status) == status = "SERVING"

PingVerdict(output) == "time" \in output \/ output \cap {"unreachable", "lost"} = {}

RedisVerdict(reply) == reply = "PONG"

(* What is found of a workload: whether it runs, how many of its replicas, *)
(* addresses or containers are ready, and of how many.  A pod that is      *)
(* ready counts as one, one that is not as its ready containers.           *)
KubernetesVerdict(c, found) ==
    LET ready == IF c.workload = "Pod" /\ found.running /\ found.ready = found.total
                 THEN 1 ELSE found.ready
        least == IF c.min \in {{}, {0}} THEN 1 ELSE CHOOSE n \in c.min : TRUE
    IN  ready >= least /\ ready > 0

(* last is the result in the status of the monitor, if there is one; it is *)
(* fresh within the grace period.                                          *)
PushVerdict(last) == \E result \in last : result.fresh /\ result.state = "up"

-----------------------------------------------------------------------------
Accepts(kind, c, answer) ==
    CASE kind = "keyword" -> KeywordVerdict(c, answer)
      [] kind = "jsonQuery" -> ValidateJsonPathResult(c, answer)
      [] kind = "xmlQuery" -> ValidateXPathResult(c, QueryXPath(answer, c.path))
      [] kind = "htmlQuery" -> ValidateCssSelectorResult(c, answer)
      [] kind = "dns" -> DnsVerdict(c, answer)
      [] kind = "grpc" -> GrpcVerdict(answer)
      [] kind = "ping" -> PingVerdict(answer)
      [] kind = "redis" -> RedisVerdict(answer)
      [] kind = "k8s" -> KubernetesVerdict(c, answer)
      [] OTHER -> TRUE
=============================================================================
