------------------------------ MODULE MCChecks ------------------------------
(* Small instances of CheckerPod for TLC: each kind of check with the      *)
(* criteria and the answers that tell its cases apart.                     *)
EXTENDS CheckerPod

Target(kind, needs, requires, criteria) ==
    [kind |-> kind, configured |-> TRUE, needs |-> needs, requires |-> requires,
     credentials |-> "given", criteria |-> criteria]

Accepted == {"accepted"}

-----------------------------------------------------------------------------
(* JSON values and criteria.                                               *)
One == [number |-> {1}, words |-> {"1"}]
Seven == [number |-> {7}, words |-> {"7"}]
Null == [number |-> {0}, words |-> {}]
Word == [number |-> {}, words |-> {"ok"}]

JsonDocuments == {[p |-> values] : values \in {<<>>, <<One>>, <<Seven, One>>, <<Null>>, <<Word>>}}

NoCriteria == [path |-> "p", exists |-> {}, count |-> {}, equals |-> {}, contains |-> {},
               greaterThan |-> {}, lessThan |-> {}]

JsonCriteria ==
    {NoCriteria, [NoCriteria EXCEPT !.path = "q"],
     [NoCriteria EXCEPT !.exists = {TRUE}], [NoCriteria EXCEPT !.exists = {FALSE}],
     [NoCriteria EXCEPT !.count = {1}, !.lessThan = {5}],
     [NoCriteria EXCEPT !.equals = {One}], [NoCriteria EXCEPT !.contains = {"ok"}],
     [NoCriteria EXCEPT !.greaterThan = {1}]}

-----------------------------------------------------------------------------
(* XML documents of up to three elements, the first of them the root, and  *)
(* the paths into them.                                                    *)
Node(parent, name, text, attr) ==
    [parent |-> parent, name |-> name, text |-> text, attr |-> attr]

As(words) == [text |-> words, written |-> words]

X == As({"x"})
Truth == As({"true"})
Number == [text |-> {"2.50", "2.5"}, written |-> {"2.5"}]
V == As({"v"})
Padded == [text |-> {"v", "blank"}, written |-> {"v"}]

Leaves(parent) == {Node(parent, name, text, attr) :
    name \in {"a", "b"}, text \in {{}, {X}, {Number}, {Truth}}, attr \in {{}, {V}}}

XmlDocuments ==
    LET root == Node(0, "a", {}, {})
        two == {<<root, leaf>> : leaf \in Leaves(1) \cup {Node(1, "b", {X}, {Padded})}}
        three == {<<root, first, last>> :
                    first \in {e \in Leaves(1) : e.text = {X}},
                    last \in {e \in Leaves(1) \cup Leaves(2) : e.text \in {{}, {X}}}}
    IN  two \cup {d \in three : d[3].parent = 2 \/ d[2].name = "a" \/ d[3].name = "b"}

Child(name) == [name |-> name, value |-> {}, legible |-> TRUE]

With(name, legible) == [name |-> name, value |-> {{"v"}}, legible |-> legible]

Path(anywhere, parts, final) == [anywhere |-> anywhere, parts |-> parts, final |-> final]

TextPath == Path(FALSE, <<Child("a"), Child("b")>>, "text")

Paths ==
    {TextPath,
     Path(FALSE, <<Child("a"), With("b", TRUE)>>, "element"),
     Path(TRUE, <<Child("a")>>, "element"),
     Path(TRUE, <<With("b", FALSE)>>, "attribute"),
     Path(TRUE, <<Child("a"), Child("b")>>, "text")}

XmlNoCriteria(path) == [path |-> path, exists |-> {}, count |-> {}, equals |-> {}, contains |-> {}]

XmlCriteria ==
    {[XmlNoCriteria(path) EXCEPT !.count = {1}] : path \in Paths}
    \cup {[XmlNoCriteria(path) EXCEPT !.exists = {TRUE}, !.equals = e, !.contains = c] :
            path \in {p \in Paths : ~p.anywhere}, e \in {{}, {{"x"}}}, c \in {{}, {"2.5"}}}
    \cup {[XmlNoCriteria(TextPath) EXCEPT !.contains = {""}]}
    \cup {[XmlNoCriteria(Path(FALSE, <<Child("a"), With("b", FALSE)>>, "text"))
            EXCEPT !.exists = {wanted}] : wanted \in BOOLEAN}

-----------------------------------------------------------------------------
(* HTML elements and criteria.                                             *)
HtmlAnswers == {<<>>, <<[text |-> {"ok"}, attribute |-> {}]>>,
                <<[text |-> {"no"}, attribute |-> {{"w"}}], [text |-> {"ok"}, attribute |-> {}]>>}

HtmlCriteria(exists, count, text, attribute) ==
    [exists |-> exists, count |-> count,
     text |-> [equals |-> {}, contains |-> text, matches |-> {}],
     attribute |-> [exists |-> {}, equals |-> {}, contains |-> attribute]]

-----------------------------------------------------------------------------
Workload(kind, min) == [workload |-> kind, min |-> min]

MCTargets ==
    {Target("http", needs, {"accepted", "typed"}, {}) : needs \in SUBSET {"resolve", "auth", "secret"}}
    \cup {Target("keyword", {"resolve"}, Accepted,
                 [contains |-> {"ok"}, notContains |-> {"error"}, regex |-> regex]) :
            regex \in {{}, {"ok"}, {Broken}}}
    \cup {Target("jsonQuery", {}, Accepted, c) : c \in JsonCriteria}
    \cup {Target("xmlQuery", {}, Accepted, c) : c \in XmlCriteria}
    \cup {Target("htmlQuery", {}, Accepted, c) :
            c \in {HtmlCriteria({TRUE}, {}, {}, {}), HtmlCriteria({}, {1}, {"ok"}, {}),
                   HtmlCriteria({}, {}, {"ok"}, {}), HtmlCriteria({}, {}, {}, {"w"})}}
    \cup {Target("grpc", needs, {}, {}) : needs \in {{}, {"resolve"}}}
    \cup {[Target(kind, {}, {}, {}) EXCEPT !.credentials = given] :
            kind \in {"postgresql", "mysql", "redis"}, given \in {"given", "empty", "missing"}}
    \cup {Target(kind, {}, {}, {}) : kind \in {"ping", "push", "socket"}}
    \cup {[Target("push", {}, {}, {}) EXCEPT !.configured = FALSE]}
    \cup {Target("dns", {}, {}, expected) : expected \in {{}, {"x"}}}
    \cup {Target("k8s", {}, {}, Workload(kind, min)) :
            kind \in {"Deployment", "Pod"}, min \in {{}, {0}, {2}}}

(* What one question alone is asked of.                                    *)
SocketTarget == {Target("socket", {}, {}, {})}
HttpTarget == {Target("http", {"auth"}, Accepted, {})}
XmlTarget ==
    {Target("xmlQuery", {}, Accepted,
            [XmlNoCriteria(TextPath) EXCEPT !.exists = {TRUE}, !.equals = {{"x"}}])}
PodTarget == {Target("k8s", {}, {}, Workload("Pod", {}))}

Found(running) == {[running |-> running, ready |-> ready, total |-> 2] : ready \in 0..2}

MCAnswers ==
    [kind \in QueryKinds |->
        CASE kind = "keyword" -> SUBSET {"ok", "error"}
          [] kind = "jsonQuery" -> JsonDocuments
          [] kind = "xmlQuery" -> XmlDocuments
          [] kind = "htmlQuery" -> HtmlAnswers
          [] kind = "grpc" -> {"SERVING", "NOT_SERVING", "SERVICE_UNKNOWN"}
          [] kind = "redis" -> {"PONG", "other"}
          [] kind = "ping" -> SUBSET {"time", "unreachable", "lost"}
          [] kind = "k8s" -> Found(TRUE) \cup Found(FALSE)
          [] kind = "dns" -> {{}, {{"x"}}, {{"y"}, {"x", "z"}}, {{"y"}}}
          [] OTHER -> {"rows"}]
=============================================================================
