----------------------------- MODULE MCWindows -----------------------------
(* Small instances of MaintenanceWindows for TLC: days of two hours, weeks *)
(* of two days, and a window of each kind of rule.                         *)
EXTENDS MaintenanceWindows

Rule(freq, byDay, byMonthDay, byHour) ==
    [freq |-> freq, interval |-> 1, byDay |-> byDay, byMonthDay |-> byMonthDay,
     byMonth |-> {}, byHour |-> byHour, until |-> {}, count |-> {}]

Daily == Rule("DAILY", {}, {}, {1})

Until(t) == [at |-> t, basic |-> FALSE]

(* UNTIL as in RFC 5545, BYMONTH, BYDAY of a rule that is not weekly.      *)
Expired == [Daily EXCEPT !.until = {[at |-> 1, basic |-> TRUE]}]
Quarterly == [Rule("YEARLY", {}, {0}, {1}) EXCEPT !.byMonth = {1}]
Mondays == Rule("MONTHLY", {0}, {}, {1})

Rules ==
    {Daily, Rule("DAILY", {}, {1}, {0}), Rule("DAILY", {}, {}, {}), Rule("DAILY", {0}, {}, {0}),
     Rule("WEEKLY", {1}, {}, {0}), Rule("WEEKLY", {}, {}, {0}),
     Rule("MONTHLY", {}, {0, 1}, {1}), Rule("YEARLY", {}, {}, {0}), Rule("HOURLY", {}, {}, {1}),
     [Daily EXCEPT !.until = {Until(5)}], [Daily EXCEPT !.until = {Until(2)}],
     Expired, Quarterly,
     [Daily EXCEPT !.count = {1}, !.interval = 2]}

Any == [namespaces |-> {}, labels |-> [env |-> {}, team |-> {}], expressions |-> {},
        tags |-> {}, names |-> {}]

Window(start, end, rule, match) ==
    [valid |-> TRUE, enabled |-> TRUE, start |-> start, end |-> end, rule |-> rule,
     match |-> match]

Production == [env |-> {"production"}, team |-> {}]

ForProduction == [Any EXCEPT !.labels = Production]

Matches ==
    {ForProduction, [Any EXCEPT !.names = {"m"}], [Any EXCEPT !.namespaces = {"n"}],
     [ForProduction EXCEPT !.tags = {"nightly"}]}
    \cup {[ForProduction EXCEPT !.expressions =
                {[key |-> "team", operator |-> operator, values |-> {"web"}] :
                    operator \in operators}] :
            operators \in {{"In", "Exists"}, {"NotIn", "DoesNotExist"}}}

MCSpecs ==
    {Window(2, 4, {rule}, Any) : rule \in Rules}
    \cup {Window(1, 4, {Daily}, match) : match \in Matches}
    \cup {Window(start, 6, {}, Any) : start \in {3, 7}}
    \cup {[Window(2, 4, {}, Any) EXCEPT !.enabled = FALSE, !.valid = valid] :
            valid \in BOOLEAN}

(* What one question alone is asked of.                                    *)
UntilSpecs == {Window(0, 2, {Expired}, Any)}
MonthSpecs == {Window(0, 2, {Quarterly}, Any)}
SelectorSpecs == {spec \in MCSpecs : spec.match.expressions # {}}
DailySpecs == {Window(0, 2, {Daily}, Any)}
MondaySpecs == {Window(0, 2, {Mondays}, Any)}

Monitor(env, team, tags) ==
    [name |-> "m", namespace |-> "n", labels |-> [env |-> env, team |-> team], tags |-> tags]

MCMonitors ==
    {Monitor({}, {}, {}), Monitor({"production"}, {}, {}), Monitor({"test"}, {"web"}, {}),
     Monitor({"production"}, {"web"}, {"nightly"}), Monitor({"production"}, {"ops"}, {"x"})}
=============================================================================
