----------------------------- MODULE Recurrence -----------------------------
(***************************************************************************)
(* The recurrence rules of lib/rrule.ts, beside what RFC 5545 means by     *)
(* those it gets right.                                                    *)
(*                                                                         *)
(* Time is counted in hours, in a calendar of uniform days, weeks, months  *)
(* and years.  A part of a rule that is not set is the empty set, one that *)
(* is set the set of its values; only the first value of BYHOUR is used,   *)
(* and minutes are left out, being treated as hours are.  BYMONTH stands   *)
(* for the parts of RFC 5545 that the code passes over, with BYSETPOS and  *)
(* the like.  A day that is none of the calendar stands for 1MO or -1,     *)
(* which the code compares with every day and finds equal to none.         *)
(*                                                                         *)
(* UNTIL is [at, basic]: the last instant it allows, and whether it is in  *)
(* the form of RFC 5545, 20251231T235959Z or 20251231, which Date does not *)
(* read.                                                                   *)
(***************************************************************************)
EXTENDS Integers, FiniteSets, FiniteSetsExt

CONSTANTS
    HoursPerDay, DaysPerWeek, DaysPerMonth, MonthsPerYear, DaysPerYear,
    MaxIterations   \* how many candidates are tried, 10000 in the code

ASSUME CalendarAssumption ==
    /\ HoursPerDay \in Nat \ {0} /\ DaysPerWeek \in Nat \ {0}
    /\ DaysPerMonth \in Nat \ {0} /\ MonthsPerYear \in Nat \ {0}
    /\ DaysPerYear \in Nat \ {0} /\ DaysPerYear = DaysPerMonth * MonthsPerYear
    /\ MaxIterations \in Nat /\ MaxIterations > DaysPerYear

Hour(t) == t % HoursPerDay
Day(t) == t \div HoursPerDay
Weekday(t) == Day(t) % DaysPerWeek
MonthDay(t) == Day(t) % DaysPerMonth
Month(t) == (Day(t) \div DaysPerMonth) % MonthsPerYear

(* By how many days a candidate is moved; a frequency that is none of the  *)
(* four moves nothing, an interval of 0 counts as 1.                       *)
Stride(rule) ==
    LET length == CASE rule.freq = "DAILY" -> 1
                    [] rule.freq = "WEEKLY" -> DaysPerWeek
                    [] rule.freq = "MONTHLY" -> DaysPerMonth
                    [] rule.freq = "YEARLY" -> DaysPerYear
                    [] OTHER -> 0
    IN  length * (IF rule.interval = 0 THEN 1 ELSE rule.interval)

AtHour(rule, t) ==
    IF rule.byHour = {} THEN t
    ELSE t - Hour(t) + (CHOOSE h \in rule.byHour : TRUE)

(* Mutant: the day of the week is not looked at.                           *)
SuitsAnyDay(rule, t) == rule.byMonthDay # {} => MonthDay(t) \in rule.byMonthDay

(* BYDAY is for weekly rules; with it another rule has no occurrence.      *)
Suits(rule, t) ==
    /\ rule.byDay # {} => rule.freq = "WEEKLY" /\ Weekday(t) \in rule.byDay
    /\ rule.byMonthDay # {} => MonthDay(t) \in rule.byMonthDay

(* No date is later than an invalid one.                                   *)
IsOver(rule, t) == \E u \in rule.until : ~u.basic /\ t > u.at

(* Mutant: the first candidate is the day itself.                          *)
GetNextOccurrenceFromToday(rule, after) ==
    LET Candidate(i) == after + (i - 1) * Stride(rule) * HoursPerDay
        found == {i \in 1..MaxIterations :
                    /\ ~IsOver(rule, Candidate(i))
                    /\ \A n \in rule.count \ {0} : i <= n
                    /\ Suits(rule, Candidate(i))
                    /\ AtHour(rule, Candidate(i)) > after}
    IN  IF found = {} THEN {} ELSE {AtHour(rule, Candidate(Min(found)))}

(* The set of the next occurrence after a time, if there is one.  UNTIL is *)
(* compared before the hour is set; COUNT counts candidates from there on. *)
GetNextOccurrence(rule, after) ==
    LET Candidate(i) == after + i * Stride(rule) * HoursPerDay
        found == {i \in 1..MaxIterations :
                    /\ ~IsOver(rule, Candidate(i))
                    /\ \A n \in rule.count \ {0} : i <= n
                    /\ Suits(rule, Candidate(i))
                    /\ AtHour(rule, Candidate(i)) > after}
    IN  IF found = {} THEN {} ELSE {AtHour(rule, Candidate(Min(found)))}

(* Mutant: an occurrence at the very time asked about is in the future.    *)
IsInMaintenanceWindowLate(rule, duration, t) ==
    LET last[n \in 0..MaxIterations] ==
            IF n = 0 THEN t - DaysPerYear * HoursPerDay
            ELSE LET previous == last[n - 1]
                     next == {o \in GetNextOccurrence(rule, previous) : o < t}
                 IN  IF next = {} THEN previous ELSE Min(next)
    IN  last[MaxIterations] <= t /\ t < last[MaxIterations] + duration

(* From a year ago on from one occurrence to the next, the last of them    *)
(* that is not in the future: is the window that begins with it open?      *)
IsInMaintenanceWindow(rule, duration, t) ==
    LET last[n \in 0..MaxIterations] ==
            IF n = 0 THEN t - DaysPerYear * HoursPerDay
            ELSE LET previous == last[n - 1]
                     next == {o \in GetNextOccurrence(rule, previous) : o <= t}
                 IN  IF next = {} THEN previous ELSE Min(next)
    IN  last[MaxIterations] <= t /\ t < last[MaxIterations] + duration

-----------------------------------------------------------------------------
(* The rules of RFC 5545 whose occurrences do not depend on when they      *)
(* begin: every one within its frequency, not counted, at one hour given,  *)
(* and on days given unless it is daily.                                   *)
Regular(rule) ==
    /\ rule.interval = 1 /\ rule.count = {}
    /\ \E h \in 0..(HoursPerDay - 1) : rule.byHour = {h}
    /\ rule.byDay \subseteq 0..(DaysPerWeek - 1)
    /\ rule.byMonthDay \subseteq 0..(DaysPerMonth - 1)
    /\ CASE rule.freq = "DAILY" -> TRUE
         [] rule.freq = "WEEKLY" -> rule.byDay # {}
         [] rule.freq = "MONTHLY" -> rule.byDay # {} \/ rule.byMonthDay # {}
         [] rule.freq = "YEARLY" -> rule.byMonth # {} /\ rule.byMonthDay # {}
         [] OTHER -> FALSE

(* What RFC 5545 says of a regular rule, but for its beginning.            *)
Occurs(rule, t) ==
    /\ Hour(t) \in rule.byHour
    /\ rule.byDay # {} => Weekday(t) \in rule.byDay
    /\ rule.byMonthDay # {} => MonthDay(t) \in rule.byMonthDay
    /\ rule.byMonth # {} => Month(t) \in rule.byMonth
    /\ \A u \in rule.until : t <= u.at

(* The regular rules whose parts the code all reads: BYDAY only of weekly  *)
(* ones, BYMONTH of none, and UNTIL the end of a day, not in the form of   *)
(* the RFC.                                                                *)
Plain(rule) ==
    /\ Regular(rule)
    /\ rule.freq # "YEARLY" /\ (rule.byDay # {} => rule.freq = "WEEKLY")
    /\ rule.byMonth = {}
    /\ \A u \in rule.until : ~u.basic /\ Hour(u.at + 1) = 0
=============================================================================
