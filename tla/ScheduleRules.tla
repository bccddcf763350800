---------------------------- MODULE ScheduleRules ----------------------------
(***************************************************************************)
(* The rules of an access schedule: how one is validated, when it matches, *)
(* and the set of instants it stands for. Expressions over rules are in    *)
(* Schedule.                                                               *)
(*                                                                         *)
(* The calendar is scaled by constants (the code has 24 hours of 60        *)
(* minutes, 7 weekdays, months of up to 31 days, 12 months); what the code *)
(* does at the edges (windows over midnight, over the end of a week, of a  *)
(* month, of a year) does not depend on the sizes.                         *)
(***************************************************************************)
EXTENDS Integers, Sequences

CONSTANTS
  DayHours, HourMinutes, WeekDays,
  MonthDays,   \* the number of days of the longest month
  MonthStart,  \* the days of the year before each month, then those of the year
  LastDay,     \* bound on the days that pass
  Nil          \* a field, rule or expression that is not given

DayMinutes == DayHours * HourMinutes
Months     == 1 .. Len(MonthStart) - 1

ASSUME CalendarAssumption ==
  /\ {DayHours, HourMinutes, WeekDays, MonthDays} \subseteq Nat \ {0}
  /\ LastDay \in Nat
  /\ MonthStart \in Seq(Nat) /\ Len(MonthStart) > 1 /\ MonthStart[1] = 0
  /\ \A i \in Months : MonthStart[i + 1] - MonthStart[i] \in 1 .. MonthDays

\* A field that is not given is told from every value.
ASSUME NilAssumption == Nil \notin Int /\ Nil \notin Int \X Int

-----------------------------------------------------------------------------
(* The calendar (package time) *)

Instants == 0 .. (LastDay + 1) * DayMinutes - 1

Date(t)   == t \div DayMinutes
Hour(t)   == (t % DayMinutes) \div HourMinutes
Minute(t) == t % HourMinutes
Dow(t)    == Date(t) % WeekDays

DayOfYear(t) == Date(t) % MonthStart[Len(MonthStart)]
Month(t) == CHOOSE i \in Months : DayOfYear(t) \in MonthStart[i] .. MonthStart[i + 1] - 1
Dom(t)   == DayOfYear(t) - MonthStart[Month(t)] + 1

-----------------------------------------------------------------------------
(* Evaluation *)

\* "HH:MM" is a pair of numbers.
parseHHMM(s) == s[1] \in 0 .. DayHours - 1 /\ s[2] \in 0 .. HourMinutes - 1
Mins(s)      == s[1] * HourMinutes + s[2]

\* (mutant: a window over midnight is taken for an empty one)
matchesTimeRange_NoWrap(r, t) ==
  /\ r.days # {} => Dow(t) \in r.days
  /\ \/ Nil \in {r.start, r.end}
     \/ Mins(r.start) <= Mins(<<Hour(t), Minute(t)>>) /\ Mins(<<Hour(t), Minute(t)>>) < Mins(r.end)

matchesTimeRange(r, t) ==
  LET now == Mins(<<Hour(t), Minute(t)>>)
      from == now >= Mins(r.start)
      before == now < Mins(r.end)
  IN  /\ r.days # {} => Dow(t) \in r.days
      /\ \/ Nil \in {r.start, r.end}
         \/ /\ parseHHMM(r.start) /\ parseHHMM(r.end)
            /\ IF Mins(r.start) <= Mins(r.end) THEN from /\ before ELSE from \/ before

\* matchesWeekdaysRange, matchesDayOfMonthRange and matchesMonthRange.
matchesRange(r, x) ==
  /\ Nil \notin {r.start, r.end}
  /\ IF r.start <= r.end THEN x >= r.start /\ x <= r.end
                         ELSE x >= r.start \/ x <= r.end

\* Dates are compared as strings, and a bound is any string: it is modelled as
\* its place in the order of strings.  The text YYYY-MM-DD of day d has place
\* Text(d); the places between and before are the texts that are no date, of
\* which two fit between two days, as "2026-06-01!" and "2026-06-01?" do.
Text(d) == 3 * d

matchesDateRange(r, t) ==
  Nil \notin {r.start, r.end} /\ Text(Date(t)) >= r.start /\ Text(Date(t)) <= r.end

scheduleRuleMatches(r, t) ==
  CASE r.type = "time_range"         -> matchesTimeRange(r, t)
    [] r.type = "weekdays_range"     -> matchesRange(r, Dow(t))
    [] r.type = "date_range"         -> matchesDateRange(r, t)
    [] r.type = "day_of_month_range" -> matchesRange(r, Dom(t))
    [] r.type = "month_range"        -> matchesRange(r, Month(t))
    [] OTHER                         -> FALSE

-----------------------------------------------------------------------------
(* Validation *)

\* What a client can submit for a rule, of a known type or not.  A time that is
\* no pair of numbers is one outside the day: parseHHMM refuses both alike.
RawRule ==
  LET times == (Int \X Int) \cup {Nil}
      range(types, values) == [type: types, start: values, end: values]
  IN  [type: {"time_range"}, days: SUBSET Int, start: times, end: times]
        \cup range(STRING \ {"time_range"}, Int \cup {Nil})

validateRule(r) ==
  CASE r.type = "time_range" ->
         /\ \A s \in {r.start, r.end} \ {Nil} : parseHHMM(s)
         /\ r.days \subseteq 0 .. WeekDays - 1
    [] r.type = "weekdays_range"     -> {r.start, r.end} \subseteq 0 .. WeekDays - 1
    [] r.type = "date_range"         -> Nil \notin {r.start, r.end} /\ r.start <= r.end
    [] r.type = "day_of_month_range" -> {r.start, r.end} \subseteq 1 .. MonthDays
    [] r.type = "month_range"        -> {r.start, r.end} \subseteq Months
    [] OTHER                         -> FALSE

\* What scheduleRuleMatches is given: no bound outside its calendar, but for the
\* dates, whose two bounds are texts that need not be dates at all.
RuleType ==
  LET times == ((0 .. DayHours - 1) \X (0 .. HourMinutes - 1)) \cup {Nil}
      range(type, values) == [type: {type}, start: values, end: values]
  IN  [type: {"time_range"}, days: SUBSET (0 .. WeekDays - 1), start: times, end: times]
        \cup range("weekdays_range", 0 .. WeekDays - 1) \cup range("date_range", Int)
        \cup range("day_of_month_range", 1 .. MonthDays) \cup range("month_range", Months)

-----------------------------------------------------------------------------
(* What a rule means: the set of instants it covers *)

\* The places from a to b on a circle of the numbers first .. last, both
\* included, walking forwards.
Arc(a, b, first, last) ==
  LET n == last - first + 1
  IN  {first + ((a - first + k) % n) : k \in 0 .. ((b - a) % n)}

\* The minutes of the day from start until end, end excluded.
Window(start, end) ==
  {(Mins(start) + k) % DayMinutes : k \in 0 .. ((Mins(end) - Mins(start)) % DayMinutes) - 1}

\* The first day whose text does not sort before s, and the last whose text does
\* not sort after it.  For a date both are that day.
DayFrom(s) == (s + 2) \div 3
DayUntil(s) == s \div 3

\* The instants a rule covers.  A range of texts covers the days between them in
\* string order: for two dates those days, for other texts whatever that gives.
RuleMeaning(r) ==
  CASE r.type = "time_range" ->
         {t \in Instants :
            /\ r.days = {} \/ Dow(t) \in r.days
            /\ Nil \notin {r.start, r.end} => t % DayMinutes \in Window(r.start, r.end)}
    [] r.type = "weekdays_range" ->
         {t \in Instants : Dow(t) \in Arc(r.start, r.end, 0, WeekDays - 1)}
    [] r.type = "date_range" ->
         {t \in Instants : Date(t) \in DayFrom(r.start) .. DayUntil(r.end)}
    [] r.type = "day_of_month_range" ->
         {t \in Instants : Dom(t) \in Arc(r.start, r.end, 1, MonthDays)}
    [] r.type = "month_range" ->
         {t \in Instants : Month(t) \in Arc(r.start, r.end, 1, Len(MonthStart) - 1)}
    [] OTHER -> {}
=============================================================================
