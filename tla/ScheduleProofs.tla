---------------------------- MODULE ScheduleProofs ----------------------------
(***************************************************************************)
(* For every calendar, every rule and every expression: what validation    *)
(* lets through, evaluation takes for the set of instants it stands for.   *)
(*                                                                         *)
(* The first part is arithmetic on a circle, the second the rules. The     *)
(* third shows that the recursive functions exist and satisfy their        *)
(* equations, and argues by a smallest counterexample instead of an        *)
(* induction theorem.                                                      *)
(***************************************************************************)
EXTENDS Schedule, SequenceTheorems, WellFoundedInduction, TLAPS

-----------------------------------------------------------------------------
(* Remainders *)

LEMMA ModRange == ASSUME NEW n \in Nat \ {0}, NEW x \in Int PROVE x % n \in 0 .. n - 1
OBVIOUS

LEMMA ModSmall == ASSUME NEW n \in Nat \ {0}, NEW x \in 0 .. n - 1 PROVE x % n = x
OBVIOUS

LEMMA ModWrap == ASSUME NEW n \in Nat \ {0}, NEW x \in n .. 2 * n - 1 PROVE x % n = x - n
OBVIOUS

LEMMA ModNegative == ASSUME NEW n \in Nat \ {0}, NEW x \in - n .. - 1 PROVE x % n = x + n
OBVIOUS

\* A set of natural numbers that is not empty has a smallest one.
LEMMA Smallest ==
  ASSUME NEW S \in SUBSET Nat, S # {}
  PROVE  \E i \in S : \A j \in S : j >= i
<1>1. IsWellFoundedOn(OpToRel(<, Nat), Nat)
  BY NatLessThanWellFounded
<1>2. PICK i \in S : \A j \in S : <<j, i>> \notin OpToRel(<, Nat)
  BY <1>1, WFMin
<1>3. \A j \in S : ~ (j < i)
  BY <1>2 DEF OpToRel
<1> QED BY <1>3

\* The quotient and the remainder of a division are determined by it.
LEMMA Division ==
  ASSUME NEW n \in Nat \ {0}, NEW x \in Int
  PROVE  /\ x \div n \in Int /\ x % n \in Int
         /\ x = n * (x \div n) + (x % n)
OBVIOUS

LEMMA Remainder ==
  ASSUME NEW n \in Nat \ {0}, NEW q \in Int, NEW r \in 0 .. n - 1
  PROVE  (n * q + r) % n = r
OBVIOUS

\* Walking k steps from a on a circle of n places.
LEMMA Walk ==
  ASSUME NEW n \in Nat \ {0}, NEW a \in 0 .. n - 1, NEW k \in 0 .. n - 1
  PROVE  (a + k) % n = IF a + k < n THEN a + k ELSE a + k - n
<1>1. CASE a + k < n
  BY <1>1, ModSmall
<1>2. CASE ~ (a + k < n)
  <2>1. a + k \in n .. 2 * n - 1
    BY <1>2
  <2> QED BY <1>2, <2>1, ModWrap
<1> QED BY <1>1, <1>2

\* The distance from a forwards to b.
LEMMA Distance ==
  ASSUME NEW n \in Nat \ {0}, NEW a \in 0 .. n - 1, NEW b \in 0 .. n - 1
  PROVE  (b - a) % n = IF a <= b THEN b - a ELSE b - a + n
<1>1. CASE a <= b
  <2>1. b - a \in 0 .. n - 1
    BY <1>1
  <2> QED BY <1>1, <2>1, ModSmall
<1>2. CASE ~ (a <= b)
  <2>1. b - a \in - n .. - 1
    BY <1>2
  <2> QED BY <1>2, <2>1, ModNegative
<1> QED BY <1>1, <1>2

\* A place lies on the first d steps from a exactly when its distance says so.
LEMMA OnTheWay ==
  ASSUME NEW n \in Nat \ {0}, NEW a \in 0 .. n - 1, NEW x \in 0 .. n - 1, NEW d \in - 1 .. n - 1
  PROVE  (\E k \in 0 .. d : x = (a + k) % n) <=> (x - a) % n <= d
<1>1. (x - a) % n = IF a <= x THEN x - a ELSE x - a + n
  BY Distance
<1>2. ASSUME NEW k \in 0 .. d, x = (a + k) % n PROVE (x - a) % n <= d
  <2>1. k \in 0 .. n - 1
    OBVIOUS
  <2>2. x = IF a + k < n THEN a + k ELSE a + k - n
    BY <1>2, <2>1, Walk
  <2> QED BY <1>1, <2>1, <2>2
<1>3. ASSUME (x - a) % n <= d PROVE \E k \in 0 .. d : x = (a + k) % n
  <2> DEFINE k == IF a <= x THEN x - a ELSE x - a + n
  <2>1. k \in 0 .. d /\ k \in 0 .. n - 1
    BY <1>1, <1>3
  <2>2. (a + k) % n = IF a + k < n THEN a + k ELSE a + k - n
    BY <2>1, Walk
  <2>3. x = (a + k) % n
    BY <2>2
  <2> QED BY <2>1, <2>3
<1> QED BY <1>2, <1>3

-----------------------------------------------------------------------------
(* The two shapes of comparison *)

\* Comparing with inclusive bounds, one way if they are in order and the other
\* if they are not, is membership in the arc between them.
LEMMA RangeIsArc ==
  ASSUME NEW first \in Int, NEW last \in Int, first <= last,
         NEW a \in first .. last, NEW b \in first .. last, NEW x \in first .. last
  PROVE  x \in Arc(a, b, first, last) <=>
           IF a <= b THEN x >= a /\ x <= b ELSE x >= a \/ x <= b
<1> DEFINE n == last - first + 1
<1>1. n \in Nat \ {0}
  OBVIOUS
<1>2. /\ a - first \in 0 .. n - 1 /\ b - first \in 0 .. n - 1 /\ x - first \in 0 .. n - 1
      /\ (b - first) - (a - first) = b - a /\ (x - first) - (a - first) = x - a
  OBVIOUS
<1>3. x \in Arc(a, b, first, last) <=>
        \E k \in 0 .. ((b - a) % n) : x = first + ((a - first + k) % n)
  BY DEF Arc
<1> HIDE DEF n
<1>4. /\ (b - a) % n = IF a <= b THEN b - a ELSE b - a + n
      /\ (x - a) % n = IF a <= x THEN x - a ELSE x - a + n
  <2>1. /\ (b - a) % n = IF a - first <= b - first THEN b - a ELSE b - a + n
        /\ (x - a) % n = IF a - first <= x - first THEN x - a ELSE x - a + n
    <3>1. /\ ((b - first) - (a - first)) % n =
               IF a - first <= b - first THEN (b - first) - (a - first)
                                         ELSE (b - first) - (a - first) + n
          /\ ((x - first) - (a - first)) % n =
               IF a - first <= x - first THEN (x - first) - (a - first)
                                         ELSE (x - first) - (a - first) + n
      BY <1>1, <1>2, Distance
    <3> QED BY <1>2, <3>1
  <2> QED BY <2>1
<1>5. (b - a) % n \in - 1 .. n - 1
  BY <1>1, ModRange
<1>6. \A k \in 0 .. ((b - a) % n) : (a - first + k) % n \in Int
  BY <1>1, <1>5, ModRange
<1>7. (\E k \in 0 .. ((b - a) % n) : x = first + ((a - first + k) % n))
        <=> (\E k \in 0 .. ((b - a) % n) : x - first = (a - first + k) % n)
  BY <1>6
<1>8. (\E k \in 0 .. ((b - a) % n) : x - first = (a - first + k) % n)
        <=> (x - a) % n <= (b - a) % n
  BY <1>1, <1>2, <1>5, OnTheWay
<1>9. (x - a) % n <= (b - a) % n <=> IF a <= b THEN x >= a /\ x <= b ELSE x >= a \/ x <= b
  BY <1>1, <1>2, <1>4 DEF n
<1> QED BY <1>3, <1>7, <1>8, <1>9

\* Comparing with an excluded end, one way or the other, is membership in the
\* window of that many minutes.
LEMMA RangeIsWindow ==
  ASSUME NEW start, NEW end, DayMinutes \in Nat \ {0}, NEW x \in 0 .. DayMinutes - 1,
         Mins(start) \in 0 .. DayMinutes - 1, Mins(end) \in 0 .. DayMinutes - 1
  PROVE  x \in Window(start, end) <=>
           IF Mins(start) <= Mins(end) THEN x >= Mins(start) /\ x < Mins(end)
                                       ELSE x >= Mins(start) \/ x < Mins(end)
<1> DEFINE d == ((Mins(end) - Mins(start)) % DayMinutes) - 1
<1>1. /\ (Mins(end) - Mins(start)) % DayMinutes =
           IF Mins(start) <= Mins(end) THEN Mins(end) - Mins(start)
                                       ELSE Mins(end) - Mins(start) + DayMinutes
      /\ (x - Mins(start)) % DayMinutes =
           IF Mins(start) <= x THEN x - Mins(start) ELSE x - Mins(start) + DayMinutes
  BY Distance
<1>2. d \in - 1 .. DayMinutes - 1
  BY <1>1
<1>3. x \in Window(start, end) <=> \E k \in 0 .. d : x = (Mins(start) + k) % DayMinutes
  BY DEF Window
<1>4. (\E k \in 0 .. d : x = (Mins(start) + k) % DayMinutes) <=> (x - Mins(start)) % DayMinutes <= d
  <2> HIDE DEF d
  <2> QED BY <1>2, OnTheWay
<1> QED BY <1>1, <1>3, <1>4

-----------------------------------------------------------------------------
(* The calendar *)

LEMMA Sizes ==
  /\ DayHours \in Nat \ {0} /\ HourMinutes \in Nat \ {0} /\ WeekDays \in Nat \ {0}
  /\ MonthDays \in Nat \ {0} /\ DayMinutes \in Nat \ {0}
BY CalendarAssumption DEF DayMinutes

\* A time of day is one of the minutes of a day.
LEMMA MinsRange ==
  ASSUME NEW s \in (0 .. DayHours - 1) \X (0 .. HourMinutes - 1)
  PROVE  Mins(s) \in 0 .. DayMinutes - 1
<1>1. s[1] \in 0 .. DayHours - 1 /\ s[2] \in 0 .. HourMinutes - 1
  OBVIOUS
<1>2. s[1] * HourMinutes <= (DayHours - 1) * HourMinutes /\ s[1] * HourMinutes >= 0
  BY <1>1, Sizes
<1> QED BY <1>1, <1>2, Sizes DEF Mins, DayMinutes

\* Hour and minute together are the minute of the day.
LEMMA MinuteOfDay ==
  ASSUME NEW t \in Int
  PROVE  /\ Mins(<<Hour(t), Minute(t)>>) = t % DayMinutes
         /\ t % DayMinutes \in 0 .. DayMinutes - 1
<1> DEFINE u == t % DayMinutes
           q == t \div DayMinutes
           h == u \div HourMinutes
<1>1. u \in 0 .. DayMinutes - 1 /\ q \in Int /\ t = DayMinutes * q + u
  BY Sizes, ModRange, Division
<1>2. h \in Int /\ u % HourMinutes \in 0 .. HourMinutes - 1 /\ u = HourMinutes * h + (u % HourMinutes)
  BY <1>1, Sizes, ModRange, Division
<1>3. t = HourMinutes * (DayHours * q + h) + (u % HourMinutes)
  <2> HIDE DEF u, q, h
  <2>1. DayMinutes * q = HourMinutes * (DayHours * q)
    BY <1>1, Sizes DEF DayMinutes
  <2> QED BY <1>1, <1>2, <2>1, Sizes
<1>4. DayHours * q + h \in Int
  BY <1>1, <1>2, Sizes
<1>5. t % HourMinutes = u % HourMinutes
  <2> HIDE DEF u, q, h
  <2> QED BY <1>2, <1>3, <1>4, Sizes, Remainder
<1>6. Mins(<<Hour(t), Minute(t)>>) = h * HourMinutes + (t % HourMinutes)
  BY DEF Mins, Hour, Minute
<1>7. h * HourMinutes + (u % HourMinutes) = u
  <2> HIDE DEF u, q, h
  <2> QED BY <1>1, <1>2, Sizes
<1> QED BY <1>1, <1>5, <1>6, <1>7

\* An instant has one date, weekday, month and day of the month.
LEMMA CalendarType ==
  ASSUME NEW t \in Instants
  PROVE  /\ t \in Nat /\ Date(t) \in Nat /\ Dow(t) \in 0 .. WeekDays - 1
         /\ Month(t) \in Months /\ Dom(t) \in 1 .. MonthDays
<1>1. t \in Nat
  BY DEF Instants
<1>2. Date(t) \in Nat
  BY <1>1, Sizes DEF Date
<1>3. Dow(t) \in 0 .. WeekDays - 1
  BY <1>2, Sizes, ModRange DEF Dow
<1> DEFINE last == Len(MonthStart)
           y == DayOfYear(t)
<1>4. /\ last \in Nat /\ last > 1 /\ Months = 1 .. last - 1 /\ MonthStart[1] = 0
      /\ \A i \in 1 .. last : MonthStart[i] \in Nat
      /\ \A i \in Months : MonthStart[i + 1] - MonthStart[i] \in 1 .. MonthDays
  BY CalendarAssumption DEF Months
<1> HIDE DEF last
<1>4a. \A i \in Months : /\ i \in 1 .. last /\ i + 1 \in 1 .. last
                        /\ MonthStart[i] \in Nat /\ MonthStart[i + 1] \in Nat
  <2>1. \A i \in Months : i \in 1 .. last /\ i + 1 \in 1 .. last
    BY <1>4
  <2> QED BY <1>4, <2>1
<1>5. MonthStart[last] \in Nat \ {0}
  <2>1. last - 1 \in Months /\ (last - 1) + 1 = last /\ last \in 1 .. last /\ last - 1 \in 1 .. last
    BY <1>4
  <2>2. MonthStart[last] \in Nat /\ MonthStart[last - 1] \in Nat
        /\ MonthStart[last] - MonthStart[last - 1] \in 1 .. MonthDays
    BY <1>4, <2>1
  <2> QED BY <2>2, Sizes
<1>6. y \in 0 .. MonthStart[last] - 1
  <2>1. Date(t) % MonthStart[last] \in 0 .. MonthStart[last] - 1
    <3>1. \A n \in Nat \ {0}, x \in Int : x % n \in 0 .. n - 1
      BY ModRange
    <3>2. Date(t) \in Int
      BY <1>2
    <3> HIDE DEF y
    <3> QED BY <1>5, <3>1, <3>2, Zenon
  <2> QED BY <2>1 DEF DayOfYear, last
<1> HIDE DEF y
<1>7. \E i \in Months : y \in MonthStart[i] .. MonthStart[i + 1] - 1
  <2> DEFINE S == {i \in Months : y < MonthStart[i + 1]}
  <2>1. last - 1 \in S
    <3>1. last - 1 \in Months /\ (last - 1) + 1 = last
      BY <1>4
    <3> QED BY <1>5, <1>6, <3>1
  <2>2. PICK i \in S : \A j \in S : j >= i
    <3>1. S \in SUBSET Nat /\ S # {}
      <4>1. S \subseteq Months
        OBVIOUS
      <4>2. Months \subseteq Nat
        BY <1>4
      <4> QED BY <2>1, <4>1, <4>2
    <3> HIDE DEF S
    <3> QED BY <3>1, Smallest
  <2>3. i \in Months /\ y < MonthStart[i + 1] /\ i \in Nat
    BY <1>4, <2>2
  <2>4. MonthStart[i] <= y
    <3>1. CASE i = 1
      BY <1>4, <1>6, <3>1
    <3>2. CASE i # 1
      <4>1. i - 1 \in Months /\ (i - 1) + 1 = i /\ i \in 1 .. last
        BY <1>4, <2>3, <3>2
      <4>2. ~ (y < MonthStart[i])
        BY <2>2, <2>3, <4>1
      <4>3. MonthStart[i] \in Nat /\ y \in Int
        BY <1>4a, <1>5, <1>6, <2>3
      <4> QED BY <4>2, <4>3
    <3> QED BY <3>1, <3>2
  <2>5. MonthStart[i + 1] \in Nat /\ MonthStart[i] \in Nat
    BY <1>4a, <2>3
  <2> QED BY <1>5, <1>6, <2>3, <2>4, <2>5
<1>8. Month(t) \in Months /\ y \in MonthStart[Month(t)] .. MonthStart[Month(t) + 1] - 1
  BY <1>7 DEF Month, y
<1>9. Dom(t) \in 1 .. MonthDays
  <2>1. /\ MonthStart[Month(t)] \in Nat /\ MonthStart[Month(t) + 1] \in Nat
        /\ MonthStart[Month(t) + 1] - MonthStart[Month(t)] \in 1 .. MonthDays
    BY <1>4, <1>4a, <1>8
  <2>2. Dom(t) = y - MonthStart[Month(t)] + 1
    BY DEF Dom, y
  <2> QED BY <1>8, <2>1, <2>2, Sizes
<1> QED BY <1>1, <1>2, <1>3, <1>8, <1>9

-----------------------------------------------------------------------------
(* Rules *)

\* The kinds of a rule, and what its fields are in each of them.
LEMMA RuleKinds ==
  ASSUME NEW r \in RuleType
  PROVE  \/ /\ r.type = "time_range" /\ r.days \subseteq 0 .. WeekDays - 1
            /\ r.start \in ((0 .. DayHours - 1) \X (0 .. HourMinutes - 1)) \cup {Nil}
            /\ r.end \in ((0 .. DayHours - 1) \X (0 .. HourMinutes - 1)) \cup {Nil}
         \/ r.type = "weekdays_range" /\ r.start \in 0 .. WeekDays - 1 /\ r.end \in 0 .. WeekDays - 1
         \/ r.type = "date_range" /\ r.start \in Int /\ r.end \in Int
         \/ r.type = "day_of_month_range" /\ r.start \in 1 .. MonthDays /\ r.end \in 1 .. MonthDays
         \/ r.type = "month_range" /\ r.start \in Months /\ r.end \in Months
BY DEF RuleType

\* A range of one of the three circular kinds matches on its arc.
LEMMA CircularRange ==
  ASSUME NEW first \in Int, NEW last \in Int, first <= last, NEW r,
         r.start \in first .. last, r.end \in first .. last, NEW x \in first .. last
  PROVE  matchesRange(r, x) <=> x \in Arc(r.start, r.end, first, last)
<1>1. Nil \notin {r.start, r.end}
  BY NilAssumption
<1>2. x \in Arc(r.start, r.end, first, last) <=>
        IF r.start <= r.end THEN x >= r.start /\ x <= r.end ELSE x >= r.start \/ x <= r.end
  BY RangeIsArc
<1> QED BY <1>1, <1>2 DEF matchesRange

\* A time range matches in its window, and on its days if it names any.
LEMMA TimeRange ==
  ASSUME NEW r, NEW t \in Instants,
         r.start \in ((0 .. DayHours - 1) \X (0 .. HourMinutes - 1)) \cup {Nil},
         r.end \in ((0 .. DayHours - 1) \X (0 .. HourMinutes - 1)) \cup {Nil}
  PROVE  matchesTimeRange(r, t) <=>
           /\ r.days = {} \/ Dow(t) \in r.days
           /\ Nil \notin {r.start, r.end} => t % DayMinutes \in Window(r.start, r.end)
<1>1. CASE Nil \in {r.start, r.end}
  BY <1>1 DEF matchesTimeRange
<1>2. CASE Nil \notin {r.start, r.end}
  <2>1. /\ r.start \in (0 .. DayHours - 1) \X (0 .. HourMinutes - 1)
        /\ r.end \in (0 .. DayHours - 1) \X (0 .. HourMinutes - 1)
    BY <1>2
  <2>2. /\ Mins(r.start) \in 0 .. DayMinutes - 1 /\ Mins(r.end) \in 0 .. DayMinutes - 1
        /\ parseHHMM(r.start) /\ parseHHMM(r.end)
    BY <2>1, MinsRange DEF parseHHMM
  <2>3. Mins(<<Hour(t), Minute(t)>>) = t % DayMinutes /\ t % DayMinutes \in 0 .. DayMinutes - 1
    BY CalendarType, MinuteOfDay
  <2>4. t % DayMinutes \in Window(r.start, r.end) <=>
          IF Mins(r.start) <= Mins(r.end)
          THEN t % DayMinutes >= Mins(r.start) /\ t % DayMinutes < Mins(r.end)
          ELSE t % DayMinutes >= Mins(r.start) \/ t % DayMinutes < Mins(r.end)
    BY <2>2, <2>3, Sizes, RangeIsWindow
  <2> QED BY <1>2, <2>2, <2>3, <2>4 DEF matchesTimeRange
<1> QED BY <1>1, <1>2

\* The days whose text sorts between two texts are the days from the first that
\* does not sort before the one to the last that does not sort after the other.
LEMMA TextOrder ==
  ASSUME NEW d \in Int, NEW a \in Int, NEW b \in Int
  PROVE  d \in DayFrom(a) .. DayUntil(b) <=> Text(d) >= a /\ Text(d) <= b
<1>1. /\ DayFrom(a) \in Int /\ 3 * DayFrom(a) >= a /\ 3 * DayFrom(a) <= a + 2
      /\ DayUntil(b) \in Int /\ 3 * DayUntil(b) <= b /\ 3 * DayUntil(b) >= b - 2
  BY DEF DayFrom, DayUntil
<1> QED BY <1>1 DEF Text

\* The rule evaluator is right at every instant of every calendar: a rule
\* whose bounds are in their calendar matches exactly at the instants it
\* stands for, over midnight and over the end of the week, of the month and
\* of the year too (scheduleRuleMatches and the five functions it calls).  For
\* a date_range these are the days whose text sorts between its bounds.
THEOREM RuleMatchesItsInstants ==
  \A r \in RuleType, t \in Instants : scheduleRuleMatches(r, t) <=> t \in RuleMeaning(r)
<1> SUFFICES ASSUME NEW r \in RuleType, NEW t \in Instants
             PROVE  scheduleRuleMatches(r, t) <=> t \in RuleMeaning(r)
  OBVIOUS
<1>1. /\ Date(t) \in Nat /\ Dow(t) \in 0 .. WeekDays - 1
      /\ Month(t) \in Months /\ Dom(t) \in 1 .. MonthDays
  BY CalendarType
<1>2. CASE /\ r.type = "time_range" /\ r.days \subseteq 0 .. WeekDays - 1
           /\ r.start \in ((0 .. DayHours - 1) \X (0 .. HourMinutes - 1)) \cup {Nil}
           /\ r.end \in ((0 .. DayHours - 1) \X (0 .. HourMinutes - 1)) \cup {Nil}
  <2>1. scheduleRuleMatches(r, t) <=> matchesTimeRange(r, t)
    BY <1>2 DEF scheduleRuleMatches
  <2>2. t \in RuleMeaning(r) <=>
          /\ r.days = {} \/ Dow(t) \in r.days
          /\ Nil \notin {r.start, r.end} => t % DayMinutes \in Window(r.start, r.end)
    BY <1>2 DEF RuleMeaning
  <2> QED BY <1>2, <2>1, <2>2, TimeRange
<1>3. CASE r.type = "weekdays_range" /\ r.start \in 0 .. WeekDays - 1 /\ r.end \in 0 .. WeekDays - 1
  <2>1. scheduleRuleMatches(r, t) <=> matchesRange(r, Dow(t))
    BY <1>3 DEF scheduleRuleMatches
  <2>2. t \in RuleMeaning(r) <=> Dow(t) \in Arc(r.start, r.end, 0, WeekDays - 1)
    BY <1>3 DEF RuleMeaning
  <2>3. WeekDays - 1 \in Int /\ 0 <= WeekDays - 1
    BY Sizes
  <2> QED BY <1>1, <1>3, <2>1, <2>2, <2>3, CircularRange
<1>4. CASE r.type = "date_range" /\ r.start \in Int /\ r.end \in Int
  <2>1. scheduleRuleMatches(r, t) <=> matchesDateRange(r, t)
    BY <1>4 DEF scheduleRuleMatches
  <2>2. t \in RuleMeaning(r) <=> Date(t) \in DayFrom(r.start) .. DayUntil(r.end)
    BY <1>4 DEF RuleMeaning
  <2>3. Nil \notin {r.start, r.end}
    BY <1>4, NilAssumption
  <2>4. Date(t) \in DayFrom(r.start) .. DayUntil(r.end) <=>
          Text(Date(t)) >= r.start /\ Text(Date(t)) <= r.end
    <3>1. \A d, a, b \in Int : d \in DayFrom(a) .. DayUntil(b) <=> Text(d) >= a /\ Text(d) <= b
      BY TextOrder
    <3>2. Date(t) \in Int
      BY <1>1
    <3> QED BY <1>4, <3>1, <3>2, Zenon
  <2> QED BY <2>1, <2>2, <2>3, <2>4 DEF matchesDateRange
<1>5. CASE r.type = "day_of_month_range" /\ r.start \in 1 .. MonthDays /\ r.end \in 1 .. MonthDays
  <2>1. scheduleRuleMatches(r, t) <=> matchesRange(r, Dom(t))
    BY <1>5 DEF scheduleRuleMatches
  <2>2. t \in RuleMeaning(r) <=> Dom(t) \in Arc(r.start, r.end, 1, MonthDays)
    BY <1>5 DEF RuleMeaning
  <2>3. MonthDays \in Int /\ 1 <= MonthDays
    BY Sizes
  <2> QED BY <1>1, <1>5, <2>1, <2>2, <2>3, CircularRange
<1>6. CASE r.type = "month_range" /\ r.start \in Months /\ r.end \in Months
  <2>1. scheduleRuleMatches(r, t) <=> matchesRange(r, Month(t))
    BY <1>6 DEF scheduleRuleMatches
  <2>2. t \in RuleMeaning(r) <=> Month(t) \in Arc(r.start, r.end, 1, Len(MonthStart) - 1)
    BY <1>6 DEF RuleMeaning
  <2>3. Len(MonthStart) - 1 \in Int /\ 1 <= Len(MonthStart) - 1 /\ Months = 1 .. Len(MonthStart) - 1
    BY CalendarAssumption DEF Months
  <2> QED BY <1>1, <1>6, <2>1, <2>2, <2>3, CircularRange
<1> QED BY <1>2, <1>3, <1>4, <1>5, <1>6, RuleKinds

\* Validation protects the evaluator: of the rules a client can submit, with
\* any bounds and with bounds missing, validateRule accepts only those whose
\* bounds are in their calendar, or are two texts taken for dates, and these match
\* exactly at the instants they stand for.  That the texts are dates is not shown:
\* validateRule does not look (schedule.go:189-195).
THEOREM ValidRulesAreEvaluated ==
  \A r \in RawRule : validateRule(r) =>
    /\ r \in RuleType
    /\ \A t \in Instants : scheduleRuleMatches(r, t) <=> t \in RuleMeaning(r)
<1> SUFFICES ASSUME NEW r \in RawRule, validateRule(r) PROVE r \in RuleType
  BY RuleMatchesItsInstants
<1>1. CASE r \in [type: {"time_range"}, days: SUBSET Int,
                  start: (Int \X Int) \cup {Nil}, end: (Int \X Int) \cup {Nil}]
  <2>1. /\ \A s \in {r.start, r.end} \ {Nil} : parseHHMM(s)
        /\ r.days \subseteq 0 .. WeekDays - 1
    BY <1>1 DEF validateRule
  <2>2. ASSUME NEW s \in {r.start, r.end}
        PROVE  s \in ((0 .. DayHours - 1) \X (0 .. HourMinutes - 1)) \cup {Nil}
    BY <1>1, <2>1, <2>2 DEF parseHHMM
  <2> QED BY <1>1, <2>1, <2>2 DEF RuleType
<1>2. CASE r \in [type: STRING \ {"time_range"}, start: Int \cup {Nil}, end: Int \cup {Nil}]
  <2>1. CASE r.type = "weekdays_range"
    BY <1>2, <2>1 DEF validateRule, RuleType
  <2>2. CASE r.type = "day_of_month_range"
    BY <1>2, <2>2 DEF validateRule, RuleType
  <2>3. CASE r.type = "month_range"
    BY <1>2, <2>3 DEF validateRule, RuleType
  <2>4. CASE r.type = "date_range"
    BY <1>2, <2>4 DEF validateRule, RuleType
  <2>5. CASE r.type \notin {"weekdays_range", "day_of_month_range", "month_range", "date_range"}
    BY <1>2, <2>5 DEF validateRule
  <2> QED BY <2>1, <2>2, <2>3, <2>4, <2>5
<1> QED BY <1>1, <1>2 DEF RawRule

-----------------------------------------------------------------------------
(* Recursion over expressions *)

\* The equation of e looks only at what is below the depth of e.
LooksDown(V, G) ==
  \A e \in Exprs : \A f, g \in [Exprs -> V] :
    (\A c \in Exprs : Depth[c] < Depth[e] => f[c] = g[c]) => G[e][f] = G[e][g]

\* What gives the value at each expression, from the values everywhere.
Equations(V) == [Exprs -> [[Exprs -> V] -> V]]

\* A function that satisfies them.
Solvable(V, G) == \E f \in [Exprs -> V] : \A e \in Exprs : f[e] = G[e][f]

\* f satisfies the equations G of everything below depth n.
Solves(f, G, n) == \A e \in Exprs : Depth[e] < n => f[e] = G[e][f]

LEMMA Recursion ==
  ASSUME NEW V, V # {}, NEW G, G \in Equations(V), LooksDown(V, G)
  PROVE  Solvable(V, G)
<1>0. Depth \in [Exprs -> Nat] /\ G \in [Exprs -> [[Exprs -> V] -> V]]
  BY ExprAssumption DEF Equations
<1> USE <1>0
<1>1. \A n \in Nat : \E f \in [Exprs -> V] : Solves(f, G, n)
  <2> DEFINE Bad == {n \in Nat : ~ \E f \in [Exprs -> V] : Solves(f, G, n)}
  <2>1. SUFFICES ASSUME Bad # {} PROVE FALSE
    OBVIOUS
  <2>2. PICK n \in Bad : \A j \in Bad : j >= n
    <3>1. Bad \in SUBSET Nat
      OBVIOUS
    <3> HIDE DEF Bad
    <3> QED BY <2>1, <3>1, Smallest
  <2>3. CASE n = 0
    <3>1. PICK v \in V : TRUE
      OBVIOUS
    <3>2. [e \in Exprs |-> v] \in [Exprs -> V]
      OBVIOUS
    <3>3. Solves([e \in Exprs |-> v], G, 0)
      BY DEF Solves
    <3> QED BY <2>2, <2>3, <3>2, <3>3
  <2>4. CASE n # 0
    <3>1. n \in Nat /\ n - 1 \in Nat /\ n - 1 \notin Bad
      BY <2>2, <2>4
    <3>2. PICK f \in [Exprs -> V] : Solves(f, G, n - 1)
      BY <3>1
    <3> DEFINE g == [e \in Exprs |-> G[e][f]]
    <3>3. g \in [Exprs -> V]
      OBVIOUS
    <3>4. ASSUME NEW e \in Exprs, Depth[e] < n PROVE g[e] = G[e][g]
      <4>1. ASSUME NEW c \in Exprs, Depth[c] < Depth[e] PROVE f[c] = g[c]
        <5>1. Depth[c] < n - 1
          BY <3>1, <3>4, <4>1
        <5> QED BY <3>2, <5>1 DEF Solves
      <4>2. g[e] = G[e][f]
        OBVIOUS
      <4> HIDE DEF g
      <4> QED BY <3>3, <4>1, <4>2 DEF LooksDown
    <3>5. Solves(g, G, n)
      <4> HIDE DEF g
      <4> QED BY <3>4 DEF Solves
    <3> QED BY <2>2, <3>3, <3>5
  <2> QED BY <2>3, <2>4
<1>2. ASSUME NEW n \in Nat, NEW f \in [Exprs -> V], NEW g \in [Exprs -> V],
             Solves(f, G, n), Solves(g, G, n)
      PROVE  \A e \in Exprs : Depth[e] < n => f[e] = g[e]
  <2> DEFINE Bad == {k \in Nat : \E e \in Exprs : Depth[e] = k /\ k < n /\ f[e] # g[e]}
  <2>1. SUFFICES ASSUME Bad # {} PROVE FALSE
    OBVIOUS
  <2>2. PICK k \in Bad : \A j \in Bad : j >= k
    <3>1. Bad \in SUBSET Nat
      OBVIOUS
    <3> HIDE DEF Bad
    <3> QED BY <2>1, <3>1, Smallest
  <2>3. PICK e \in Exprs : Depth[e] = k /\ k < n /\ f[e] # g[e]
    BY <2>2
  <2>4. \A c \in Exprs : Depth[c] < Depth[e] => f[c] = g[c]
    BY <2>2, <2>3
  <2>5. G[e][f] = G[e][g]
    BY <2>4 DEF LooksDown
  <2> QED BY <1>2, <2>3, <2>5 DEF Solves
<1> DEFINE P(e) == CHOOSE f \in [Exprs -> V] : Solves(f, G, Depth[e] + 1)
           F == [e \in Exprs |-> P(e)[e]]
<1>3. ASSUME NEW e \in Exprs PROVE P(e) \in [Exprs -> V] /\ Solves(P(e), G, Depth[e] + 1)
  <2>1. Depth[e] + 1 \in Nat
    OBVIOUS
  <2> QED BY <1>1, <2>1
<1> HIDE DEF P
<1>4. F \in [Exprs -> V]
  BY <1>3
<1>5. ASSUME NEW e \in Exprs PROVE F[e] = G[e][F]
  <2>1. ASSUME NEW c \in Exprs, Depth[c] < Depth[e] PROVE P(e)[c] = F[c]
    <3>1. Solves(P(e), G, Depth[c] + 1)
      BY <1>3, <2>1 DEF Solves
    <3>2. Depth[c] + 1 \in Nat /\ Depth[c] < Depth[c] + 1
      OBVIOUS
    <3>3. PICK f \in [Exprs -> V], g \in [Exprs -> V], n \in Nat :
            f = P(e) /\ g = P(c) /\ n = Depth[c] + 1
      BY <1>3, <3>2
    <3>4. Solves(f, G, n) /\ Solves(g, G, n)
      BY <1>3, <3>1, <3>3
    <3>5. \A d \in Exprs : Depth[d] < n => f[d] = g[d]
      BY <3>4, <1>2
    <3>6. P(e)[c] = P(c)[c]
      BY <3>2, <3>3, <3>5
    <3> QED BY <3>6
  <2>2. P(e)[e] = G[e][P(e)]
    BY <1>3 DEF Solves
  <2>3. F[e] = P(e)[e]
    OBVIOUS
  <2> HIDE DEF F
  <2> QED BY <1>3, <1>4, <2>1, <2>2, <2>3 DEF LooksDown
<1> HIDE DEF F
<1> QED BY <1>4, <1>5 DEF Solvable

\* What f says of the children of e.
Below(f, e) == [i \in DOMAIN e.children |-> f[e.children[i]]]

LEMMA Children ==
  ASSUME NEW e \in Exprs
  PROVE  /\ e.op \in STRING /\ e.rule \in RawRule \cup {Nil}
         /\ Len(e.children) \in Nat /\ DOMAIN e.children = 1 .. Len(e.children)
         /\ \A i \in DOMAIN e.children : e.children[i] \in Exprs /\ Depth[e.children[i]] < Depth[e]
<1>1. e \in [op: STRING, rule: RawRule \cup {Nil}, children: Seq(Exprs)]
  BY ExprAssumption
<1>2. e.children \in Seq(Exprs) /\ e.op \in STRING /\ e.rule \in RawRule \cup {Nil}
  BY <1>1
<1>3. \A i \in DOMAIN e.children : Depth[e.children[i]] < Depth[e]
  BY ExprAssumption
<1> QED BY <1>2, <1>3

LEMMA Descends ==
  ASSUME NEW V, NEW f \in [Exprs -> V], NEW e \in Exprs
  PROVE  Below(f, e) \in Seq(V)
<1>1. PICK n \in Nat : n = Len(e.children)
  BY Children
<1>2. DOMAIN e.children = 1 .. n /\ \A i \in 1 .. n : e.children[i] \in Exprs
  BY <1>1, Children
<1>3. Below(f, e) \in [1 .. n -> V]
  BY <1>2 DEF Below
<1> QED BY <1>3, SeqDef

\* What gives the value at a node from the values at its children.
Steps(V) == [Exprs -> [Seq(V) -> V]]

\* The function on expressions that takes that step at every node.
Folds(V, K, f) == f \in [Exprs -> V] /\ \A e \in Exprs : f[e] = K[e][Below(f, e)]

\* It exists.
LEMMA TreeRecursion ==
  ASSUME NEW V, V # {}, NEW K, K \in Steps(V)
  PROVE  \E f : Folds(V, K, f)
<1>0. K \in [Exprs -> [Seq(V) -> V]]
  BY DEF Steps
<1> USE <1>0
<1>1. ASSUME NEW f \in [Exprs -> V], NEW e \in Exprs PROVE Below(f, e) \in Seq(V)
  BY Descends
<1> DEFINE G == [e \in Exprs |-> [f \in [Exprs -> V] |-> K[e][Below(f, e)]]]
<1>2. G \in Equations(V)
  BY <1>1 DEF Equations
<1>3. ASSUME NEW e \in Exprs, NEW f \in [Exprs -> V], NEW g \in [Exprs -> V],
             \A c \in Exprs : Depth[c] < Depth[e] => f[c] = g[c]
      PROVE  G[e][f] = G[e][g]
  <2>1. Below(f, e) = Below(g, e)
    BY <1>3, Children DEF Below
  <2> QED BY <2>1
<1>4. \A e \in Exprs, f \in [Exprs -> V] : G[e][f] = K[e][Below(f, e)]
  OBVIOUS
<1> HIDE DEF G
<1>5. LooksDown(V, G)
  BY <1>3 DEF LooksDown
<1>6. Solvable(V, G)
  BY <1>2, <1>5, Recursion
<1> QED BY <1>4, <1>6 DEF Solvable, Folds

\* Each recursive function of the model is the one its equation asks for.
LEMMA RuleVerdict ==
  ASSUME NEW r, NEW t PROVE scheduleRuleMatches(r, t) \in BOOLEAN
BY DEF scheduleRuleMatches, matchesTimeRange, matchesRange, matchesDateRange

LEMMA Evaluation ==
  /\ evalExpr \in [Exprs -> [Instants -> BOOLEAN]]
  /\ \A e \in Exprs : evalExpr[e] = [t \in Instants |-> evalNode(e, t, Below(evalExpr, e))]
<1> DEFINE V == [Instants -> BOOLEAN]
           K == [e \in Exprs |-> [s \in Seq(V) |-> [t \in Instants |-> evalNode(e, t, s)]]]
<1>1. V # {}
  <2>1. [t \in Instants |-> TRUE] \in V
    OBVIOUS
  <2> QED BY <2>1
<1>2. ASSUME NEW e, NEW t, NEW s PROVE evalNode(e, t, s) \in BOOLEAN
  BY RuleVerdict DEF evalNode
<1>3. K \in Steps(V)
  BY <1>2 DEF Steps
<1>4. PICK f : Folds(V, K, f)
  <2> HIDE DEF V, K
  <2> QED BY <1>1, <1>3, TreeRecursion
<1>5. ASSUME NEW e \in Exprs PROVE Below(f, e) \in Seq(V)
  <2> HIDE DEF V, K
  <2> QED BY <1>4, Descends DEF Folds
<1>6. f = [e \in Exprs |-> [t \in Instants |-> evalNode(e, t, Below(f, e))]]
  BY <1>4, <1>5 DEF Folds
<1>7. evalExpr = [e \in Exprs |-> [t \in Instants |-> evalNode(e, t, Below(evalExpr, e))]]
  BY <1>6 DEF evalExpr, Below
<1> QED BY <1>2, <1>7

LEMMA Validation ==
  /\ validateExpr \in [Exprs -> BOOLEAN]
  /\ \A e \in Exprs : validateExpr[e] = validateNode(e, Below(validateExpr, e))
<1> DEFINE V == BOOLEAN
           K == [e \in Exprs |-> [s \in Seq(V) |-> validateNode(e, s)]]
<1>1. V # {}
  OBVIOUS
<1>2. ASSUME NEW e, NEW s PROVE validateNode(e, s) \in V
  BY DEF validateNode, validateRule
<1>3. K \in Steps(V)
  BY <1>2 DEF Steps
<1>4. PICK f : Folds(V, K, f)
  <2> HIDE DEF V, K
  <2> QED BY <1>1, <1>3, TreeRecursion
<1>5. ASSUME NEW e \in Exprs PROVE Below(f, e) \in Seq(V)
  <2> HIDE DEF V, K
  <2> QED BY <1>4, Descends DEF Folds
<1>6. f = [e \in Exprs |-> validateNode(e, Below(f, e))]
  BY <1>4, <1>5 DEF Folds
<1>7. validateExpr = [e \in Exprs |-> validateNode(e, Below(validateExpr, e))]
  BY <1>6 DEF validateExpr, Below
<1> QED BY <1>2, <1>7

LEMMA RuleInstants ==
  ASSUME NEW r PROVE RuleMeaning(r) \in SUBSET Instants
BY DEF RuleMeaning

LEMMA Denotation ==
  /\ Meaning \in [Exprs -> SUBSET Instants]
  /\ \A e \in Exprs : Meaning[e] = NodeMeaning(e, Below(Meaning, e))
<1> DEFINE V == SUBSET Instants
           K == [e \in Exprs |-> [s \in Seq(V) |-> NodeMeaning(e, s)]]
<1>1. V # {}
  OBVIOUS
<1>2. ASSUME NEW e, NEW s PROVE NodeMeaning(e, s) \in V
  BY RuleInstants DEF NodeMeaning
<1>3. K \in Steps(V)
  BY <1>2 DEF Steps
<1>4. PICK f : Folds(V, K, f)
  <2> HIDE DEF V, K
  <2> QED BY <1>1, <1>3, TreeRecursion
<1>5. ASSUME NEW e \in Exprs PROVE Below(f, e) \in Seq(V)
  <2> HIDE DEF V, K
  <2> QED BY <1>4, Descends DEF Folds
<1>6. f = [e \in Exprs |-> NodeMeaning(e, Below(f, e))]
  BY <1>4, <1>5 DEF Folds
<1>7. Meaning = [e \in Exprs |-> NodeMeaning(e, Below(Meaning, e))]
  BY <1>6 DEF Meaning, Below
<1> QED BY <1>2, <1>7

LEMMA Typing ==
  /\ WellTyped \in [Exprs -> BOOLEAN]
  /\ \A e \in Exprs : WellTyped[e] = NodeTyped(e, Below(WellTyped, e))
<1> DEFINE V == BOOLEAN
           K == [e \in Exprs |-> [s \in Seq(V) |-> NodeTyped(e, s)]]
<1>1. V # {}
  OBVIOUS
<1>2. ASSUME NEW e, NEW s PROVE NodeTyped(e, s) \in V
  BY DEF NodeTyped
<1>3. K \in Steps(V)
  BY <1>2 DEF Steps
<1>4. PICK f : Folds(V, K, f)
  <2> HIDE DEF V, K
  <2> QED BY <1>1, <1>3, TreeRecursion
<1>5. ASSUME NEW e \in Exprs PROVE Below(f, e) \in Seq(V)
  <2> HIDE DEF V, K
  <2> QED BY <1>4, Descends DEF Folds
<1>6. f = [e \in Exprs |-> NodeTyped(e, Below(f, e))]
  BY <1>4, <1>5 DEF Folds
<1>7. WellTyped = [e \in Exprs |-> NodeTyped(e, Below(WellTyped, e))]
  BY <1>6 DEF WellTyped, Below
<1> QED BY <1>2, <1>7

-----------------------------------------------------------------------------
(* Expressions *)

\* A set of expressions with every expression whose children it holds.
Inductive(S) ==
  \A e \in Exprs : (\A i \in DOMAIN e.children : e.children[i] \in S) => e \in S

LEMMA Induction ==
  ASSUME NEW S, Inductive(S) PROVE Exprs \subseteq S
<1> DEFINE Bad == {n \in Nat : \E e \in Exprs \ S : Depth[e] = n}
<1>1. Depth \in [Exprs -> Nat]
  BY ExprAssumption
<1>2. SUFFICES ASSUME Bad # {} PROVE FALSE
  BY <1>1
<1>3. PICK n \in Bad : \A j \in Bad : j >= n
  <2>1. Bad \in SUBSET Nat
    OBVIOUS
  <2> HIDE DEF Bad
  <2> QED BY <1>2, <2>1, Smallest
<1>4. PICK e \in Exprs \ S : Depth[e] = n
  BY <1>3
<1>5. \A i \in DOMAIN e.children : e.children[i] \in S
  <2>1. SUFFICES ASSUME NEW i \in DOMAIN e.children, e.children[i] \notin S PROVE FALSE
    OBVIOUS
  <2>2. PICK c \in Exprs : c = e.children[i] /\ Depth[c] < Depth[e]
    BY Children
  <2>3. Depth[c] \in Bad
    BY <1>1, <2>1, <2>2
  <2> QED BY <1>1, <1>3, <1>4, <2>2, <2>3
<1> QED BY <1>4, <1>5 DEF Inductive

\* What validateExpr accepts, evalExpr can be given: an expression that passed
\* validation when it was stored has, at every depth, known operators with the
\* operands they need and rules within the calendar (dates excepted: any texts).
THEOREM ValidIsWellTyped ==
  \A e \in Exprs : validateExpr[e] => WellTyped[e]
<1> DEFINE S == {e \in Exprs : validateExpr[e] => WellTyped[e]}
<1>1. ASSUME NEW e \in Exprs, \A i \in DOMAIN e.children : e.children[i] \in S, validateExpr[e]
      PROVE  WellTyped[e]
  <2>1. validateNode(e, Below(validateExpr, e))
    BY <1>1, Validation
  <2>2. CASE e.op = "rule"
    <3>1. e.rule # Nil /\ validateRule(e.rule)
      BY <2>1, <2>2 DEF validateNode
    <3>2. e.rule \in RawRule
      BY <3>1, Children
    <3>3. e.rule \in RuleType
      BY <3>1, <3>2, ValidRulesAreEvaluated
    <3>4. NodeTyped(e, Below(WellTyped, e))
      BY <2>2, <3>3 DEF NodeTyped
    <3> QED BY <3>4, Typing
  <2>3. CASE e.op # "rule"
    <3>1. \A i \in DOMAIN e.children : Below(validateExpr, e)[i]
      BY <2>1, <2>3 DEF validateNode
    <3>2. \A i \in DOMAIN e.children : Below(WellTyped, e)[i]
      BY <1>1, <3>1 DEF Below
    <3>3. \/ e.op = "not" /\ Len(e.children) = 1
          \/ e.op \in {"and", "or"} /\ Len(e.children) >= 2
      BY <2>1, <2>3 DEF validateNode
    <3>4. e.op = "not" <=> Len(e.children) = 1
      <4>1. PICK n \in Nat : n = Len(e.children)
        BY Children
      <4>2. n >= 2 => n # 1
        OBVIOUS
      <4> QED BY <3>3, <4>1, <4>2, Zenon
    <3>5. NodeTyped(e, Below(WellTyped, e))
      BY <2>3, <3>2, <3>3, <3>4 DEF NodeTyped
    <3> QED BY <3>5, Typing
  <2> QED BY <2>2, <2>3
<1>2. Inductive(S)
  BY <1>1 DEF Inductive
<1> HIDE DEF S
<1>3. Exprs \subseteq S
  BY <1>2, Induction
<1> QED BY <1>3 DEF S

\* evalExpr gives a well-formed expression the instants it denotes: at every
\* depth its short-circuited ands, ors and nots are intersection, union and
\* complement of sets of instants, and a rule is a circular window.
THEOREM EvaluationIsMeaning ==
  \A e \in Exprs : WellTyped[e] => \A t \in Instants : evalExpr[e][t] <=> t \in Meaning[e]
<1> DEFINE S == {e \in Exprs : WellTyped[e] =>
                   \A t \in Instants : evalExpr[e][t] <=> t \in Meaning[e]}
<1>1. ASSUME NEW e \in Exprs, \A i \in DOMAIN e.children : e.children[i] \in S,
             WellTyped[e], NEW t \in Instants
      PROVE  evalExpr[e][t] <=> t \in Meaning[e]
  <2> DEFINE verdict == Below(evalExpr, e)
             covers == Below(Meaning, e)
  <2>1. NodeTyped(e, Below(WellTyped, e))
    BY <1>1, Typing
  <2>2. evalExpr[e][t] = evalNode(e, t, verdict)
    BY Evaluation
  <2>3. Meaning[e] = NodeMeaning(e, covers)
    BY Denotation
  <2>4. CASE e.op = "rule"
    <3>1. e.rule \in RuleType
      BY <2>1, <2>4 DEF NodeTyped
    <3>2. e.rule # Nil
      BY <3>1, ExprAssumption
    <3>3. evalNode(e, t, verdict) = scheduleRuleMatches(e.rule, t)
      BY <2>4, <3>2, RuleVerdict DEF evalNode
    <3>4. NodeMeaning(e, covers) = RuleMeaning(e.rule)
      BY <2>4 DEF NodeMeaning
    <3> QED BY <2>2, <2>3, <3>1, <3>3, <3>4, RuleMatchesItsInstants
  <2>5. CASE e.op # "rule"
    <3>1. ASSUME NEW i \in DOMAIN e.children PROVE verdict[i][t] <=> t \in covers[i]
      <4>1. WellTyped[e.children[i]]
        BY <2>1, <2>5 DEF NodeTyped, Below
      <4> QED BY <1>1, <4>1 DEF Below
    <3> HIDE DEF verdict, covers
    <3>2. CASE e.op = "not"
      <4>1. Len(e.children) = 1 /\ DOMAIN e.children = {1}
        BY <2>1, <2>5, <3>2, Children DEF NodeTyped
      <4>2. evalNode(e, t, verdict) <=> ~ verdict[1][t]
        BY <3>2, <4>1 DEF evalNode
      <4>3. t \in NodeMeaning(e, covers) <=> t \notin covers[1]
        BY <3>2, <4>1 DEF NodeMeaning
      <4> QED BY <2>2, <2>3, <3>1, <4>1, <4>2, <4>3
    <3>3. CASE e.op = "and"
      <4>1. evalNode(e, t, verdict) <=> \A i \in DOMAIN e.children : verdict[i][t]
        BY <3>3 DEF evalNode
      <4>2. t \in NodeMeaning(e, covers) <=> \A i \in DOMAIN e.children : t \in covers[i]
        BY <3>3 DEF NodeMeaning
      <4> QED BY <2>2, <2>3, <3>1, <4>1, <4>2
    <3>4. CASE e.op = "or"
      <4>1. evalNode(e, t, verdict) <=> \E i \in DOMAIN e.children : verdict[i][t]
        BY <3>4 DEF evalNode
      <4>2. t \in NodeMeaning(e, covers) <=> \E i \in DOMAIN e.children : t \in covers[i]
        BY <3>4 DEF NodeMeaning
      <4> QED BY <2>2, <2>3, <3>1, <4>1, <4>2
    <3> QED BY <2>1, <2>5, <3>2, <3>3, <3>4 DEF NodeTyped
  <2> QED BY <2>4, <2>5
<1>2. Inductive(S)
  BY <1>1 DEF Inductive
<1> HIDE DEF S
<1>3. Exprs \subseteq S
  BY <1>2, Induction
<1> QED BY <1>3 DEF S

-----------------------------------------------------------------------------
(* The stored schedule *)

LEMMA ZeroInstant == 0 \in Instants
BY Sizes, CalendarAssumption, SMT DEF Instants

\* Whatever is submitted (RawRule: any operator, type, number, time or text for a
\* date, or none), in whatever order schedules are created, replaced and deleted,
\* the stored schedule is one that evalExpr can be given.  A date_range among it
\* need not hold dates.
THEOREM TypeCorrect == Spec => []TypeOK
<1>1. Init => TypeOK
  BY ZeroInstant DEF Init, TypeOK
<1>2. TypeOK /\ [Next]_vars => TypeOK'
  <2> SUFFICES ASSUME TypeOK, [Next]_vars PROVE TypeOK'
    OBVIOUS
  <2> USE DEF TypeOK
  <2>1. ASSUME NEW expr \in Exprs \cup {Nil}, Create(expr) \/ Update(expr) PROVE TypeOK'
    <3>1. clock' \in Instants /\ stored' = expr /\ (expr # Nil => validateExpr[expr])
      BY <2>1 DEF Create, Update
    <3>2. expr \in {Nil} \cup {e \in Exprs : WellTyped[e]}
      BY <3>1, ValidIsWellTyped
    <3> QED BY <3>1, <3>2
  <2>2. CASE Delete
    BY <2>2 DEF Delete
  <2>3. CASE Tick
    BY <2>3 DEF Tick
  <2>4. CASE UNCHANGED vars
    BY <2>4 DEF vars
  <2> QED BY <2>1, <2>2, <2>3, <2>4 DEF Next
<1> QED BY <1>1, <1>2, PTL DEF Spec

\* Whatever was submitted and whenever a gate is triggered, Check lets the
\* caller in exactly when the moment is one that the stored expression
\* denotes: validation and evaluation together, for every expression.
THEOREM ScheduleKept == Spec => []CheckMeansSchedule
<1>1. TypeOK => CheckMeansSchedule
  BY EvaluationIsMeaning DEF TypeOK, CheckMeansSchedule, Check
<1> QED BY <1>1, TypeCorrect, PTL
=============================================================================
