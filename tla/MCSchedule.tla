------------------------------ MODULE MCSchedule ------------------------------
(***************************************************************************)
(* Schedules over days of four minutes, weeks of three days and a year of  *)
(* two months: every single rule, and combinations of some of them.        *)
(***************************************************************************)
EXTENDS Schedule

Starts == <<0, 2, 5>>

Time == ((0 .. 2) \X (0 .. 1)) \cup {Nil}

Leaf(r)    == [op |-> "rule", rule |-> r, children |-> <<>>]
Node(o, s) == [op |-> o, rule |-> Nil, children |-> s]

Range(type, values) == {[type |-> type, start |-> a, end |-> b] : a \in values, b \in values}

\* Each kind with bounds inside, at the edge of and outside its calendar; dates
\* also with texts before the first date, between two and after the last.
Rules ==
  [type: {"time_range"}, days: {{}, {0}, {1, 2}, {3}}, start: Time, end: Time]
    \cup Range("weekdays_range", (0 .. 3) \cup {Nil})
    \cup Range("date_range", {-2, -1, Text(0), Text(2), Text(2) + 1, Text(2) + 2, Text(20) + 1, Nil})
    \cup Range("day_of_month_range", 0 .. 3)
    \cup Range("month_range", 0 .. 2)

Night   == [type |-> "time_range", days |-> {1}, start |-> <<1, 1>>, end |-> <<0, 1>>]
Weekend == [type |-> "weekdays_range", start |-> 2, end |-> 0]
TurnOfMonth == [type |-> "day_of_month_range", start |-> 3, end |-> 1]
Unknown == [type |-> "solstice", start |-> 0, end |-> 0]
Few     == {Leaf(r) : r \in {Night, Weekend, TurnOfMonth}}
Negated == {Node("not", <<e>>) : e \in Few}
Pairs   == {Node(o, <<a, b>>) : o \in {"and", "or"}, a \in Few \cup Negated, b \in Few}

Expressions ==
  {Leaf(r) : r \in Rules} \cup Few \cup Negated \cup Pairs \cup {Node("not", <<e>>) : e \in Pairs}
    \cup UNION {{Leaf(r), Node("not", <<Leaf(r)>>),
                Node("and", <<Leaf(Night), Node("not", <<Leaf(r)>>)>>),
                Node("or", <<Leaf(Night), Node("not", <<Leaf(r)>>)>>)} :
                  r \in {Unknown, [Weekend EXCEPT !.end = 9]}}
    \cup {Leaf(Nil), Node("xor", <<>>), Node("not", <<>>), Node("and", <<Leaf(Night)>>)}

Nesting[e \in Expressions] ==
  IF e.children = <<>> THEN 0
  ELSE CHOOSE n \in 1 .. 3 : /\ \A i \in DOMAIN e.children : Nesting[e.children[i]] < n
                             /\ \E i \in DOMAIN e.children : Nesting[e.children[i]] = n - 1
=============================================================================
