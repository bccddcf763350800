------------------------------- MODULE Schedule -------------------------------
(***************************************************************************)
(* Access schedules: a Boolean expression over calendar rules, validated   *)
(* when it is stored and evaluated whenever a gate is triggered.           *)
(*                                                                         *)
(* The functions that the code writes recursively are recursive functions  *)
(* here, each with an operator that says what it does with one node and    *)
(* the results for the children.                                           *)
(***************************************************************************)
EXTENDS ScheduleRules

CONSTANTS
  Exprs,       \* what clients submit, well-formed or not, with its subexpressions
  Depth        \* how deep an expression is nested

\* An expression is a finite tree: a decoded JSON document.
ASSUME ExprAssumption ==
  /\ Exprs \subseteq [op: STRING, rule: RawRule \cup {Nil}, children: Seq(Exprs)]
  /\ Depth \in [Exprs -> Nat]
  /\ \A e \in Exprs : \A i \in DOMAIN e.children : Depth[e.children[i]] < Depth[e]
  /\ Nil \notin Exprs \cup RuleType

VARIABLES
  stored, \* the access_schedules row: "absent", or its expr
  clock   \* minutes since midnight of day 0

vars == <<stored, clock>>

-----------------------------------------------------------------------------
(* Evaluation *)

\* The verdict of a node at t, given its children's verdicts.
evalNode(node, t, verdict) ==
  LET child == DOMAIN node.children
  IN  CASE node.op = "rule" -> node.rule # Nil /\ scheduleRuleMatches(node.rule, t)
        [] node.op = "not"  -> Len(node.children) = 1 /\ ~ verdict[1][t]
        [] node.op = "and"  -> \A i \in child : verdict[i][t]
        [] node.op = "or"   -> \E i \in child : verdict[i][t]
        [] OTHER            -> FALSE

evalExpr[node \in Exprs] ==
  LET verdict == [i \in DOMAIN node.children |-> evalExpr[node.children[i]]]
  IN  [t \in Instants |-> evalNode(node, t, verdict)]

\* A schedule without expression restricts nothing.
Check(expr, t) == expr = Nil \/ evalExpr[expr][t]

-----------------------------------------------------------------------------
(* Validation *)

\* (mutant: the rules below an operator are not looked at)
validateNode_Shallow(node, valid) ==
  CASE node.op = "rule" -> node.rule # Nil /\ validateRule(node.rule)
    [] node.op = "not"  -> Len(node.children) = 1
    [] node.op \in {"and", "or"} -> Len(node.children) >= 2
    [] OTHER -> FALSE

\* Whether a node is valid, given whether each of its children is.
validateNode(node, valid) ==
  LET children == \A i \in DOMAIN node.children : valid[i]
  IN  CASE node.op = "rule" -> node.rule # Nil /\ validateRule(node.rule)
        [] node.op = "not"  -> Len(node.children) = 1 /\ children
        [] node.op \in {"and", "or"} -> Len(node.children) >= 2 /\ children
        [] OTHER -> FALSE

validateExpr[node \in Exprs] ==
  validateNode(node, [i \in DOMAIN node.children |-> validateExpr[node.children[i]]])

-----------------------------------------------------------------------------
(* The stored schedule *)

Absent == [op |-> "absent"]

Init == stored = Absent /\ clock = 0

\* Create and CreateMine.
Create(expr) ==
  /\ stored = Absent
  /\ expr # Nil => validateExpr[expr]
  /\ stored' = expr /\ UNCHANGED clock

\* Update and UpdateMine replace the expression, with nothing too.
Update(expr) ==
  /\ stored # Absent
  /\ expr # Nil => validateExpr[expr]
  /\ stored' = expr /\ UNCHANGED clock

Delete == stored # Absent /\ stored' = Absent /\ UNCHANGED clock

Tick == clock + 1 \in Instants /\ clock' = clock + 1 /\ UNCHANGED stored

Next == (\E expr \in Exprs \cup {Nil} : Create(expr) \/ Update(expr)) \/ Delete \/ Tick

Spec == Init /\ [][Next]_vars

-----------------------------------------------------------------------------
(* What a schedule means: the set of instants it covers *)

\* What a node covers, given the sets its children cover.
NodeMeaning(e, covers) ==
  LET child == DOMAIN e.children
  IN  CASE e.op = "rule" -> RuleMeaning(e.rule)
        [] e.op = "not"  -> Instants \ UNION {covers[i] : i \in child}
        [] e.op = "and"  -> {t \in Instants : \A i \in child : t \in covers[i]}
        [] e.op = "or"   -> {t \in Instants : \E i \in child : t \in covers[i]}
        [] OTHER         -> {}

Meaning[e \in Exprs] ==
  NodeMeaning(e, [i \in DOMAIN e.children |-> Meaning[e.children[i]]])

\* The shape of what evalExpr can be given: no missing rule, no operator with
\* the wrong number of operands, no bound outside its calendar but dates.
NodeTyped(e, typed) ==
  /\ e.op \in {"rule", "not", "and", "or"}
  /\ e.op = "rule" => e.rule \in RuleType
  /\ e.op # "rule" => /\ e.op = "not" <=> Len(e.children) = 1
                      /\ \A i \in DOMAIN e.children : typed[i]

WellTyped[e \in Exprs] ==
  NodeTyped(e, [i \in DOMAIN e.children |-> WellTyped[e.children[i]]])

-----------------------------------------------------------------------------
(* Properties *)

\* Every stored schedule is absent, unrestricted or an expression that
\* validateExpr let through for a reason: known operators with their operands and
\* bounds within the calendar, at every depth.  Of dates it promises nothing: a
\* date_range is stored with any two texts in string order (schedule.go:189-195).
TypeOK ==
  /\ clock \in Instants
  /\ stored \in {Absent, Nil} \cup {e \in Exprs : WellTyped[e]}

\* At every moment Check lets a caller in exactly when the moment is one the
\* stored expression denotes, read as sets of instants with circular windows:
\* over midnight, the end of the week, of the month and of the year, under any
\* nesting of and, or and not.  A date_range denotes its days if its bounds are
\* dates; one with other texts denotes the days that sort between them, which is
\* not what who wrote 01/06/2026-31/08/2026 meant: every day of a year 2yyy.
CheckMeansSchedule ==
  stored \notin {Absent, Nil} => (Check(stored, clock) <=> clock \in Meaning[stored])
=============================================================================
