--------------------------- MODULE GateStatusProofs ---------------------------
(***************************************************************************)
(* TLAPS proofs about GateStatus, for any set of gates, handlers and       *)
(* configurations and any thresholds.                                      *)
(***************************************************************************)
EXTENDS GateStatus, WellFoundedInduction, TLAPS

-----------------------------------------------------------------------------
(* Lemmas on the operators *)

\* Every nonempty set of naturals has a least element, so the "first rule that
\* matches" in EvaluateStatusRules exists.
LEMMA LeastExists ==
  ASSUME NEW S \in SUBSET Nat, S # {}
  PROVE  \E i \in S : \A j \in S : i <= j
<1>1. \E x \in S : \A y \in S : ~ (<<y, x>> \in OpToRel(<, Nat))
  BY NatLessThanWellFounded, WFMin
<1>2. PICK x \in S : \A y \in S : ~ (<<y, x>> \in OpToRel(<, Nat))
  BY <1>1
<1>3. ASSUME NEW y \in S PROVE x <= y
  <2>1. ~ (y < x)
    BY <1>2 DEF OpToRel
  <2> QED BY <2>1
<1> QED BY <1>3

\* EvaluateStatusRules returns a status a device or a configuration names.
LEMMA RulesType ==
  ASSUME NEW c \in Configs, NEW m, NEW raw \in Reported
  PROVE  EvaluateStatusRules(c.rules, m, raw) \in Reported
<1> DEFINE hits == {i \in DOMAIN c.rules : m \in c.rules[i].matches}
<1>1. c.rules \in Seq(Rule)
  BY ConfigsAssumption DEF Config
<1>2. CASE hits = {}
  BY <1>2 DEF EvaluateStatusRules
<1>3. CASE hits # {}
  <2>1. hits \in SUBSET Nat
    BY <1>1
  <2>2. \E i \in hits : \A j \in hits : i <= j
    <3> HIDE DEF hits
    <3> QED BY <1>3, <2>1, LeastExists
  <2>3. (CHOOSE i \in hits : \A j \in hits : i <= j) \in hits
    <3> HIDE DEF hits
    <3> QED BY <2>2
  <2>4. ASSUME NEW i \in hits PROVE c.rules[i].setStatus \in Reported
    <3>1. i \in 1 .. Len(c.rules)
      BY <1>1
    <3>2. c.rules[i] \in Rule
      BY <1>1, <3>1
    <3> QED BY <3>2 DEF Rule
  <2> QED BY <1>3, <2>3, <2>4 DEF EvaluateStatusRules
<1> QED BY <1>2, <1>3

\* Ageing keeps a timestamp a timestamp, and NULL stays NULL.
LEMMA OlderType ==
  ASSUME NEW t \in Timestamp
  PROVE  /\ Older(t) \in Timestamp
         /\ Older(t) = NoTime <=> t = NoTime
BY TimeAssumption DEF Older, Timestamp, Past, NoTime

\* A transition of a saved configuration is a transition, and has a timer key.
LEMMA TransitionType ==
  ASSUME NEW c \in Configs, NEW i \in DOMAIN c.transitions
  PROVE  /\ c.transitions[i] \in Transition
         /\ transitionRedisKey(c.transitions[i]) \in TransitionKeys
<1>1. c.transitions \in Seq(Transition)
  BY ConfigsAssumption DEF Config
<1>2. i \in 1 .. Len(c.transitions)
  BY <1>1
<1>3. c.transitions[i] \in Transition
  BY <1>1, <1>2
<1>4. c.transitions[i] \in
        UNION {{d.transitions[j] : j \in DOMAIN d.transitions} : d \in Configs}
  OBVIOUS
<1> QED BY <1>3, <1>4 DEF TransitionKeys

\* The rows INSERT and DELETE leave behind are rows.
LEMMA NewRowType ==
  /\ NoRow \in Row /\ NoRow.phase = "absent"
  /\ [NoRow EXCEPT !.phase = "deleted"] \in Row
  /\ [NoRow EXCEPT !.phase = "deleted"].phase = "deleted"
  /\ \A c \in Configs :
       /\ NewRow(c) \in Row /\ NewRow(c).phase = "live"
       /\ NewRow(c).status = "unknown" /\ NewRow(c).lastSeen = NoTime
<1>1. AnyConfig \in Configs
  BY ConfigsAssumption DEF AnyConfig
<1>2. ASSUME NEW c \in Configs PROVE NewRow(c) \in Row
  BY NamesAssumption DEF NewRow, Row, Statuses, Flagged, Timestamp
<1>3. NewRow(AnyConfig) \in Row
  BY <1>1, <1>2
<1>4. NoRow \in Row /\ NoRow.phase = "absent"
  BY <1>3 DEF NoRow, Row
<1>5. ASSUME NEW c \in Configs
      PROVE  /\ NewRow(c).phase = "live"
             /\ NewRow(c).status = "unknown" /\ NewRow(c).lastSeen = NoTime
  BY DEF NewRow
<1> QED BY <1>2, <1>4, <1>5 DEF Row

\* Writing a status keeps the table well-formed.
LEMMA UpdateStatusType ==
  ASSUME gates \in [Gates -> Row], NEW g \in Gates,
         NEW s \in Statuses, NEW m \in Metas
  PROVE  UpdateStatus(g, s, m) \in [Gates -> Row]
<1>1. 0 \in Timestamp
  BY TimeAssumption DEF Timestamp, Past
<1> QED BY <1>1 DEF UpdateStatus, Row

-----------------------------------------------------------------------------
(* Type correctness *)

\* The initial state is well-typed.
LEMMA InitType == Init => TypeOK
<1> SUFFICES ASSUME Init PROVE TypeOK
  OBVIOUS
<1>1. 0 \in Past /\ 0 >= -MaxPass /\ NoTime \in Timestamp
  BY TimeAssumption DEF Past, Timestamp
<1>2. Idle \in HandlerState /\ Idle.pc = "idle"
  BY NamesAssumption DEF Idle, HandlerState, Statuses, Flagged
<1> QED BY <1>1, <1>2, NewRowType DEF Init, TypeOK, Statuses, Flagged

\* Actions of the administrators keep the types.
LEMMA AdminType ==
  ASSUME TypeOK, NEW g \in Gates, Admin(g) \/ DeviceDies(g)
  PROVE  TypeOK'
<1>1. ASSUME NEW c \in Configs, CreateGate(g, c) PROVE TypeOK'
  <2>1. gates' \in [Gates -> Row]
    BY <1>1, NewRowType DEF CreateGate, TypeOK
  <2> QED BY <1>1, <2>1 DEF CreateGate, TypeOK, workerVars, Statuses, Flagged
<1>2. ASSUME NEW c \in Configs, UpdateGate(g, c) PROVE TypeOK'
  <2>1. gates' \in [Gates -> Row]
    BY <1>2 DEF UpdateGate, TypeOK, Row
  <2> QED BY <1>2, <2>1 DEF UpdateGate, TypeOK, workerVars
<1>3. CASE DeleteGate(g)
  BY <1>3, NewRowType DEF DeleteGate, TypeOK, workerVars
<1>4. CASE DeviceDies(g)
  BY <1>4 DEF DeviceDies, TypeOK, rowVars, workerVars
<1> QED BY <1>1, <1>2, <1>3, <1>4 DEF Admin

\* Inbound handlers keep the types.
LEMMA HandlerType ==
  ASSUME TypeOK, NEW h \in Handlers,
         \/ HandlerStep(h)
         \/ \E g \in Gates, raw \in Reported, m \in Metas :
               ReceiveStatus(h, g, raw, m)
  PROVE  TypeOK'
<1>0. Idle \in HandlerState /\ Idle.pc = "idle"
  BY NamesAssumption DEF Idle, HandlerState, Statuses, Flagged
<1>1. ASSUME NEW g \in Gates, NEW raw \in Reported, NEW m \in Metas,
             ReceiveStatus(h, g, raw, m)
      PROVE  TypeOK'
  <2>1. gates[g].config \in Configs
    BY DEF TypeOK, Row
  <2>2. EvaluateStatusRules(gates[g].config.rules, m, raw) \in Reported
    BY <2>1, RulesType
  <2>3. handler' \in [Handlers -> HandlerState]
    BY <1>1, <2>2 DEF ReceiveStatus, TypeOK, HandlerState, Statuses
  <2>4. \A x \in Handlers : handler'[x].pc # "idle" =>
          handler'[x].gate \in Gates /\ handler'[x].status \in Reported
    BY <1>1, <2>2 DEF ReceiveStatus, TypeOK
  <2> QED BY <1>1, <2>3, <2>4 DEF ReceiveStatus, TypeOK, workerVars
<1>2. CASE PersistStatus(h)
  <2>1. /\ handler[h].gate \in Gates /\ handler[h].status \in Statuses
        /\ handler[h].meta \in Metas
    BY <1>2 DEF PersistStatus, TypeOK, HandlerState
  <2>2. gates' \in [Gates -> Row]
    BY <1>2, <2>1, UpdateStatusType DEF PersistStatus, TypeOK
  <2>3. handler' \in [Handlers -> HandlerState]
    BY <1>2 DEF PersistStatus, TypeOK, HandlerState
  <2>4. \A x \in Handlers : handler'[x].pc # "idle" =>
          handler'[x].gate \in Gates /\ handler'[x].status \in Reported
    BY <1>2 DEF PersistStatus, TypeOK, HandlerState
  <2>5. heard' \in [Gates -> Statuses]
    BY <1>2, <2>1 DEF PersistStatus, Heard, TypeOK
  <2> QED BY <1>2, <2>2, <2>3, <2>4, <2>5 DEF PersistStatus, TypeOK, workerVars
<1>3. CASE PersistFails(h)
  BY <1>0, <1>3 DEF PersistFails, TypeOK, workerVars
<1>4. CASE PublishStatus(h)
  <2>1. view' \in [Gates -> Statuses]
    BY <1>4 DEF PublishStatus, Announce, TypeOK, HandlerState
  <2> QED BY <1>0, <1>4, <2>1 DEF PublishStatus, TypeOK, workerVars
<1> QED BY <1>1, <1>2, <1>3, <1>4 DEF HandlerStep

\* What the transition under the worker's cursor is made of.
LEMMA CursorType ==
  ASSUME TypeOK, AtTransition \/ wpc = "fired"
  PROVE  /\ cur \in Gates /\ snap[cur] \in Row
         /\ tr \in Transition /\ tr.to \in Statuses
         /\ transitionRedisKey(tr) \in TransitionKeys
<1>1. cur \in Gates /\ snap[cur].config \in Configs
      /\ idx \in DOMAIN snap[cur].config.transitions
  BY DEF AtTransition, TypeOK, Row
<1>2. tr \in Transition /\ transitionRedisKey(tr) \in TransitionKeys
  BY <1>1, TransitionType DEF tr
<1> QED BY <1>1, <1>2 DEF TypeOK, Transition, Statuses

\* Setting or deleting a timer keeps the timers well-typed.
LEMMA SetTimerType ==
  ASSUME TypeOK, AtTransition, NEW t \in Timestamp
  PROVE  SetTimer(t) \in [Gates -> [TransitionKeys -> Timestamp]]
BY CursorType DEF SetTimer, TypeOK

\* The first half of a tick, markExpired, keeps the types.
LEMMA MarkExpiredType ==
  ASSUME TypeOK,
         \/ MarkExpired \/ MarkExpiredFails
         \/ \E g \in Gates : PublishExpired(g)
  PROVE  TypeOK'
<1>1. CASE MarkExpired
  <2>1. gates' \in [Gates -> Row]
    <3>1. ASSUME NEW g \in Gates
          PROVE  [gates[g] EXCEPT !.status = "unresponsive"] \in Row
      <4>1. gates[g] \in Row
        BY DEF TypeOK
      <4> QED BY <4>1 DEF Row, Statuses, Flagged
    <3> QED BY <1>1, <3>1 DEF MarkExpired, MarkUnresponsiveWithIDs, TypeOK
  <2> QED BY <1>1, <2>1 DEF MarkExpired, TypeOK
<1>2. CASE MarkExpiredFails
  BY <1>2 DEF MarkExpiredFails, TypeOK, rowVars
<1>3. ASSUME NEW g \in Gates, PublishExpired(g) PROVE TypeOK'
  <2>1. view' \in [Gates -> Statuses]
    BY <1>3 DEF PublishExpired, Announce, TypeOK, Statuses, Flagged
  <2> QED BY <1>3, <2>1 DEF PublishExpired, TypeOK
<1> QED BY <1>1, <1>2, <1>3

\* The second half, checkTransitions, keeps the types.
LEMMA CheckTransitionsType ==
  ASSUME TypeOK,
         \/ ListCandidates \/ ListCandidatesFails \/ ReadNow
         \/ \E g \in Gates : StartGate(g)
         \/ NotDue \/ Fire \/ FireFails \/ PublishFired \/ EndGate \/ EndPass
  PROVE  TypeOK'
<1>0. 0 \in Past /\ 0 >= -MaxPass /\ NoTime \in Timestamp
  BY TimeAssumption DEF Past, Timestamp
<1>a. ASSUME AtTransition
      PROVE  /\ snap[cur].lastSeen \in Timestamp
             /\ SetTimer(NoTime) \in [Gates -> [TransitionKeys -> Timestamp]]
             /\ SetTimer(snap[cur].lastSeen) \in [Gates -> [TransitionKeys -> Timestamp]]
  <2>1. snap[cur].lastSeen \in Timestamp
    BY <1>a, CursorType DEF Row
  <2> QED BY <1>a, <1>0, <2>1, SetTimerType
<1>1. CASE ListCandidates
  <2>1. snap' \in [Gates -> Row]
    BY <1>1, NewRowType DEF ListCandidates, TypeOK
  <2>2. ListTransitionCandidates \subseteq Gates
    BY DEF ListTransitionCandidates
  <2> QED BY <1>1, <2>1, <2>2 DEF ListCandidates, TypeOK, rowVars
<1>2. CASE ListCandidatesFails
  BY <1>2 DEF ListCandidatesFails, TypeOK, rowVars
<1>3. CASE ReadNow
  BY <1>0, <1>3 DEF ReadNow, TypeOK, rowVars
<1>4. ASSUME NEW g \in Gates, StartGate(g) PROVE TypeOK'
  BY <1>4 DEF StartGate, TypeOK, rowVars
<1>5. CASE NotDue
  <2>1. armed' \in [Gates -> [TransitionKeys -> Timestamp]]
    BY <1>5, <1>a DEF NotDue, TypeOK
  <2>2. wpc' = "loop" /\ idx' \in Nat
    BY <1>5 DEF NotDue, AtTransition, TypeOK
  <2> QED BY <1>5, <2>1, <2>2 DEF NotDue, TypeOK
<1>6. CASE Fire
  <2>1. armed' \in [Gates -> [TransitionKeys -> Timestamp]]
    BY <1>6, <1>a DEF Fire, DropTimer, TypeOK
  <2>2. cur \in Gates /\ tr.to \in Statuses /\ snap[cur].meta \in Metas
    BY <1>6, CursorType DEF Fire, Row
  <2>3. gates' \in [Gates -> Row]
    BY <1>6, <2>2, UpdateStatusType DEF Fire, TypeOK
  <2>4. idx \in DOMAIN snap[cur].config.transitions
    BY <1>6 DEF Fire, AtTransition
  <2>5. heard' \in [Gates -> Statuses]
    BY <1>6, <2>2 DEF Fire, Heard, TypeOK
  <2> QED BY <1>6, <2>1, <2>2, <2>3, <2>4, <2>5 DEF Fire, TypeOK
<1>7. CASE FireFails
  <2>1. armed' \in [Gates -> [TransitionKeys -> Timestamp]]
    BY <1>7, <1>a DEF FireFails, DropTimer, TypeOK
  <2>2. wpc' = "loop" /\ idx' \in Nat
    BY <1>7 DEF FireFails, AtTransition, TypeOK
  <2> QED BY <1>7, <2>1, <2>2 DEF FireFails, TypeOK
<1>8. CASE PublishFired
  <2>1. cur \in Gates /\ tr.to \in Statuses
    BY <1>8, CursorType DEF PublishFired
  <2>2. view' \in [Gates -> Statuses]
    BY <1>8, <2>1 DEF PublishFired, Announce, TypeOK
  <2> QED BY <1>8, <2>2 DEF PublishFired, TypeOK
<1>9. CASE EndGate
  BY <1>9 DEF EndGate, TypeOK, rowVars
<1>10. CASE EndPass
  BY <1>0, <1>10, NewRowType DEF EndPass, TypeOK, rowVars
<1> QED BY <1>1, <1>2, <1>3, <1>4, <1>5, <1>6, <1>7, <1>8, <1>9, <1>10

\* Time keeps the types.
LEMMA PassTimeType ==
  ASSUME TypeOK, PassTime
  PROVE  TypeOK'
<1>1. gates' \in [Gates -> Row]
  <2>1. ASSUME NEW g \in Gates PROVE gates'[g] \in Row
    <3>1. gates[g] \in Row /\ Older(gates[g].lastSeen) \in Timestamp
      BY OlderType DEF TypeOK, Row
    <3> QED BY <3>1 DEF PassTime, Row
  <2> QED BY <2>1 DEF PassTime
<1>2. snap' \in [Gates -> Row] /\ \A g \in Gates : snap'[g].config = snap[g].config
  <2>1. ASSUME NEW g \in Gates
        PROVE  snap'[g] \in Row /\ snap'[g].config = snap[g].config
    <3>1. snap[g] \in Row /\ Older(snap[g].lastSeen) \in Timestamp
      BY OlderType DEF TypeOK, Row
    <3> QED BY <3>1 DEF PassTime, Row
  <2> QED BY <2>1 DEF PassTime
<1>3. armed' \in [Gates -> [TransitionKeys -> Timestamp]]
  <2>1. \A g \in Gates, k \in TransitionKeys : Older(armed[g][k]) \in Timestamp
    BY OlderType DEF TypeOK
  <2> QED BY <2>1 DEF PassTime
<1>4. now' \in Past /\ now' >= -MaxPass
  BY TimeAssumption DEF PassTime, TypeOK, Past
<1> QED BY <1>1, <1>2, <1>3, <1>4 DEF PassTime, TypeOK

\* Every step of the pipeline keeps the types.
LEMMA NextType == TypeOK /\ [Next]_vars => TypeOK'
<1> SUFFICES ASSUME TypeOK, [Next]_vars PROVE TypeOK'
  OBVIOUS
<1>1. CASE UNCHANGED vars
  BY <1>1 DEF vars, workerVars, TypeOK
<1>2. CASE Next
  <2>1. ASSUME NEW g \in Gates, Admin(g) \/ DeviceDies(g) PROVE TypeOK'
    BY <2>1, AdminType
  <2>2. ASSUME NEW h \in Handlers, NEW g \in Gates, NEW raw \in Reported,
               NEW m \in Metas, ReceiveStatus(h, g, raw, m)
        PROVE  TypeOK'
    BY <2>2, HandlerType
  <2>3. ASSUME NEW h \in Handlers, HandlerStep(h) PROVE TypeOK'
    BY <2>3, HandlerType
  <2>4. CASE WorkerStep
    BY <2>4, MarkExpiredType, CheckTransitionsType DEF WorkerStep
  <2>5. CASE PassTime
    BY <2>5, PassTimeType
  <2> QED BY <1>2, <2>1, <2>2, <2>3, <2>4, <2>5 DEF Next, Inbound
<1> QED BY <1>1, <1>2

\* Type correctness: rows, timers, handlers and the worker's cursor keep their
\* shape whatever the interleaving; a transition under the cursor exists.
THEOREM TypeCorrect == Spec => []TypeOK
<1> QED BY InitType, NextType, PTL DEF Spec

-----------------------------------------------------------------------------
(* The mark of the TTL worker *)

\* The step leaves the gate's status, its observer and its age alone.
Kept(g) ==
  /\ gates[g].phase = "live" /\ gates'[g].status = gates[g].status
  /\ gates'[g].lastSeen = gates[g].lastSeen /\ heard'[g] = heard[g]

\* Every step keeps MarkedOnlyIfSilent: a write moves the status and its observer
\* together, the worker's mark needs the silence, and time only lengthens it.
LEMMA NextMarked ==
  TypeOK /\ MarkedOnlyIfSilent /\ [Next]_vars => MarkedOnlyIfSilent'
<1> DEFINE Silent(t) == \E c \in Configs : t < 0 - c.ttl
<1> SUFFICES ASSUME TypeOK, MarkedOnlyIfSilent, [Next]_vars,
                    NEW g \in Gates, gates'[g].phase = "live"
             PROVE  \/ gates'[g].status = heard'[g]
                    \/ gates'[g].status = "unresponsive" /\ Silent(gates'[g].lastSeen)
  BY DEF MarkedOnlyIfSilent
<1>0. /\ gates[g] \in Row /\ heard[g] \in Statuses
      /\ \A c \in Configs : c.ttl \in Nat /\ c.ttl < Horizon
  BY ConfigsAssumption DEF TypeOK, Config, Row
<1>1. Kept(g) => \/ gates'[g].status = heard'[g]
                 \/ gates'[g].status = "unresponsive" /\ Silent(gates'[g].lastSeen)
  BY DEF MarkedOnlyIfSilent, Kept
<1>2. ASSUME UNCHANGED <<gates, heard>> PROVE Kept(g)
  BY <1>2 DEF Kept
\* a status write: row and observer move together
<1>3. ASSUME NEW x \in Gates, NEW s, NEW m,
             gates' = UpdateStatus(x, s, m), heard' = Heard(x, s)
      PROVE  Kept(g) \/ gates'[g].status = heard'[g]
  BY <1>0, <1>3 DEF UpdateStatus, Heard, TypeOK, Row, Kept
<1>4. ASSUME NEW x \in Gates, Admin(x) \/ DeviceDies(x)
      PROVE  Kept(g) \/ gates'[g].status = heard'[g]
  <2>1. ASSUME NEW c \in Configs, CreateGate(x, c)
        PROVE  Kept(g) \/ gates'[g].status = heard'[g]
    <3>1. CASE g = x
      <4>1. gates'[g] = NewRow(c) /\ heard'[g] = "unknown"
        BY <2>1, <3>1 DEF CreateGate, TypeOK
      <4> QED BY <4>1, NewRowType
    <3>2. CASE g # x
      BY <2>1, <3>2 DEF CreateGate, TypeOK, Kept
    <3> QED BY <3>1, <3>2
  <2>2. ASSUME DeleteGate(x) PROVE Kept(g)
    <3>1. g # x
      BY <2>2, NewRowType DEF DeleteGate, TypeOK
    <3> QED BY <2>2, <3>1 DEF DeleteGate, TypeOK, Kept
  <2>3. ASSUME NEW c \in Configs, UpdateGate(x, c) PROVE Kept(g)
    BY <1>0, <2>3 DEF UpdateGate, TypeOK, Row, Kept
  <2>4. ASSUME DeviceDies(x) PROVE Kept(g)
    BY <1>2, <2>4 DEF DeviceDies, rowVars
  <2> QED BY <1>4, <2>1, <2>2, <2>3, <2>4 DEF Admin
<1>5. CASE MarkExpired
  <2>1. CASE Expired(g)
    <3>1. gates'[g].status = "unresponsive" /\ gates'[g].lastSeen = gates[g].lastSeen
      BY <1>0, <1>5, <2>1 DEF MarkExpired, MarkUnresponsiveWithIDs, Row
    <3>2. gates[g].config \in Configs /\ gates[g].lastSeen < 0 - gates[g].config.ttl
      BY <1>0, <2>1 DEF Expired, Row
    <3> QED BY <3>1, <3>2
  <2>2. CASE ~Expired(g)
    BY <1>1, <1>5, <2>2 DEF MarkExpired, MarkUnresponsiveWithIDs, Kept
  <2> QED BY <2>1, <2>2
<1>6. CASE PassTime
  <2>1. /\ gates[g].phase = "live" /\ gates'[g].status = gates[g].status
        /\ gates'[g].lastSeen = Older(gates[g].lastSeen) /\ heard' = heard
    BY <1>0, <1>6 DEF PassTime, Row
  <2>2. ASSUME NEW c \in Configs, gates[g].lastSeen < 0 - c.ttl
        PROVE  Older(gates[g].lastSeen) < 0 - c.ttl
    BY <1>0, <2>2, TimeAssumption DEF Older, Row, Timestamp, Past, NoTime
  <2> QED BY <2>1, <2>2 DEF MarkedOnlyIfSilent
<1>7. ASSUME NEW h \in Handlers, PersistStatus(h)
      PROVE  Kept(g) \/ gates'[g].status = heard'[g]
  <2>1. handler[h].gate \in Gates
    BY <1>7 DEF PersistStatus, TypeOK
  <2> QED BY <1>3, <1>7, <2>1 DEF PersistStatus
<1>8. ASSUME Fire PROVE Kept(g) \/ gates'[g].status = heard'[g]
  <2>1. cur \in Gates
    BY <1>8, CursorType DEF Fire
  <2> QED BY <1>3, <1>8, <2>1 DEF Fire
<1>9. ASSUME NEW h \in Handlers,
             \/ PersistFails(h) \/ PublishStatus(h)
             \/ \E x \in Gates, raw \in Reported, m \in Metas : ReceiveStatus(h, x, raw, m)
      PROVE  Kept(g)
  BY <1>2, <1>9 DEF PersistFails, PublishStatus, ReceiveStatus
<1>10. ASSUME \/ MarkExpiredFails \/ \E x \in Gates : PublishExpired(x)
              \/ ListCandidates \/ ListCandidatesFails \/ ReadNow
              \/ \E x \in Gates : StartGate(x)
              \/ NotDue \/ FireFails \/ PublishFired \/ EndGate \/ EndPass
       PROVE  Kept(g)
  <2>1. UNCHANGED <<gates, heard>>
    BY <1>10 DEF MarkExpiredFails, PublishExpired, ListCandidates,
       ListCandidatesFails, ReadNow, StartGate, NotDue, FireFails,
       PublishFired, EndGate, EndPass, rowVars
  <2> QED BY <1>2, <2>1
<1>11. CASE UNCHANGED vars
  BY <1>1, <1>2, <1>11 DEF vars
<1>12. CASE Next
  <2> HIDE DEF Silent
  <2>1. CASE WorkerStep
    BY <1>1, <1>5, <1>8, <1>10, <2>1 DEF WorkerStep
  <2>2. ASSUME NEW h \in Handlers, HandlerStep(h)
        PROVE  Kept(g) \/ gates'[g].status = heard'[g]
    BY <1>7, <1>9, <2>2 DEF HandlerStep
  <2>3. CASE Inbound
    BY <1>1, <1>9, <2>3 DEF Inbound
  <2> QED BY <1>1, <1>4, <1>6, <1>12, <2>1, <2>2, <2>3 DEF Next
<1> QED BY <1>11, <1>12

\* The mark of the TTL worker is never wrong: a row that does not say what was
\* last reported or set by a transition is marked unresponsive and has been
\* silent for longer than a TTL, for any interleaving of reports, transitions,
\* configuration changes and ticks, and whatever names devices report.
THEOREM MarkIsRight == Spec => []MarkedOnlyIfSilent
<1>1. Init => MarkedOnlyIfSilent
  BY NewRowType DEF Init, MarkedOnlyIfSilent
<1> QED BY <1>1, NextMarked, TypeCorrect, PTL DEF Spec

-----------------------------------------------------------------------------
(* No event before the store *)

\* Steps that leave the table alone: everything but the writers.
ReadOnly ==
  \/ MarkExpiredFails \/ ListCandidates \/ ListCandidatesFails \/ ReadNow
  \/ \E g \in Gates : StartGate(g) \/ DeviceDies(g)
  \/ NotDue \/ FireFails \/ EndGate \/ EndPass
  \/ \E h \in Handlers : PersistFails(h)
  \/ \E h \in Handlers, g \in Gates, raw \in Reported, m \in Metas :
        ReceiveStatus(h, g, raw, m)

Publish ==
  \/ \E h \in Handlers : PublishStatus(h)
  \/ \E g \in Gates : PublishExpired(g)
  \/ PublishFired

Write ==
  \/ \E g \in Gates : Admin(g)
  \/ \E h \in Handlers : PersistStatus(h)
  \/ MarkExpired \/ Fire \/ PassTime

\* The next-state relation, split by what a step does to the table and to the
\* dashboard.
LEMMA NextSplit ==
  ASSUME Next
  PROVE  ReadOnly \/ Publish \/ Write
BY DEF Next, Inbound, ReadOnly, Publish, Write, HandlerStep, WorkerStep

\* Receiving, listing, scanning and failing steps touch neither the gates table
\* nor the dashboard.
LEMMA ReadOnlyKeeps ==
  ASSUME ReadOnly
  PROVE  UNCHANGED <<gates, view>>
BY DEF ReadOnly, MarkExpiredFails, ListCandidates, ListCandidatesFails, ReadNow,
       StartGate, DeviceDies, NotDue, FireFails, EndGate, EndPass, PersistFails,
       ReceiveStatus, rowVars

\* Announcing a status event leaves the gates table alone.
LEMMA PublishKeeps ==
  ASSUME Publish
  PROVE  gates' = gates
BY DEF Publish, PublishStatus, PublishExpired, PublishFired

\* Writing the gates table announces nothing by itself.
LEMMA WriteKeeps ==
  ASSUME Write
  PROVE  view' = view
BY DEF Write, Admin, CreateGate, UpdateGate, DeleteGate, PersistStatus,
       MarkExpired, Fire, PassTime

\* A gate that was seen stays seen or is deleted, and a gate that exists never
\* becomes absent again: no interleaving brings last_seen_at back to NULL.
LEMMA SeenStable ==
  ASSUME TypeOK, [Next]_vars, NEW g \in Gates
  PROVE  /\ Seen(g) => Seen(g)'
         /\ gates[g].phase # "absent" => gates'[g].phase # "absent"
         /\ gates'[g].phase = "absent" => gates[g].phase = "absent"
<1>0. gates[g] \in Row /\ 0 # NoTime
  BY DEF TypeOK, NoTime
<1>1. CASE gates' = gates
  BY <1>1 DEF Seen
<1>2. ASSUME NEW x \in Gates, NEW s, NEW m, gates' = UpdateStatus(x, s, m)
      PROVE  /\ Seen(g) => Seen(g)'
             /\ gates'[g].phase = gates[g].phase
  BY <1>0, <1>2 DEF UpdateStatus, TypeOK, Row, Seen
<1>3. ASSUME NEW x \in Gates, NEW c \in Configs, CreateGate(x, c)
      PROVE  /\ Seen(g) => Seen(g)'
             /\ gates'[g].phase # "absent" \/ gates'[g] = gates[g]
  <2>1. CASE g = x
    <3>1. ~Seen(g) /\ gates'[g] = NewRow(c)
      BY <1>0, <1>3, <2>1 DEF CreateGate, TypeOK, Seen
    <3> QED BY <3>1, NewRowType
  <2>2. CASE g # x
    BY <1>3, <2>2 DEF CreateGate, TypeOK, Seen
  <2> QED BY <2>1, <2>2
<1>4. ASSUME NEW x \in Gates, NEW c \in Configs, UpdateGate(x, c)
      PROVE  /\ Seen(g) => Seen(g)'
             /\ gates'[g].phase = gates[g].phase
  BY <1>0, <1>4 DEF UpdateGate, TypeOK, Row, Seen
<1>5. ASSUME NEW x \in Gates, DeleteGate(x)
      PROVE  /\ Seen(g) => Seen(g)'
             /\ gates'[g].phase = "deleted" \/ gates'[g] = gates[g]
  <2>1. CASE g = x
    BY <1>0, <1>5, <2>1, NewRowType DEF DeleteGate, TypeOK, Seen
  <2>2. CASE g # x
    BY <1>5, <2>2 DEF DeleteGate, TypeOK, Seen
  <2> QED BY <2>1, <2>2
<1>6. CASE MarkExpired
  BY <1>0, <1>6 DEF MarkExpired, MarkUnresponsiveWithIDs, TypeOK, Row, Seen
<1>7. CASE PassTime
  <2>1. gates'[g] = [gates[g] EXCEPT !.lastSeen = Older(gates[g].lastSeen)]
    BY <1>7 DEF PassTime
  <2>2. Older(gates[g].lastSeen) = NoTime <=> gates[g].lastSeen = NoTime
    BY <1>0, OlderType DEF Row
  <2>3. gates'[g].phase = gates[g].phase /\
        gates'[g].lastSeen = Older(gates[g].lastSeen)
    BY <1>0, <2>1 DEF Row
  <2> QED BY <2>2, <2>3 DEF Seen
<1>8. CASE Fire
  BY <1>2, <1>8, CursorType DEF Fire
<1>9. ASSUME NEW h \in Handlers, PersistStatus(h)
      PROVE  /\ Seen(g) => Seen(g)'
             /\ gates'[g].phase = gates[g].phase
  <2>1. handler[h].gate \in Gates
    BY <1>9 DEF PersistStatus, TypeOK
  <2> QED BY <1>2, <1>9, <2>1 DEF PersistStatus
<1>10. CASE Write
  <2>1. ASSUME NEW x \in Gates, Admin(x)
        PROVE  /\ Seen(g) => Seen(g)'
               /\ gates[g].phase # "absent" => gates'[g].phase # "absent"
               /\ gates'[g].phase = "absent" => gates[g].phase = "absent"
    BY <2>1, <1>3, <1>4, <1>5 DEF Admin
  <2> QED BY <1>10, <1>6, <1>7, <1>8, <1>9, <2>1 DEF Write
<1>11. CASE UNCHANGED vars
  BY <1>1, <1>11 DEF vars
<1> QED BY <1>1, <1>10, <1>11, NextSplit, ReadOnlyKeeps, PublishKeeps

\* What may be announced next was seen before: the part of StoreFirst about the
\* processes is kept by every step.
LEMMA PendingKept ==
  ASSUME TypeOK, StoreFirst, [Next]_vars
  PROVE  /\ \A h \in Handlers :
              /\ handler'[h].pc = "resolved" => gates'[handler'[h].gate].phase # "absent"
              /\ handler'[h].pc = "persisted" => Seen(handler[h].gate)'
         /\ \A g \in notify' \cup todo' : Seen(g)'
         /\ cur' # NoGate => Seen(cur)'
<1>1. ASSUME NEW h \in Handlers
      PROVE  /\ handler'[h].pc = "resolved" => gates'[handler'[h].gate].phase # "absent"
             /\ handler'[h].pc = "persisted" => Seen(handler[h].gate)'
  <2>1. CASE handler'[h] = handler[h]
    <3>1. handler[h].pc # "idle" => handler[h].gate \in Gates
      BY DEF TypeOK
    <3>2. CASE handler[h].pc = "resolved"
      BY <2>1, <3>1, <3>2, SeenStable DEF StoreFirst
    <3>3. CASE handler[h].pc = "persisted"
      <4>1. PICK g \in Gates : g = handler[h].gate /\ g = handler'[h].gate
        BY <2>1, <3>1, <3>3
      <4>2. Seen(g)'
        BY <3>3, <4>1, SeenStable DEF StoreFirst
      <4> QED BY <2>1, <3>3, <4>1, <4>2 DEF Seen
    <3> QED BY <2>1, <3>2, <3>3
  <2>2. ASSUME NEW x \in Handlers, NEW g \in Gates, NEW raw, NEW m,
               ReceiveStatus(x, g, raw, m), handler'[h] # handler[h]
        PROVE  handler'[h].pc = "resolved" /\ gates'[handler'[h].gate].phase = "live"
    BY <2>2 DEF ReceiveStatus, TypeOK
  <2>3. ASSUME NEW x \in Handlers, PersistStatus(x), handler'[h] # handler[h]
        PROVE  handler'[h].pc = "persisted" /\ Seen(handler[h].gate)'
    <3>1. x = h /\ handler'[h].pc = "persisted" /\ handler'[h].gate = handler[h].gate
      BY <2>3 DEF PersistStatus, TypeOK, HandlerState
    <3>2. /\ handler[h].gate \in Gates /\ gates[handler[h].gate] \in Row
          /\ gates[handler[h].gate].phase # "absent"
      BY <2>3, <3>1 DEF PersistStatus, StoreFirst, TypeOK
    <3>3. gates' = UpdateStatus(handler[h].gate, handler[h].status, handler[h].meta)
      BY <2>3, <3>1 DEF PersistStatus
    <3>4. PICK g \in Gates : g = handler[h].gate /\ g = handler'[h].gate
      BY <3>1, <3>2
    <3>5. /\ gates'[g].phase = gates[g].phase
          /\ gates[g].phase = "live" => gates'[g].lastSeen = 0
      BY <3>2, <3>3, <3>4 DEF UpdateStatus, TypeOK, Row
    <3>6. Seen(g)'
      BY <3>2, <3>4, <3>5 DEF Seen, Row, NoTime
    <3> QED BY <3>1, <3>4, <3>6 DEF Seen
  <2>4. ASSUME NEW x \in Handlers, PersistFails(x) \/ PublishStatus(x),
               handler'[h] # handler[h]
        PROVE  handler'[h].pc = "idle"
    <3>1. handler'[h] = Idle
      BY <2>4 DEF PersistFails, PublishStatus, TypeOK
    <3>2. Idle.pc = "idle"
      BY DEF Idle
    <3> QED BY <3>1, <3>2
  <2>5. ASSUME \/ \E g \in Gates : Admin(g) \/ DeviceDies(g)
               \/ WorkerStep \/ PassTime \/ UNCHANGED vars
        PROVE  handler' = handler
    BY <2>5 DEF Admin, CreateGate, UpdateGate, DeleteGate, DeviceDies, PassTime,
       WorkerStep, MarkExpired, MarkExpiredFails, PublishExpired, ListCandidates,
       ListCandidatesFails, ReadNow, StartGate, NotDue, Fire, FireFails,
       PublishFired, EndGate, EndPass, vars
  <2> QED BY <2>1, <2>2, <2>3, <2>4, <2>5 DEF Next, Inbound, HandlerStep
<1>2. ASSUME NEW g \in Gates, g \in notify' \cup todo' \/ g = cur' PROVE Seen(g)'
  <2>1. CASE g \in notify \cup todo \/ g = cur
    BY <2>1, SeenStable, NamesAssumption DEF StoreFirst
  <2>2. CASE MarkExpired
    <3>1. CASE Expired(g)
      BY <3>1, SeenStable DEF Expired, Seen
    <3>2. CASE ~Expired(g)
      BY <1>2, <2>1, <2>2, <3>2 DEF MarkExpired
    <3> QED BY <3>1, <3>2
  <2>3. CASE ListCandidates
    <3>1. CASE g \in ListTransitionCandidates
      BY <3>1, SeenStable DEF ListTransitionCandidates, Seen
    <3>2. CASE g \notin ListTransitionCandidates
      BY <1>2, <2>1, <2>3, <3>2 DEF ListCandidates
    <3> QED BY <3>1, <3>2
  <2>4. ASSUME NEW x \in Gates, StartGate(x) PROVE Seen(g)'
    BY <1>2, <2>1, <2>4 DEF StartGate
  <2>5. ASSUME \/ \E x \in Gates : Admin(x) \/ DeviceDies(x)
               \/ \E h \in Handlers : HandlerStep(h)
               \/ \E h \in Handlers, x \in Gates, raw \in Reported, m \in Metas :
                     ReceiveStatus(h, x, raw, m)
               \/ PassTime \/ UNCHANGED vars
        PROVE  notify' = notify /\ todo' = todo /\ cur' = cur
    BY <2>5 DEF Admin, CreateGate, UpdateGate, DeleteGate, DeviceDies, PassTime,
       HandlerStep, PersistStatus, PersistFails, PublishStatus, ReceiveStatus,
       vars, workerVars
  <2>6. ASSUME \/ MarkExpiredFails \/ \E x \in Gates : PublishExpired(x)
               \/ ListCandidatesFails \/ ReadNow \/ NotDue \/ Fire \/ FireFails
               \/ PublishFired \/ EndGate \/ EndPass
        PROVE  notify' \subseteq notify /\ todo' = todo /\ (cur' = cur \/ cur' = NoGate)
    BY <2>6 DEF MarkExpiredFails, PublishExpired, ListCandidatesFails, ReadNow,
       NotDue, Fire, FireFails, PublishFired, EndGate, EndPass
  <2> QED BY <1>2, <2>1, <2>2, <2>3, <2>4, <2>5, <2>6, NamesAssumption
             DEF Next, Inbound, WorkerStep
<1>3. notify' \subseteq Gates /\ todo' \subseteq Gates /\ cur' \in Gates \cup {NoGate}
  BY NextType DEF TypeOK
<1>4. cur' # NoGate => Seen(cur)'
  <2> SUFFICES ASSUME cur' # NoGate PROVE Seen(cur)'
    OBVIOUS
  <2>1. PICK g \in Gates : g = cur'
    BY <1>3
  <2>2. Seen(g)'
    BY <1>2, <2>1
  <2> QED BY <2>1, <2>2 DEF Seen
<1> QED BY <1>1, <1>2, <1>3, <1>4

\* The part of StoreFirst about the rows and the dashboard is kept by every step.
LEMMA RowsKept ==
  ASSUME TypeOK, StoreFirst, [Next]_vars, NEW g \in Gates
  PROVE  /\ gates'[g].phase = "live" /\ gates'[g].lastSeen = NoTime =>
                gates'[g].status = "unknown" /\ view'[g] = "unknown"
         /\ gates'[g].phase = "absent" => view'[g] = "unknown"
<1>0. gates[g] \in Row /\ 0 # NoTime
  BY DEF TypeOK, NoTime
<1>1. CASE UNCHANGED <<gates, view>>
  BY <1>1 DEF StoreFirst, NoEventBeforeStore
<1>2. CASE Publish
  <2>1. gates' = gates
    BY <1>2, PublishKeeps
  <2>2. view'[g] = view[g] \/ Seen(g)
    <3>1. ASSUME NEW h \in Handlers, PublishStatus(h)
          PROVE  view'[g] = view[g] \/ Seen(g)
      BY <3>1 DEF PublishStatus, Announce, StoreFirst, TypeOK
    <3>2. ASSUME NEW x \in Gates, PublishExpired(x)
          PROVE  view'[g] = view[g] \/ Seen(g)
      BY <3>2 DEF PublishExpired, Announce, StoreFirst, TypeOK
    <3>3. ASSUME PublishFired
          PROVE  view'[g] = view[g] \/ Seen(g)
      BY <3>3, NamesAssumption DEF PublishFired, Announce, StoreFirst, TypeOK
    <3> QED BY <1>2, <3>1, <3>2, <3>3 DEF Publish
  <2>3. ~Seen(g) \/ (gates[g].phase # "absent" /\
                     ~(gates[g].phase = "live" /\ gates[g].lastSeen = NoTime))
    BY DEF Seen
  <2> QED BY <2>1, <2>2, <2>3 DEF StoreFirst, NoEventBeforeStore
<1>3. CASE Write
  <2>0. view' = view
    BY <1>3, WriteKeeps
  <2>1. ASSUME gates'[g].phase = "absent" PROVE view'[g] = "unknown"
    BY <2>0, <2>1, SeenStable DEF StoreFirst
  <2>2. ASSUME NEW x \in Gates, NEW s, NEW m, gates' = UpdateStatus(x, s, m),
               gates'[g].phase = "live", gates'[g].lastSeen = NoTime
        PROVE  gates'[g] = gates[g]
    BY <1>0, <2>2 DEF UpdateStatus, TypeOK, Row
  <2>3. ASSUME gates'[g].phase = "live", gates'[g].lastSeen = NoTime
        PROVE  gates'[g].status = "unknown" /\ view'[g] = "unknown"
    <3>1. CASE gates'[g] = gates[g]
      BY <2>0, <2>3, <3>1 DEF StoreFirst, NoEventBeforeStore
    <3>2. ASSUME NEW x \in Gates, NEW c \in Configs, CreateGate(x, c)
          PROVE  gates'[g].status = "unknown" /\ view'[g] = "unknown"
      <4>1. CASE g = x
        <5>1. gates'[g] = NewRow(c) /\ gates[g].phase = "absent"
          BY <3>2, <4>1 DEF CreateGate, TypeOK
        <5> QED BY <2>0, <5>1, NewRowType DEF StoreFirst
      <4>2. CASE g # x
        BY <3>1, <3>2, <4>2 DEF CreateGate, TypeOK
      <4> QED BY <4>1, <4>2
    <3>3. ASSUME NEW x \in Gates, NEW c \in Configs, UpdateGate(x, c)
          PROVE  gates'[g].status = "unknown" /\ view'[g] = "unknown"
      <4>1. /\ gates'[g].phase = gates[g].phase /\ gates'[g].status = gates[g].status
            /\ gates'[g].lastSeen = gates[g].lastSeen
        BY <1>0, <3>3 DEF UpdateGate, TypeOK, Row
      <4> QED BY <2>0, <2>3, <4>1 DEF StoreFirst, NoEventBeforeStore
    <3>4. ASSUME NEW x \in Gates, DeleteGate(x)
          PROVE  gates'[g].status = "unknown" /\ view'[g] = "unknown"
      BY <2>3, <3>1, <3>4, NewRowType DEF DeleteGate, TypeOK
    <3>5. CASE MarkExpired
      <4>1. gates'[g].lastSeen = gates[g].lastSeen
        BY <1>0, <3>5 DEF MarkExpired, MarkUnresponsiveWithIDs, Row
      <4> QED BY <2>3, <3>1, <3>5, <4>1 DEF MarkExpired, MarkUnresponsiveWithIDs, Expired
    <3>6. CASE PassTime
      <4>1. gates'[g] = [gates[g] EXCEPT !.lastSeen = Older(gates[g].lastSeen)]
        BY <3>6 DEF PassTime
      <4>2. /\ gates'[g].phase = gates[g].phase /\ gates'[g].status = gates[g].status
            /\ gates'[g].lastSeen = Older(gates[g].lastSeen)
        BY <1>0, <4>1 DEF Row
      <4>3. gates[g].lastSeen = NoTime
        BY <1>0, <2>3, <4>2, OlderType DEF Row
      <4> QED BY <2>0, <2>3, <4>2, <4>3 DEF StoreFirst, NoEventBeforeStore
    <3>7. CASE Fire
      BY <2>2, <2>3, <3>1, <3>7, CursorType DEF Fire
    <3>8. ASSUME NEW h \in Handlers, PersistStatus(h)
          PROVE  gates'[g].status = "unknown" /\ view'[g] = "unknown"
      <4>1. handler[h].gate \in Gates
        BY <3>8 DEF PersistStatus, TypeOK
      <4> QED BY <2>2, <2>3, <3>1, <3>8, <4>1 DEF PersistStatus
    <3> QED BY <1>3, <3>2, <3>3, <3>4, <3>5, <3>6, <3>7, <3>8 DEF Write, Admin
  <2> QED BY <2>1, <2>3
<1>4. CASE UNCHANGED vars
  BY <1>1, <1>4 DEF vars
<1> QED BY <1>1, <1>2, <1>3, <1>4, NextSplit, ReadOnlyKeeps

\* The events of a live gate never run ahead of its row, and a gate that was
\* never seen is stored as unknown: for any number of handlers and any faults of
\* PostgreSQL and Redis.
THEOREM StoredBeforeAnnounced == Spec => []NoEventBeforeStore
<1>1. Init => StoreFirst
  <2> SUFFICES ASSUME Init PROVE StoreFirst
    OBVIOUS
  <2>1. Idle.pc = "idle"
    BY DEF Idle
  <2>2. \A g \in Gates : gates[g].phase = "absent" /\ view[g] = "unknown"
    BY NewRowType DEF Init
  <2>3. \A h \in Handlers : handler[h].pc = "idle"
    BY <2>1 DEF Init
  <2>4. notify = {} /\ todo = {} /\ cur = NoGate
    BY DEF Init
  <2> QED BY <2>2, <2>3, <2>4 DEF StoreFirst, NoEventBeforeStore
<1>2. TypeOK /\ StoreFirst /\ [Next]_vars => StoreFirst'
  <2> SUFFICES ASSUME TypeOK, StoreFirst, [Next]_vars PROVE StoreFirst'
    OBVIOUS
  <2> QED BY PendingKept, RowsKept DEF StoreFirst, NoEventBeforeStore
<1>3. StoreFirst => NoEventBeforeStore
  BY DEF StoreFirst
<1> QED BY <1>1, <1>2, <1>3, TypeCorrect, PTL DEF Spec
=============================================================================
