----------------------------- MODULE GateStatus -----------------------------
(***************************************************************************)
(* The gate status pipeline: device reports arrive over MQTT, HTTP push or *)
(* webhook polling and are stored and announced by ProcessGateStatus,      *)
(* while the TTL worker marks silent gates unresponsive and applies the    *)
(* configured status transitions, with its timers in Redis.  All of them   *)
(* write the same row of the gates table without a lock or a version.      *)
(*                                                                         *)
(* Time.  Every timestamp is relative to the present: 0 is now, -k is k    *)
(* units ago, NoTime is SQL NULL or an absent Redis key, and -Horizon      *)
(* stands for "Horizon units ago or earlier".  Time passes by making every *)
(* timestamp older (PassTime).  All the thresholds compared with are       *)
(* smaller than Horizon, so nothing is lost by stopping there, and the     *)
(* model needs no bound on the length of a behaviour.                      *)
(***************************************************************************)
EXTENDS Integers, Sequences, FiniteSets

CONSTANTS
  Gates,            \* gate identifiers (uuids: never reused)
  Handlers,         \* concurrent executions of an inbound status handler
  Reported,         \* statuses devices send and configurations mention: any name,
                    \* the worker's own "unresponsive" included
  Metas,            \* values of a report's "meta" object, "{}" among them
  Configs,          \* gate configurations an administrator may save
  OfflineThreshold, \* model.OfflineThreshold
  MaxPass,          \* the 10s timeout of one checkTransitions pass
  Horizon,          \* older than this is "long ago"
  NoGate            \* not a gate

Flagged  == {"unresponsive", "unknown", "offline"}
Statuses == Reported \cup Flagged

Transition ==
  [from: Reported, to: Reported, after: Nat \ {0}, persist: BOOLEAN]

\* A rule is the set of meta objects it matches and the status it sets; a key
\* that is absent never matches, so no rule matches the empty object.
Rule == [matches: SUBSET (Metas \ {"{}"}), setStatus: Reported]

Config == [ttl: Nat \ {0}, rules: Seq(Rule), transitions: Seq(Transition)]

ASSUME ConfigsAssumption ==
  /\ Configs \subseteq Config /\ Configs # {}
  /\ \A c \in Configs : c.ttl < Horizon
  /\ \A c \in Configs : \A i \in DOMAIN c.transitions :
        /\ c.transitions[i].from # c.transitions[i].to
        /\ c.transitions[i].after + MaxPass < Horizon

ASSUME TimeAssumption ==
  /\ OfflineThreshold \in Nat /\ MaxPass \in Nat /\ Horizon \in Nat
  /\ OfflineThreshold < Horizon /\ MaxPass < Horizon

ASSUME NamesAssumption ==
  /\ NoGate \notin Gates
  /\ "{}" \in Metas

VARIABLES
  gates,    \* the gates table
  armed,    \* Redis keys gate:tr:<gate>:<from>:<to>
  view,     \* the last status event a subscribed dashboard received
  alive,    \* which devices still send reports (environment)
  handler,  \* where each inbound handler is
  wpc,      \* where the TTL worker is
  notify,   \* gates the worker still has to announce as unresponsive
  snap,     \* the rows checkTransitions listed
  todo,     \* listed gates it has not looked at yet
  cur,      \* the gate it is looking at
  idx,      \* the transition of that gate it is looking at
  now,      \* its time.Now()
  heard     \* (observer) the status the last report or transition stored

rowVars    == <<gates, armed, view>>
workerVars == <<wpc, notify, snap, todo, cur, idx, now>>
vars       == <<gates, armed, view, alive, handler, workerVars, heard>>

-----------------------------------------------------------------------------
(* Timestamps *)

NoTime    == 1
Past      == (-Horizon) .. 0
Timestamp == Past \cup {NoTime}

\* One unit later, what was t units ago is t + 1 units ago.
Older(t) == IF t = NoTime \/ t = -Horizon THEN t ELSE t - 1

-----------------------------------------------------------------------------
(* Rows, timers and processes *)

Row ==
  [phase: {"absent", "live", "deleted"}, status: Statuses,
   lastSeen: Timestamp, meta: Metas, config: Configs]

\* The row INSERT leaves behind: status defaults to 'unknown', never seen.
NewRow(c) ==
  [phase |-> "live", status |-> "unknown", lastSeen |-> NoTime,
   meta |-> "{}", config |-> c]

AnyConfig == CHOOSE c \in Configs : TRUE
NoRow     == [NewRow(AnyConfig) EXCEPT !.phase = "absent"]

\* transitionRedisKey: one key per gate, from and to.
transitionRedisKey(t) == <<t.from, t.to>>
TransitionKeys ==
  {transitionRedisKey(t) : t \in
     UNION {{c.transitions[i] : i \in DOMAIN c.transitions} : c \in Configs}}

Idle == [pc |-> "idle", gate |-> NoGate, status |-> "unknown", meta |-> "{}"]

HandlerState ==
  [pc: {"idle", "resolved", "persisted"}, gate: Gates \cup {NoGate},
   status: Statuses, meta: Metas]

TypeOK ==
  /\ gates \in [Gates -> Row]
  /\ armed \in [Gates -> [TransitionKeys -> Timestamp]]
  /\ view \in [Gates -> Statuses]
  /\ alive \in [Gates -> BOOLEAN]
  /\ handler \in [Handlers -> HandlerState]
  /\ \A h \in Handlers : handler[h].pc # "idle" =>
        handler[h].gate \in Gates /\ handler[h].status \in Reported
  /\ wpc \in {"idle", "notify", "listed", "loop", "fired"}
  /\ notify \subseteq Gates
  /\ snap \in [Gates -> Row]
  /\ todo \subseteq Gates
  /\ cur \in Gates \cup {NoGate}
  /\ idx \in Nat
  /\ wpc = "fired" => cur \in Gates /\ idx \in DOMAIN snap[cur].config.transitions
  /\ now \in Past /\ now >= -MaxPass
  /\ heard \in [Gates -> Statuses]

Init ==
  /\ gates = [g \in Gates |-> NoRow]
  /\ armed = [g \in Gates |-> [k \in TransitionKeys |-> NoTime]]
  /\ view = [g \in Gates |-> "unknown"]
  /\ alive = [g \in Gates |-> TRUE]
  /\ handler = [h \in Handlers |-> Idle]
  /\ wpc = "idle" /\ notify = {} /\ todo = {} /\ cur = NoGate
  /\ snap = [g \in Gates |-> NoRow]
  /\ idx = 0 /\ now = 0
  /\ heard = [g \in Gates |-> "unknown"]

-----------------------------------------------------------------------------
(* The gates table *)

\* (mutant: the mark of the TTL worker is not cleared)
UpdateStatus_Sticky(g, s, m) ==
  IF gates[g].phase = "live"
  THEN [gates EXCEPT ![g].status = IF @ = "unresponsive" THEN @ ELSE s,
                     ![g].lastSeen = 0, ![g].meta = m]
  ELSE gates

\* gateRepository.UpdateStatus: unconditional; no row is not an error.
UpdateStatus(g, s, m) ==
  IF gates[g].phase = "live"
  THEN [gates EXCEPT ![g].status = s, ![g].lastSeen = 0, ![g].meta = m]
  ELSE gates

Heard(g, s) == IF gates[g].phase = "live" THEN [heard EXCEPT ![g] = s] ELSE heard

\* The WHERE clause of MarkUnresponsiveWithIDs; NOW() is 0.
Expired(g) ==
  /\ gates[g].phase = "live"
  /\ gates[g].lastSeen # NoTime
  /\ gates[g].lastSeen < 0 - gates[g].config.ttl
  /\ gates[g].status \notin Flagged

MarkUnresponsiveWithIDs ==
  [g \in Gates |-> IF Expired(g)
                   THEN [gates[g] EXCEPT !.status = "unresponsive"]
                   ELSE gates[g]]

\* The gates ListTransitionCandidates returns.
ListTransitionCandidates ==
  {g \in Gates : /\ gates[g].phase = "live"
                 /\ gates[g].config.transitions # <<>>
                 /\ gates[g].lastSeen # NoTime}

\* Gate.EffectiveStatus: what the API displays.
EffectiveStatus(g) ==
  IF gates[g].lastSeen = NoTime THEN "unknown"
  ELSE IF 0 - gates[g].lastSeen > OfflineThreshold THEN "offline"
  ELSE gates[g].status

-----------------------------------------------------------------------------
(* Administration: gate.go Create, Update, Delete *)

CreateGate(g, c) ==
  /\ gates[g].phase = "absent"
  /\ gates' = [gates EXCEPT ![g] = NewRow(c)]
  /\ heard' = [heard EXCEPT ![g] = "unknown"]
  /\ UNCHANGED <<armed, view, alive, handler, workerVars>>

UpdateGate(g, c) ==
  /\ gates[g].phase = "live"
  /\ gates' = [gates EXCEPT ![g].config = c]
  /\ UNCHANGED <<armed, view, alive, handler, workerVars, heard>>

\* The Redis timers of the gate are left behind.
DeleteGate(g) ==
  /\ gates[g].phase = "live"
  /\ gates' = [gates EXCEPT ![g] = [NoRow EXCEPT !.phase = "deleted"]]
  /\ UNCHANGED <<armed, view, alive, handler, workerVars, heard>>

-----------------------------------------------------------------------------
(* Inbound reports *)

\* (mutant: the "no rule matched" result is used as a status)
EvaluateStatusRules_NoFallback(rules, m, raw) ==
  LET hits == {i \in DOMAIN rules : m \in rules[i].matches}
  IN  IF hits = {} THEN "" ELSE rules[CHOOSE i \in hits : TRUE].setStatus

\* The first rule that matches wins; no match keeps the reported status.
EvaluateStatusRules(rules, m, raw) ==
  LET hits == {i \in DOMAIN rules : m \in rules[i].matches}
  IN  IF hits = {} THEN raw
      ELSE rules[CHOOSE i \in hits : \A j \in hits : i <= j].setStatus

\* The handler authenticates the report, loads the row and maps the payload;
\* the rules it evaluates are those of the row it loaded.
ReceiveStatus(h, g, raw, m) ==
  /\ handler[h].pc = "idle"
  /\ alive[g]
  /\ gates[g].phase = "live"
  /\ handler' = [handler EXCEPT ![h] =
       [pc |-> "resolved", gate |-> g, meta |-> m,
        status |-> EvaluateStatusRules(gates[g].config.rules, m, raw)]]
  /\ UNCHANGED <<gates, armed, view, alive, workerVars, heard>>

PersistStatus(h) ==
  /\ handler[h].pc = "resolved"
  /\ gates' = UpdateStatus(handler[h].gate, handler[h].status, handler[h].meta)
  /\ heard' = Heard(handler[h].gate, handler[h].status)
  /\ handler' = [handler EXCEPT ![h].pc = "persisted"]
  /\ UNCHANGED <<armed, view, alive, workerVars>>

\* (mutant: the database error is ignored)
PersistFails_Ignored(h) ==
  /\ handler[h].pc = "resolved"
  /\ handler' = [handler EXCEPT ![h].pc = "persisted"]
  /\ UNCHANGED <<gates, armed, view, alive, workerVars, heard>>

\* A database error drops the report: nothing is announced.
PersistFails(h) ==
  /\ handler[h].pc = "resolved"
  /\ handler' = [handler EXCEPT ![h] = Idle]
  /\ UNCHANGED <<gates, armed, view, alive, workerVars, heard>>

\* publishGateStatusEvent: best effort, a failure is only logged.
Announce(g, s) == view' \in {[view EXCEPT ![g] = s], view}

PublishStatus(h) ==
  /\ handler[h].pc = "persisted"
  /\ Announce(handler[h].gate, handler[h].status)
  /\ handler' = [handler EXCEPT ![h] = Idle]
  /\ UNCHANGED <<gates, armed, alive, workerVars, heard>>

-----------------------------------------------------------------------------
(* The TTL worker: markExpired *)

MarkExpired ==
  /\ wpc = "idle"
  /\ gates' = MarkUnresponsiveWithIDs
  /\ notify' = {g \in Gates : Expired(g)}
  /\ wpc' = "notify"
  /\ UNCHANGED <<armed, view, alive, handler, snap, todo, cur, idx, now, heard>>

MarkExpiredFails ==
  /\ wpc = "idle"
  /\ wpc' = "notify"
  /\ UNCHANGED <<rowVars, alive, handler, notify, snap, todo, cur, idx, now, heard>>

PublishExpired(g) ==
  /\ wpc = "notify" /\ g \in notify
  /\ Announce(g, "unresponsive")
  /\ notify' = notify \ {g}
  /\ UNCHANGED <<gates, armed, alive, handler, wpc, snap, todo, cur, idx, now, heard>>

-----------------------------------------------------------------------------
(* The TTL worker: checkTransitions *)

ListCandidates ==
  /\ wpc = "notify" /\ notify = {}
  /\ snap' = [g \in Gates |->
                IF g \in ListTransitionCandidates THEN gates[g] ELSE NoRow]
  /\ todo' = ListTransitionCandidates
  /\ wpc' = "listed"
  /\ UNCHANGED <<rowVars, alive, handler, notify, cur, idx, now, heard>>

ListCandidatesFails ==
  /\ wpc = "notify" /\ notify = {}
  /\ wpc' = "idle"
  /\ UNCHANGED <<rowVars, alive, handler, notify, snap, todo, cur, idx, now, heard>>

ReadNow ==
  /\ wpc = "listed"
  /\ now' = 0
  /\ wpc' = "loop"
  /\ UNCHANGED <<rowVars, alive, handler, notify, snap, todo, cur, idx, heard>>

StartGate(g) ==
  /\ wpc = "loop" /\ cur = NoGate /\ g \in todo
  /\ cur' = g /\ idx' = 1
  /\ todo' = todo \ {g}
  /\ UNCHANGED <<rowVars, alive, handler, wpc, notify, snap, now, heard>>

AtTransition ==
  wpc = "loop" /\ cur # NoGate /\ idx \in DOMAIN snap[cur].config.transitions

tr            == snap[cur].config.transitions[idx]
statusMatches == snap[cur].status = tr.from
timer         == armed[cur][transitionRedisKey(tr)]
SetTimer(t)   == [armed EXCEPT ![cur][transitionRedisKey(tr)] = t]

\* The deadline is measured from the last report seen in the listed row, or
\* from the armed timer when the row has left From.
Due ==
  IF statusMatches THEN now >= snap[cur].lastSeen + tr.after
  ELSE tr.persist /\ timer # NoTime /\ now >= timer + tr.after

\* A transition that does not fire.  The Redis command may fail unnoticed; a
\* failed GET counts as "not armed".
NotDue ==
  /\ AtTransition
  /\ \/ statusMatches /\ ~Due /\ tr.persist
        /\ armed' \in {armed, SetTimer(snap[cur].lastSeen)}
     \/ statusMatches /\ ~Due /\ ~tr.persist /\ armed' = armed
     \/ ~statusMatches /\ ~tr.persist /\ armed' \in {armed, SetTimer(NoTime)}
     \/ ~statusMatches /\ tr.persist /\ armed' = armed
  /\ idx' = idx + 1
  /\ UNCHANGED <<gates, view, alive, handler, wpc, notify, snap, todo, cur, now, heard>>

\* (mutant: the timer survives the transition it armed)
DropTimer_Kept == armed' = armed

\* Before a due transition is applied its timer is deleted (and, if the row
\* is still in From, was set just before).
DropTimer ==
  armed' \in {armed, SetTimer(NoTime)} \cup
             (IF statusMatches /\ tr.persist
              THEN {SetTimer(snap[cur].lastSeen)} ELSE {})

\* The row is written without looking at it again, with the listed metadata.
Fire ==
  /\ AtTransition /\ Due
  /\ DropTimer
  /\ gates' = UpdateStatus(cur, tr.to, snap[cur].meta)
  /\ heard' = Heard(cur, tr.to)
  /\ wpc' = "fired"
  /\ UNCHANGED <<view, alive, handler, notify, snap, todo, cur, idx, now>>

FireFails ==
  /\ AtTransition /\ Due
  /\ DropTimer
  /\ idx' = idx + 1
  /\ UNCHANGED <<gates, view, alive, handler, wpc, notify, snap, todo, cur, now, heard>>

\* break: at most one transition of a gate is applied in a pass.
PublishFired ==
  /\ wpc = "fired"
  /\ Announce(cur, tr.to)
  /\ wpc' = "loop" /\ cur' = NoGate /\ idx' = 0
  /\ UNCHANGED <<gates, armed, alive, handler, notify, snap, todo, now, heard>>

EndGate ==
  /\ wpc = "loop" /\ cur # NoGate /\ ~AtTransition
  /\ cur' = NoGate /\ idx' = 0
  /\ UNCHANGED <<rowVars, alive, handler, wpc, notify, snap, todo, now, heard>>

EndPass ==
  /\ wpc = "loop" /\ cur = NoGate /\ todo = {}
  /\ wpc' = "idle" /\ now' = 0
  /\ snap' = [g \in Gates |-> NoRow]
  /\ UNCHANGED <<rowVars, alive, handler, notify, todo, cur, idx, heard>>

-----------------------------------------------------------------------------
(* Environment *)

\* A pass is abandoned by its context after MaxPass; time does not run away
\* from it further than that.
PassTime ==
  /\ wpc \in {"loop", "fired"} => now > -MaxPass
  /\ gates' = [g \in Gates |->
                 [gates[g] EXCEPT !.lastSeen = Older(gates[g].lastSeen)]]
  /\ snap' = [g \in Gates |->
                [snap[g] EXCEPT !.lastSeen = Older(snap[g].lastSeen)]]
  /\ armed' = [g \in Gates |->
                 [k \in TransitionKeys |-> Older(armed[g][k])]]
  /\ now' = IF wpc \in {"loop", "fired"} THEN now - 1 ELSE now
  /\ UNCHANGED <<view, alive, handler, wpc, notify, todo, cur, idx, heard>>

DeviceDies(g) ==
  /\ alive[g]
  /\ alive' = [alive EXCEPT ![g] = FALSE]
  /\ UNCHANGED <<rowVars, handler, workerVars, heard>>

Admin(g) ==
  \/ \E c \in Configs : CreateGate(g, c) \/ UpdateGate(g, c)
  \/ DeleteGate(g)

\* Reports come as MQTT messages, as HTTP pushes and as the answers of polls.  A
\* poll works on the row it listed, may be retried for 30 seconds and changes
\* nothing if it fails; its interval is not validated, so it may come at any time.
Inbound ==
  \E h \in Handlers, g \in Gates, raw \in Reported, m \in Metas :
    ReceiveStatus(h, g, raw, m)

HandlerStep(h) == PersistStatus(h) \/ PersistFails(h) \/ PublishStatus(h)

WorkerStep ==
  \/ MarkExpired \/ MarkExpiredFails
  \/ \E g \in Gates : PublishExpired(g)
  \/ ListCandidates \/ ListCandidatesFails \/ ReadNow
  \/ \E g \in Gates : StartGate(g)
  \/ NotDue \/ Fire \/ FireFails \/ PublishFired \/ EndGate \/ EndPass

Next ==
  \/ \E g \in Gates : Admin(g) \/ DeviceDies(g)
  \/ Inbound
  \/ \E h \in Handlers : HandlerStep(h)
  \/ WorkerStep
  \/ PassTime

Spec == Init /\ [][Next]_vars

\* The process keeps running: handlers and worker finish what they started and
\* time passes.  Neither PostgreSQL nor Redis fails for ever (SF).
Fairness ==
  /\ \A h \in Handlers : WF_vars(HandlerStep(h))
  /\ WF_vars(WorkerStep)
  /\ SF_vars(MarkExpired)
  /\ \A g \in Gates, k \in TransitionKeys :
       SF_vars(Fire /\ cur = g /\ armed'[g][k] = NoTime
                    /\ transitionRedisKey(tr) = k)
  /\ WF_vars(PassTime)

FairSpec == Spec /\ Fairness

-----------------------------------------------------------------------------
(* Properties *)

\* A row says what the last report or transition stored, or carries the mark of
\* the TTL worker; and a gate that is marked without having reported it has been
\* silent for longer than a TTL of some configuration.  Nothing that lands
\* between the worker's ticks leaves the mark on a gate that has just been heard,
\* and the worker replaces the status of no gate that is being heard.
MarkedOnlyIfSilent ==
  \A g \in Gates :
    gates[g].phase = "live" =>
      \/ gates[g].status = heard[g]
      \/ /\ gates[g].status = "unresponsive"
         /\ \E c \in Configs : gates[g].lastSeen < 0 - c.ttl

\* The dashboard hears nothing about a gate before the database knows it has
\* been seen: ProcessGateStatus and the worker store first and announce after,
\* so the events of a live gate never run ahead of its row.
NoEventBeforeStore ==
  \A g \in Gates :
    gates[g].phase = "live" /\ gates[g].lastSeen = NoTime =>
      gates[g].status = "unknown" /\ view[g] = "unknown"

\* The inductive form of NoEventBeforeStore: everyone who is about to announce
\* something about a gate does so after the gate was seen (or is deleted).
Seen(g) ==
  gates[g].phase = "deleted" \/ (gates[g].phase = "live" /\ gates[g].lastSeen # NoTime)

StoreFirst ==
  /\ NoEventBeforeStore
  /\ \A g \in Gates : gates[g].phase = "absent" => view[g] = "unknown"
  /\ \A h \in Handlers :
       /\ handler[h].pc = "resolved" => gates[handler[h].gate].phase # "absent"
       /\ handler[h].pc = "persisted" => Seen(handler[h].gate)
  /\ \A g \in notify \cup todo : Seen(g)
  /\ cur # NoGate => Seen(cur)

\* EXPRESSION_OF_NEED 4.4: a device from which nothing is received any more is
\* detected.  Once it is dead its row ends up, and stays, unresponsive (or was
\* never seen, or is deleted) and EffectiveStatus displays it as offline: no
\* timer of the worker revives it for ever.
DeadDeviceDetected ==
  \A g \in Gates :
    ~alive[g] ~> [](gates[g].phase = "live" =>
                      /\ gates[g].status \in Flagged
                      /\ EffectiveStatus(g) \in {"unknown", "offline"})

\* model.StatusTransition: "When a gate's current status matches From and no
\* new status update arrives within AfterSeconds, the status is automatically
\* set to To": a transition that is not persistent replaces only a row that is
\* in From and has been silent for AfterSeconds.
TransitionReplacesFrom ==
  [][wpc = "loop" /\ wpc' = "fired" /\ gates[cur].phase = "live" /\ ~tr.persist
       => /\ gates[cur].status = tr.from
          /\ 0 - gates[cur].lastSeen >= tr.after]_vars
=============================================================================
