----------------------------- MODULE BrokerSync -----------------------------
(***************************************************************************)
(* Device tokens and the MQTT broker (MQTT_AUTH_MODE=dynsec).  Creating,   *)
(* rotating and deleting a gate first changes the gates table and then     *)
(* tells Mosquitto's dynamic security plugin, by publishing a command and  *)
(* waiting up to 5 seconds for a response on one shared topic.  Responses  *)
(* carry no correlation id; a mutex keeps two commands from waiting at the *)
(* same time, and a one-slot channel holds the response.                   *)
(*                                                                         *)
(* The broker gets commands at least once and answers in order, late or    *)
(* never.  A failed synchronisation is logged and the request still        *)
(* succeeds.                                                               *)
(***************************************************************************)
EXTENDS Integers, Sequences

CONSTANTS
  Gates, Requests,
  Boot,       \* the start of the server, which runs Setup before any request
  NoGate,
  MaxTokens,  \* bound on the gate tokens issued
  MaxQueue    \* bound on what is on its way to and from the broker

ASSUME BrokerAssumption ==
  /\ Boot \notin Requests /\ NoGate \notin Gates
  /\ MaxTokens \in Nat
  /\ MaxQueue \in Nat \ {0}

VARIABLES
  row,      \* the gates table: whether the gate exists, and its gate_token
            \* (NoToken: the column's default, which is no JWT)
  minted,   \* how many tokens were issued (each JWT has a random id: they differ)
  client,   \* the broker's password for the gate's username
  role,     \* whether the broker has the gate-device role
  cmds,     \* commands the broker has not executed yet
  replies,  \* responses on their way to the server
  respCh,   \* the manager's channel, at most one response
  lock,     \* the request that holds the manager's mutex, or Boot
  req,      \* where Boot and each request are
  dirty     \* (observer) gates whose last operation was disturbed

dbVars     == <<row, minted>>
brokerVars == <<client, role>>
netVars    == <<cmds, replies, respCh>>
vars       == <<dbVars, brokerVars, netVars, lock, req, dirty>>

-----------------------------------------------------------------------------
(* Types *)

Procs    == Requests \cup {Boot}
NoToken  == 0
Tokens   == 1 .. MaxTokens
Commands ==
  [cmd: {"createRole", "setDefaultACLAccess"}, gate: {NoGate}, token: {NoToken}]
    \cup [cmd: {"createClient", "setClientPassword"}, gate: Gates, token: Tokens]
    \cup [cmd: {"deleteClient"}, gate: Gates, token: {NoToken}]

Idle == [pc |-> "idle"]
Op(pc, cmd, g, t, taint) ==
  [pc |-> pc, cmd |-> [cmd |-> cmd, gate |-> g, token |-> t], tainted |-> taint]

TypeOK ==
  /\ row \in [Gates -> [phase: {"absent", "live", "deleted"}, token: 0 .. minted]]
  /\ minted \in 0 .. MaxTokens
  /\ client \in [Gates -> 0 .. minted]
  /\ role \in BOOLEAN
  /\ cmds \in Seq(Commands) /\ replies \in Seq({"", "exists", "not found"})
  /\ Len(cmds) + Len(replies) <= MaxQueue
  /\ respCh \in Seq({"", "exists", "not found"}) /\ Len(respCh) <= 1
  /\ lock \in Procs
  /\ \A p \in Procs : \/ req[p] = Idle
                      \/ req[p].pc \in {"token", "lock", "send", "wait"}
  /\ dirty \subseteq Gates

Init ==
  /\ row = [g \in Gates |-> [phase |-> "absent", token |-> NoToken]]
  /\ minted = 0
  /\ client = [g \in Gates |-> NoToken] /\ role = FALSE
  /\ cmds = <<>> /\ replies = <<>> /\ respCh = <<>>
  /\ lock = Boot
  /\ req = [p \in Procs |-> IF p = Boot
              THEN Op("send", "createRole", NoGate, NoToken, FALSE) ELSE Idle]
  /\ dirty = {}

Started  == req[Boot] = Idle
On(g)    == {r \in Requests : req[r] # Idle /\ req[r].cmd.gate = g}
Quiet(g) == On(g) = {}

-----------------------------------------------------------------------------
(* service/gate.go: Create, RotateToken, Delete *)

\* Operations on one gate are not serialised: the overlapping ones are tainted.
Enter(r, pc, cmd, g) ==
  /\ Started /\ req[r] = Idle
  /\ req' = [p \in Procs |->
       IF p = r THEN Op(pc, cmd, g, NoToken, ~Quiet(g))
       ELSE IF p \in On(g) THEN [req[p] EXCEPT !.tainted = TRUE] ELSE req[p]]

Create(r, g) ==
  /\ row[g].phase = "absent"
  /\ Enter(r, "token", "createClient", g)
  /\ row' = [row EXCEPT ![g].phase = "live"]
  /\ UNCHANGED <<minted, brokerVars, netVars, lock, dirty>>

RotateToken(r, g) ==
  /\ row[g].phase = "live"
  /\ Enter(r, "token", "createClient", g)
  /\ UNCHANGED <<dbVars, brokerVars, netVars, lock, dirty>>

Delete(r, g) ==
  /\ row[g].phase = "live"
  /\ Enter(r, "lock", "deleteClient", g)
  /\ row' = [row EXCEPT ![g] = [phase |-> "deleted", token |-> NoToken]]
  /\ UNCHANGED <<minted, brokerVars, netVars, lock, dirty>>

\* IssueGateToken, then SetToken, which needs the row.
SetToken(r) ==
  /\ req[r].pc = "token" /\ minted < MaxTokens
  /\ row[req[r].cmd.gate].phase = "live"
  /\ minted' = minted + 1
  /\ row' = [row EXCEPT ![req[r].cmd.gate].token = minted']
  /\ req' = [req EXCEPT ![r].pc = "lock", ![r].cmd.token = minted']
  /\ UNCHANGED <<brokerVars, netVars, lock, dirty>>

\* The operation is over.  It leaves the gate clean if nothing disturbed it.
Finish(p, failed) ==
  /\ IF p = Boot \/ req[p].pc = "token"
     THEN UNCHANGED dirty
     ELSE dirty' = IF failed \/ req[p].tainted
                   THEN dirty \cup {req[p].cmd.gate} ELSE dirty \ {req[p].cmd.gate}
  /\ req' = [req EXCEPT ![p] = Idle]
  /\ lock' = IF lock = p THEN Boot ELSE lock

\* The row is gone, or the database fails: the token is never stored.
SetTokenFails(r) ==
  /\ req[r].pc = "token"
  /\ Finish(r, FALSE)
  /\ UNCHANGED <<dbVars, brokerVars, netVars>>

-----------------------------------------------------------------------------
(* mqtt/dynsec.go: SyncCredentials, RemoveCredentials, Setup *)

\* (mutant: no mutex)
Lock_None(r) ==
  /\ req[r].pc = "lock"
  /\ req' = [req EXCEPT ![r].pc = "send"]
  /\ UNCHANGED <<dbVars, brokerVars, netVars, lock, dirty>>

Lock(r) ==
  /\ req[r].pc = "lock" /\ lock = Boot
  /\ lock' = r
  /\ req' = [req EXCEPT ![r].pc = "send"]
  /\ UNCHANGED <<dbVars, brokerVars, netVars, dirty>>

\* execWithResponse: drain the channel, publish, wait: for the broker's
\* acknowledgement, without a limit, and then up to 5 seconds for a response.
execWithResponse(p) ==
  /\ req[p].pc = "send" /\ Len(cmds) + Len(replies) < MaxQueue
  /\ respCh' = <<>>
  /\ cmds' = Append(cmds, req[p].cmd)
  /\ req' = [req EXCEPT ![p].pc = "wait",
                        ![p].tainted = @ \/ cmds # <<>> \/ replies # <<>>]
  /\ UNCHANGED <<dbVars, brokerVars, replies, lock, dirty>>

\* The message is sent at QoS 1.  If the connection is lost before it was
\* acknowledged it is sent again, and the broker sees the command twice.
Redeliver(p) ==
  /\ req[p].pc = "wait" /\ Len(cmds) + Len(replies) < MaxQueue
  /\ cmds' = Append(cmds, req[p].cmd)
  /\ req' = [req EXCEPT ![p].tainted = TRUE]
  /\ UNCHANGED <<dbVars, brokerVars, replies, respCh, lock, dirty>>

NextCommand(p, cmd) ==
  /\ req' = [req EXCEPT ![p].pc = "send", ![p].cmd.cmd = cmd]
  /\ UNCHANGED <<lock, dirty>>

\* What follows a response.  An existing client gets the new password; Setup
\* goes on to the default ACLs; everything else ends the operation, an
\* unexpected error with a warning.
Continue(p, resp) ==
  IF req[p].cmd.cmd = "createClient" /\ resp = "exists"
  THEN NextCommand(p, "setClientPassword")
  ELSE IF req[p].cmd.cmd = "createRole"
  THEN NextCommand(p, "setDefaultACLAccess")
  ELSE Finish(p, resp # "" /\ req[p].cmd.cmd # "deleteClient")

Receive(p) ==
  /\ req[p].pc = "wait" /\ respCh # <<>>
  /\ respCh' = <<>>
  /\ Continue(p, Head(respCh))
  /\ UNCHANGED <<dbVars, brokerVars, cmds, replies>>

\* After an error Setup still goes on; a request gives up with a warning.
GiveUp(p) ==
  IF req[p].cmd.cmd = "createRole" THEN NextCommand(p, "setDefaultACLAccess")
  ELSE Finish(p, TRUE)

Timeout(p) ==
  /\ req[p].pc = "wait"
  /\ GiveUp(p)
  /\ UNCHANGED <<dbVars, brokerVars, netVars>>

\* Publish reports an error.
PublishFails(p) ==
  /\ req[p].pc = "send"
  /\ respCh' = <<>>
  /\ GiveUp(p)
  /\ UNCHANGED <<dbVars, brokerVars, cmds, replies>>

\* (mutant: responses queue up)
OnResponse_Queued ==
  /\ replies # <<>>
  /\ replies' = Tail(replies)
  /\ respCh' = Append(respCh, Head(replies))
  /\ UNCHANGED <<dbVars, brokerVars, cmds, lock, req, dirty>>

\* The subscriber's callback: a response that finds the slot taken is dropped.
OnResponse ==
  /\ replies # <<>>
  /\ replies' = Tail(replies)
  /\ respCh' = IF respCh = <<>> THEN <<Head(replies)>> ELSE respCh
  /\ UNCHANGED <<dbVars, brokerVars, cmds, lock, req, dirty>>

-----------------------------------------------------------------------------
(* The broker and the server's life *)

Response(c) ==
  CASE c.cmd = "createRole"          -> IF role THEN "exists" ELSE ""
    [] c.cmd = "setDefaultACLAccess" -> ""
    [] c.cmd = "createClient"        -> IF client[c.gate] # NoToken THEN "exists" ELSE ""
    [] OTHER                         -> IF client[c.gate] = NoToken THEN "not found" ELSE ""

\* The dynamic security plugin executes the commands in order.
Execute ==
  /\ cmds # <<>>
  /\ LET c == Head(cmds)
     IN  /\ cmds' = Tail(cmds)
         /\ replies' = Append(replies, Response(c))
         /\ role' = (role \/ c.cmd = "createRole")
         /\ client' = IF Response(c) = "" /\ c.gate \in Gates
                      THEN [client EXCEPT ![c.gate] = c.token] ELSE client
  /\ UNCHANGED <<dbVars, respCh, lock, req, dirty>>

\* The server stops and starts again.  Nothing synchronises the gates.
Restart ==
  /\ Started
  /\ req' = [p \in Procs |-> IF p = Boot
               THEN Op("send", "createRole", NoGate, NoToken, FALSE) ELSE Idle]
  /\ dirty' = dirty \cup {g \in Gates : ~Quiet(g)}
  /\ lock' = Boot /\ respCh' = <<>>
  /\ UNCHANGED <<dbVars, brokerVars, cmds, replies>>

Start(r) == \E g \in Gates : Create(r, g) \/ RotateToken(r, g) \/ Delete(r, g)

\* Everything a request or Boot does once it is under way.
Work(p) ==
  \/ SetToken(p) \/ SetTokenFails(p) \/ Lock(p) \/ execWithResponse(p)
  \/ Redeliver(p) \/ Receive(p) \/ Timeout(p) \/ PublishFails(p)

Next ==
  \/ \E r \in Requests : Start(r)
  \/ \E p \in Procs : Work(p)
  \/ OnResponse \/ Execute \/ Restart

Spec == Init /\ [][Next]_vars

-----------------------------------------------------------------------------
(* Properties *)

\* The broker holds the password of the table for every gate whose last
\* operation ran undisturbed: alone on that gate, without errors, with no command
\* delivered twice and no response to an earlier one outstanding.  Operations on
\* other gates do not disturb it, and it repairs what an earlier one left.
CleanIsSynced ==
  \A g \in Gates : Quiet(g) /\ g \notin dirty => client[g] = row[g].token
=============================================================================
