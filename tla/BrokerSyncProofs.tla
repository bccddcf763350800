--------------------------- MODULE BrokerSyncProofs ---------------------------
(***************************************************************************)
(* TLAPS proofs about BrokerSync, for any gates and requests, any number   *)
(* of tokens and any length of the queues to and from the broker.          *)
(***************************************************************************)
EXTENDS BrokerSync, SequenceTheorems, TLAPS

-----------------------------------------------------------------------------
(* The inductive invariant *)

Answers   == {"", "exists", "not found"}
Unminted  == [cmd: {"createClient"}, gate: Gates, token: {NoToken}]
OfGates   == [cmd: {"createClient", "setClientPassword"}, gate: Gates, token: Tokens]
               \cup [cmd: {"deleteClient"}, gate: Gates, token: {NoToken}]
OfBoot    == [cmd: {"createRole", "setDefaultACLAccess"}, gate: {NoGate}, token: {NoToken}]
Exchange  == {"send", "wait"}

\* A request before and after its token is issued, and the start of the server.
Issuing   == [pc: {"token"}, cmd: Unminted, tainted: BOOLEAN]
Syncing   == [pc: {"lock", "send", "wait"}, cmd: OfGates, tainted: BOOLEAN]
Booting   == [pc: Exchange, cmd: OfBoot, tainted: BOOLEAN]

\* No token is in a request or on its way that was not issued.
ReqInv ==
  /\ req \in [Procs -> {Idle} \cup Issuing \cup Syncing \cup Booting]
  /\ req[Boot] \in {Idle} \cup Booting
  /\ \A r \in Requests : req[r] \in {Idle} \cup Issuing \cup Syncing
  /\ \A p \in Procs : req[p] # Idle => req[p].cmd.token <= minted
  /\ \A i \in 1 .. Len(cmds) : cmds[i].token <= minted

TypeInv == TypeOK /\ ReqInv

\* One process at a time talks to the broker: the start of the server, while no
\* request runs, or the request that holds the mutex.
LockInv ==
  /\ ~ Started => lock = Boot /\ \A r \in Requests : req[r] = Idle
  /\ \A r \in Requests : req[r].pc \in Exchange => lock = r
  /\ lock # Boot => req[lock].pc \in Exchange

\* Of two operations on one gate that overlap, both are tainted.
TaintInv ==
  \A q, r \in Requests :
    q # r /\ req[q] # Idle /\ req[r] # Idle /\ req[q].cmd.gate = req[r].cmd.gate =>
      req[q].tainted /\ req[r].tainted

\* What the response x to command c says of the broker.
Says(c, x) ==
  /\ x = "" => client[c.gate] = c.token
  /\ x = "not found" => client[c.gate] = NoToken
  /\ x = "exists" => c.cmd = "createClient"

\* An untainted operation has the token of the table; while it waits, there is
\* nothing between server and broker but its own command or the response to it.
Sent(c)    == cmds = <<c>> /\ replies = <<>> /\ respCh = <<>>
Replied(x) == cmds = <<>> /\ replies = <<x>> /\ respCh = <<>>
Arrived(x) == cmds = <<>> /\ replies = <<>> /\ respCh = <<x>>

Waiting(c) == Sent(c) \/ \E x \in Answers : Says(c, x) /\ (Replied(x) \/ Arrived(x))

ExchangeInv ==
  \A r \in Requests : req[r] # Idle /\ ~ req[r].tainted =>
    /\ req[r].pc # "token" => row[req[r].cmd.gate].token = req[r].cmd.token
    /\ req[r].pc = "wait" => Waiting(req[r].cmd)

\* A command on its way is that of a gate that is dirty, or whose operation is
\* still talking to the broker.
Speaks(g) == \E r \in Requests : req[r].pc \in Exchange /\ req[r].cmd.gate = g
CommandInv ==
  \A i \in 1 .. Len(cmds) : cmds[i].gate \in Gates => cmds[i].gate \in dirty \/ Speaks(cmds[i].gate)

\* A clean gate is in step until an operation on it stores or removes a token.
CleanInv ==
  \A g \in Gates \ dirty : (\A r \in On(g) : req[r].pc = "token") => client[g] = row[g].token

IInv == TypeInv /\ LockInv /\ TaintInv /\ ExchangeInv /\ CommandInv /\ CleanInv

-----------------------------------------------------------------------------
(* Types *)

LEMMA Constants ==
  /\ MaxTokens \in Nat /\ MaxQueue \in Nat \ {0} /\ NoToken = 0 /\ NoGate \notin Gates
  /\ Tokens \subseteq Nat \ {0}
BY BrokerAssumption DEF Tokens, NoToken

LEMMA Processes ==
  /\ Boot \in Procs /\ Boot \notin Requests
  /\ \A p : p \in Procs <=> p \in Requests \/ p = Boot
BY BrokerAssumption DEF Procs

\* The fields of a request, by kind.
LEMMA IdleKind == Idle.pc = "idle"
BY DEF Idle

LEMMA IssuingKind ==
  ASSUME NEW q \in Issuing
  PROVE  /\ q.pc = "token" /\ q # Idle /\ q.cmd \in Unminted /\ q.tainted \in BOOLEAN
         /\ q.cmd.cmd = "createClient" /\ q.cmd.gate \in Gates /\ q.cmd.token = 0
<1>1. q.pc = "token" /\ q.cmd \in Unminted /\ q.tainted \in BOOLEAN
  BY DEF Issuing
<1> QED BY <1>1, IdleKind, Constants DEF Unminted

LEMMA GateCommand ==
  ASSUME NEW c \in OfGates
  PROVE  /\ c.cmd \in {"createClient", "setClientPassword", "deleteClient"}
         /\ c.gate \in Gates /\ c.token \in Nat /\ c \in Commands
         /\ c.cmd = "deleteClient" => c.token = 0
         /\ c.cmd # "deleteClient" => c.token \in Tokens
<1>1. CASE c \in [cmd: {"createClient", "setClientPassword"}, gate: Gates, token: Tokens]
  BY <1>1, Constants DEF Commands
<1>2. CASE c \in [cmd: {"deleteClient"}, gate: Gates, token: {NoToken}]
  BY <1>2, Constants DEF Commands
<1> QED BY <1>1, <1>2 DEF OfGates

LEMMA AnyCommand ==
  ASSUME NEW c \in Commands
  PROVE  c.token \in Nat /\ c.gate \in Gates \cup {NoGate}
<1>1. CASE c \in OfBoot
  BY <1>1, Constants DEF OfBoot
<1>2. CASE c \in OfGates
  BY <1>2, GateCommand
<1> QED BY <1>1, <1>2 DEF Commands, OfBoot, OfGates

LEMMA SyncingKind ==
  ASSUME NEW q \in Syncing
  PROVE  /\ q.pc \in {"lock", "send", "wait"} /\ q.pc # "idle" /\ q.pc # "token" /\ q # Idle
         /\ q.cmd \in OfGates /\ q.tainted \in BOOLEAN /\ q.cmd.gate \in Gates
BY IdleKind, GateCommand DEF Syncing

LEMMA BootingKind ==
  ASSUME NEW q \in Booting
  PROVE  /\ q.pc \in {"send", "wait"} /\ q # Idle /\ q.cmd \in OfBoot /\ q.cmd \in Commands
         /\ q.tainted \in BOOLEAN /\ q.cmd.gate = NoGate /\ q.cmd.token = 0
         /\ q.cmd.cmd \in {"createRole", "setDefaultACLAccess"}
<1>1. q.pc \in {"send", "wait"} /\ q.cmd \in OfBoot /\ q.tainted \in BOOLEAN
  BY DEF Booting, Exchange
<1> QED BY <1>1, IdleKind, Constants DEF OfBoot, Commands

\* Where a request is tells its kind.
LEMMA Where ==
  ASSUME TypeInv
  PROVE  /\ \A r \in Requests : /\ req[r].pc = "token" <=> req[r] \in Issuing
                                /\ req[r].pc \in {"lock", "send", "wait"} <=> req[r] \in Syncing
                                /\ req[r] # Idle => req[r].cmd.gate \in Gates
                                /\ req[r] = Idle <=> req[r].pc = "idle"
         /\ req[Boot] # Idle <=> req[Boot] \in Booting
         /\ minted \in Nat
<1>1. ASSUME NEW r \in Requests
      PROVE  /\ req[r].pc = "token" <=> req[r] \in Issuing
             /\ req[r].pc \in {"lock", "send", "wait"} <=> req[r] \in Syncing
             /\ req[r] # Idle => req[r].cmd.gate \in Gates
             /\ req[r] = Idle <=> req[r].pc = "idle"
  <2>1. req[r] \in {Idle} \cup Issuing \cup Syncing
    BY DEF TypeInv, ReqInv
  <2>2. CASE req[r] = Idle
    BY <2>2, IdleKind, IssuingKind, SyncingKind
  <2>3. CASE req[r] \in Issuing
    BY <2>3, IssuingKind, SyncingKind
  <2>4. CASE req[r] \in Syncing
    BY <2>4, IssuingKind, SyncingKind
  <2> QED BY <2>1, <2>2, <2>3, <2>4
<1>2. req[Boot] # Idle <=> req[Boot] \in Booting
  BY BootingKind DEF TypeInv, ReqInv
<1>3. minted \in Nat
  <2>1. minted \in 0 .. MaxTokens
    BY DEF TypeInv, TypeOK
  <2> QED BY <2>1, Constants
<1> QED BY <1>1, <1>2, <1>3

LEMMA InQueue ==
  ASSUME TypeInv
  PROVE  cmds \in Seq(Commands) /\ \A i \in 1 .. Len(cmds) : cmds[i] \in Commands
<1>1. cmds \in Seq(Commands)
  BY DEF TypeInv, TypeOK
<1> QED BY <1>1

\* One process moves.
LEMMA Moves ==
  ASSUME TypeInv, NEW p \in Procs, NEW s, req' = [req EXCEPT ![p] = s],
         s \in IF p = Boot THEN {Idle} \cup Booting ELSE {Idle} \cup Issuing \cup Syncing,
         minted' \in Nat, minted <= minted', s # Idle => s.cmd.token <= minted'
  PROVE  /\ req' \in [Procs -> {Idle} \cup Issuing \cup Syncing \cup Booting]
         /\ req'[p] = s /\ \A q \in Procs \ {p} : req'[q] = req[q]
         /\ req'[Boot] \in {Idle} \cup Booting
         /\ \A r \in Requests : req'[r] \in {Idle} \cup Issuing \cup Syncing
         /\ \A q \in Procs : req'[q] # Idle => req'[q].cmd.token <= minted'
<1>1. /\ req' \in [Procs -> {Idle} \cup Issuing \cup Syncing \cup Booting]
      /\ req'[p] = s /\ \A q \in Procs \ {p} : req'[q] = req[q]
  BY DEF TypeInv, ReqInv
<1>2. req'[Boot] \in {Idle} \cup Booting
  BY <1>1, Processes DEF TypeInv, ReqInv
<1>3. \A r \in Requests : req'[r] \in {Idle} \cup Issuing \cup Syncing
  BY <1>1, Processes DEF TypeInv, ReqInv
<1>4. ASSUME NEW q \in Procs, req'[q] # Idle PROVE req'[q].cmd.token <= minted'
  <2>1. CASE q = p
    BY <1>1, <1>4, <2>1
  <2>2. CASE q # p
    <3>1. req[q] # Idle /\ req[q] \in {Idle} \cup Issuing \cup Syncing \cup Booting
      BY <1>1, <1>4, <2>2 DEF TypeInv, ReqInv
    <3>2. req[q].cmd.token \in Nat
      BY <3>1, IssuingKind, SyncingKind, BootingKind, GateCommand
    <3>3. req[q].cmd.token <= minted
      BY <3>1 DEF TypeInv, ReqInv
    <3> QED BY <1>1, <2>2, <3>2, <3>3, Where
  <2> QED BY <2>1, <2>2
<1> QED BY <1>1, <1>2, <1>3, <1>4

LEMMA InitInv == Init => IInv
<1> SUFFICES ASSUME Init PROVE IInv
  OBVIOUS
<1>1. Op("send", "createRole", NoGate, NoToken, FALSE) \in Booting
  BY DEF Op, Booting, OfBoot, Exchange
<1>2. /\ req[Boot] = Op("send", "createRole", NoGate, NoToken, FALSE)
      /\ \A r \in Requests : req[r] = Idle
      /\ req \in [Procs -> {Idle} \cup Issuing \cup Syncing \cup Booting]
  BY <1>1, Processes DEF Init
<1>3. /\ \A p \in Procs : req[p] = Idle \/ req[p].pc \in {"token", "lock", "send", "wait"}
      /\ \A p \in Procs : req[p] # Idle => req[p].cmd.token = 0
  <2>1. req[Boot].pc \in {"send", "wait"} /\ req[Boot].cmd.token = 0
    BY <1>1, <1>2, BootingKind
  <2> QED BY <1>2, <2>1, Processes
<1>4. TypeOK
  <2>1. /\ cmds \in Seq(Commands) /\ replies \in Seq({"", "exists", "not found"})
        /\ respCh \in Seq({"", "exists", "not found"})
        /\ Len(cmds) + Len(replies) <= MaxQueue /\ Len(respCh) <= 1
    BY Constants DEF Init
  <2>2. minted = 0 /\ minted \in 0 .. MaxTokens
    BY Constants DEF Init
  <2>3. /\ row \in [Gates -> [phase: {"absent", "live", "deleted"}, token: 0 .. minted]]
        /\ client \in [Gates -> 0 .. minted]
    BY <2>2, Constants DEF Init
  <2>4. role \in BOOLEAN /\ lock \in Procs /\ dirty \subseteq Gates
    BY Processes DEF Init
  <2> QED BY <1>3, <2>1, <2>2, <2>3, <2>4 DEF TypeOK
<1>5. ReqInv
  <2>0. minted = 0
    BY DEF Init
  <2>1. \A p \in Procs : req[p] # Idle => req[p].cmd.token <= minted
    BY <1>3, <2>0
  <2>2. \A i \in 1 .. Len(cmds) : cmds[i].token <= minted
    BY DEF Init
  <2> QED BY <1>1, <1>2, <2>1, <2>2 DEF ReqInv
<1>6. LockInv
  BY <1>1, <1>2, IdleKind DEF Init, LockInv, Exchange
<1>7. TaintInv /\ ExchangeInv
  BY <1>2 DEF TaintInv, ExchangeInv
<1>8. CommandInv
  BY DEF Init, CommandInv
<1>9. CleanInv
  BY DEF Init, CleanInv
<1> QED BY <1>4, <1>5, <1>6, <1>7, <1>8, <1>9 DEF IInv, TypeInv

-----------------------------------------------------------------------------
(* Steps of one process, with the tables and the broker unchanged *)

\* The kind of a process's state makes up TypeOK's part about it.
LEMMA Somewhere ==
  ASSUME ReqInv
  PROVE  \A p \in Procs : req[p] = Idle \/ req[p].pc \in {"token", "lock", "send", "wait"}
BY IssuingKind, SyncingKind, BootingKind DEF ReqInv

LEMMA MoveType ==
  ASSUME TypeInv, NEW p \in Procs, NEW s, req' = [req EXCEPT ![p] = s],
         s \in IF p = Boot THEN {Idle} \cup Booting ELSE {Idle} \cup Issuing \cup Syncing,
         s # Idle => s.cmd.token <= minted,
         UNCHANGED <<row, minted, client, role>>, lock' \in Procs, dirty' \subseteq Gates,
         cmds' \in Seq(Commands), \A i \in 1 .. Len(cmds') : cmds'[i].token <= minted,
         replies' \in Seq(Answers), Len(cmds') + Len(replies') <= MaxQueue,
         respCh' \in Seq(Answers), Len(respCh') <= 1
  PROVE  TypeInv' /\ req'[p] = s /\ \A q \in Procs \ {p} : req'[q] = req[q]
<1>1. minted' \in Nat /\ minted <= minted' /\ (s # Idle => s.cmd.token <= minted')
  BY Where
<1>2. /\ req' \in [Procs -> {Idle} \cup Issuing \cup Syncing \cup Booting]
      /\ req'[p] = s /\ \A q \in Procs \ {p} : req'[q] = req[q]
      /\ req'[Boot] \in {Idle} \cup Booting
      /\ \A r \in Requests : req'[r] \in {Idle} \cup Issuing \cup Syncing
      /\ \A q \in Procs : req'[q] # Idle => req'[q].cmd.token <= minted'
  BY <1>1, Moves
<1>3. ReqInv'
  BY <1>2 DEF ReqInv
<1>4. \A q \in Procs : req'[q] = Idle \/ req'[q].pc \in {"token", "lock", "send", "wait"}
  <2>1. (\A q \in Procs : req[q] = Idle \/ req[q].pc \in {"token", "lock", "send", "wait"})'
    BY <1>3, Somewhere, IssuingKind, SyncingKind, BootingKind DEF ReqInv
  <2> QED BY <2>1
<1>5. TypeOK'
  BY <1>4 DEF TypeInv, TypeOK, Answers
<1> QED BY <1>2, <1>3, <1>5 DEF TypeInv

\* The queues and the channel as they are, or the channel emptied.
LEMMA Queues ==
  ASSUME TypeInv, UNCHANGED <<minted, cmds, replies>>, respCh' \in {respCh, <<>>}
  PROVE  /\ cmds' \in Seq(Commands) /\ \A i \in 1 .. Len(cmds') : cmds'[i].token <= minted
         /\ replies' \in Seq(Answers) /\ Len(cmds') + Len(replies') <= MaxQueue
         /\ respCh' \in Seq(Answers) /\ Len(respCh') <= 1
<1>1. <<>> \in Seq(Answers) /\ Len(<<>>) <= 1
  OBVIOUS
<1> QED BY <1>1 DEF TypeInv, TypeOK, ReqInv, Answers

\* While the server starts, no request runs and every command on its way is
\* for a dirty gate.
LEMMA BootInv ==
  ASSUME IInv, req[Boot] # Idle, TypeInv', \A r \in Requests : req'[r] = req[r],
         lock' = Boot, UNCHANGED <<row, client, dirty>>,
         \A i \in 1 .. Len(cmds') : cmds'[i].gate \in Gates =>
           \E j \in 1 .. Len(cmds) : cmds[j].gate = cmds'[i].gate
  PROVE  IInv'
<1>1. \A r \in Requests : req[r] = Idle /\ req'[r] = Idle /\ req'[r].pc = "idle"
  BY IdleKind DEF IInv, LockInv, Started
<1>2. LockInv'
  BY <1>1 DEF LockInv, Exchange
<1>3. TaintInv' /\ ExchangeInv'
  BY <1>1 DEF TaintInv, ExchangeInv
<1>4. \A g \in Gates : ~ Speaks(g)
  BY <1>1, IdleKind DEF Speaks, Exchange
<1>5. CommandInv'
  BY <1>4 DEF IInv, CommandInv
<1>6. \A g \in Gates : On(g) = {} /\ On(g)' = {}
  BY <1>1 DEF On
<1>7. CleanInv'
  BY <1>6 DEF IInv, CleanInv
<1> QED BY <1>2, <1>3, <1>5, <1>7 DEF IInv

\* Only one request talks to the broker, and none while the server starts.
LEMMA Alone ==
  ASSUME IInv, NEW r \in Requests, req[r].pc \in Exchange
  PROVE  /\ lock = r /\ req[Boot] = Idle
         /\ \A q \in Requests \ {r} : req[q].pc \notin Exchange
<1>1. req[r] # Idle
  BY IdleKind DEF Exchange
<1> QED BY <1>1, Processes DEF IInv, LockInv, Started

\* A request goes on: it keeps its gate, its token and, if any, its taint.
LEMMA Continues ==
  ASSUME IInv, NEW r \in Requests, NEW s \in Syncing, TypeInv',
         req'[r] = s, \A q \in Procs \ {r} : req'[q] = req[q],
         req[r].pc \in {"lock", "send", "wait"}, s.pc \in Exchange,
         s.cmd.gate = req[r].cmd.gate, s.cmd.token = req[r].cmd.token,
         req[r].tainted => s.tainted,
         lock' = r, lock \in {r, Boot}, UNCHANGED <<row, client, dirty>>,
         s.pc = "wait" /\ ~ s.tainted => Waiting(s.cmd)',
         \A i \in 1 .. Len(cmds') : cmds'[i].gate \in Gates =>
           cmds'[i].gate = s.cmd.gate \/ \E j \in 1 .. Len(cmds) : cmds[j].gate = cmds'[i].gate
  PROVE  IInv'
<1>0. r \in Procs /\ \A q \in Requests \ {r} : q \in Procs \ {r}
  BY Processes
<1>1. /\ req[r] # Idle /\ s # Idle /\ req[Boot] = Idle /\ req'[Boot] = Idle
      /\ \A q \in Requests \ {r} : req'[q] = req[q]
  BY <1>0, IdleKind, SyncingKind, Processes DEF IInv, LockInv, Started
<1>2. \A q \in Requests \ {r} : req[q].pc \notin Exchange
  BY <1>0, Processes DEF IInv, LockInv
<1>3. LockInv'
  BY <1>1, <1>2 DEF LockInv, Started
<1>4. TaintInv'
  BY <1>1 DEF IInv, TaintInv
<1>5. ExchangeInv'
  <2>1. SUFFICES ASSUME NEW q \in Requests, req'[q] # Idle, ~ req'[q].tainted
                 PROVE  /\ req'[q].pc # "token" => row'[req'[q].cmd.gate].token = req'[q].cmd.token
                        /\ req'[q].pc = "wait" => Waiting(req[q].cmd)'
    BY DEF ExchangeInv
  <2>2. CASE q = r
    <3>1. ~ req[r].tainted /\ req[r].pc # "token"
      BY <2>1, <2>2
    <3>2. row[req[r].cmd.gate].token = req[r].cmd.token
      BY <1>1, <3>1 DEF IInv, ExchangeInv
    <3> QED BY <2>1, <2>2, <3>2
  <2>3. CASE q # r
    <3>1. req'[q] = req[q] /\ req'[q].pc # "wait"
      BY <1>1, <1>2, <2>3 DEF Exchange
    <3> QED BY <2>1, <3>1 DEF IInv, ExchangeInv
  <2> QED BY <2>2, <2>3
<1>6. CommandInv'
  <2>1. \A g \in Gates : Speaks(g) => g = s.cmd.gate
    BY <1>2 DEF Speaks
  <2>2. Speaks(s.cmd.gate)'
    BY DEF Speaks
  <2>3. \A i \in 1 .. Len(cmds') : cmds'[i].gate \in Gates => cmds'[i].gate \in dirty \/ cmds'[i].gate = s.cmd.gate
    BY <2>1 DEF IInv, CommandInv
  <2>4. \A i \in 1 .. Len(cmds') : cmds'[i].gate \in Gates =>
          cmds'[i].gate \in dirty' \/ \E q \in Requests : req'[q].pc \in Exchange /\ req'[q].cmd.gate = cmds'[i].gate
    BY <2>3
  <2> QED BY <2>4 DEF CommandInv, Speaks
<1>7. CleanInv'
  <2>1. \A g \in Gates : On(g)' = On(g)
    BY <1>1 DEF On
  <2>2. s.pc # "token" /\ req[r].pc # "token" /\ \A g \in Gates : r \notin On(g) => \A q \in On(g) : req'[q] = req[q]
    BY <1>1 DEF On, Exchange
  <2> QED BY <2>1, <2>2 DEF IInv, CleanInv
<1> QED BY <1>3, <1>4, <1>5, <1>6, <1>7 DEF IInv

\* A request that talked to the broker ends.  If nothing disturbed it, nothing
\* is on its way and broker and table agree; otherwise the gate is dirty.
LEMMA Finishes ==
  ASSUME IInv, NEW r \in Requests, NEW failed \in BOOLEAN, req[r].pc \in Exchange, Finish(r, failed),
         ~ failed /\ ~ req[r].tainted =>
           cmds = <<>> /\ client[req[r].cmd.gate] = row[req[r].cmd.gate].token,
         UNCHANGED <<dbVars, brokerVars, cmds, replies>>, respCh' \in {respCh, <<>>}
  PROVE  IInv'
<1> DEFINE g == req[r].cmd.gate
<1>0. /\ r \in Procs /\ r # Boot /\ req[r].pc # "token" /\ lock = r /\ req[Boot] = Idle
      /\ req[r] # Idle /\ g \in Gates /\ \A q \in Requests \ {r} : req[q].pc \notin Exchange
  BY Alone, Processes, Where, IdleKind DEF Exchange, IInv
<1>1. /\ dirty' = IF failed \/ req[r].tainted THEN dirty \cup {g} ELSE dirty \ {g}
      /\ req' = [req EXCEPT ![r] = Idle] /\ lock' = Boot
  BY <1>0 DEF Finish
<1>2. UNCHANGED <<row, minted, client, role>>
  BY DEF dbVars, brokerVars
<1>3. dirty' \subseteq Gates /\ lock' \in Procs
  BY <1>0, <1>1, Processes DEF IInv, TypeInv, TypeOK
<1>4. TypeInv' /\ req'[r] = Idle /\ \A q \in Procs \ {r} : req'[q] = req[q]
  BY <1>0, <1>1, <1>2, <1>3, MoveType, Queues DEF IInv
<1>5. /\ \A q \in Requests \ {r} : req'[q] = req[q]
      /\ \A q \in Requests : req'[q].pc \notin Exchange /\ req'[Boot] = Idle
  BY <1>0, <1>4, Processes, IdleKind DEF Exchange
<1>6. LockInv'
  BY <1>1, <1>5 DEF LockInv, Started
<1>7. TaintInv'
  BY <1>4, <1>5 DEF IInv, TaintInv
<1>8. ExchangeInv'
  <2>1. \A q \in Requests : req'[q].pc # "wait"
    BY <1>5 DEF Exchange
  <2> QED BY <1>2, <1>4, <1>5, <2>1 DEF IInv, ExchangeInv
<1>9. CommandInv'
  <2>1. \A h \in Gates : Speaks(h) => h = g
    BY <1>0 DEF Speaks
  <2>2. CASE failed \/ req[r].tainted
    BY <1>1, <2>1, <2>2 DEF IInv, CommandInv
  <2>3. CASE ~ failed /\ ~ req[r].tainted
    <3>1. cmds' = <<>>
      BY <2>3
    <3> QED BY <3>1 DEF CommandInv
  <2> QED BY <2>2, <2>3
<1>10. CleanInv'
  <2>1. SUFFICES ASSUME NEW h \in Gates \ dirty', \A q \in On(h)' : req'[q].pc = "token"
                 PROVE  client[h] = row[h].token
    BY <1>2 DEF CleanInv
  <2>2. CASE h = g
    BY <1>1, <2>1, <2>2
  <2>3. CASE h # g
    <3>1. h \notin dirty /\ r \notin On(h)
      BY <1>1, <2>1, <2>3 DEF On
    <3>2. \A q \in On(h) : q \in On(h)' /\ req'[q] = req[q]
      BY <1>5, <3>1 DEF On
    <3> QED BY <2>1, <3>1, <3>2 DEF IInv, CleanInv
  <2> QED BY <2>2, <2>3
<1> QED BY <1>4, <1>6, <1>7, <1>8, <1>9, <1>10 DEF IInv

\* The start of the server goes on to its second command, or ends.
LEMMA BootMoves ==
  ASSUME IInv, req[Boot] # Idle, NextCommand(Boot, "setDefaultACLAccess") \/ (\E f \in BOOLEAN : Finish(Boot, f)),
         UNCHANGED <<dbVars, brokerVars, cmds, replies>>, respCh' \in {respCh, <<>>}
  PROVE  IInv'
<1>1. /\ req[Boot] \in Booting /\ lock = Boot /\ Boot \in Procs
      /\ \A r \in Requests : r \in Procs \ {Boot}
  BY Where, Processes DEF IInv, LockInv, Started
<1>2. UNCHANGED <<row, minted, client, role>> /\ minted \in Nat
  BY Where DEF dbVars, brokerVars, IInv
<1>3. ASSUME NEW s \in {Idle} \cup Booting, req' = [req EXCEPT ![Boot] = s], lock' = Boot,
             UNCHANGED dirty
      PROVE  IInv'
  <2>1. s # Idle => s.cmd.token <= minted
    BY <1>2, BootingKind
  <2>2. dirty' \subseteq Gates
    BY <1>3 DEF IInv, TypeInv, TypeOK
  <2>3. TypeInv' /\ \A q \in Procs \ {Boot} : req'[q] = req[q]
    BY <1>1, <1>2, <1>3, <2>1, <2>2, MoveType, Queues DEF IInv
  <2>4. \A i \in 1 .. Len(cmds') : cmds'[i].gate \in Gates =>
          \E j \in 1 .. Len(cmds) : cmds[j].gate = cmds'[i].gate
    OBVIOUS
  <2> QED BY <1>1, <1>2, <1>3, <2>3, <2>4, BootInv
<1>4. ASSUME NextCommand(Boot, "setDefaultACLAccess") PROVE IInv'
  <2> DEFINE s == [req[Boot] EXCEPT !.pc = "send", !.cmd.cmd = "setDefaultACLAccess"]
  <2>1. s \in Booting
    BY <1>1 DEF Booting, OfBoot, Exchange
  <2>2. req' = [req EXCEPT ![Boot] = s] /\ lock' = Boot /\ UNCHANGED dirty
    BY <1>1, <1>4 DEF NextCommand
  <2> HIDE DEF s
  <2> QED BY <1>3, <2>1, <2>2
<1>5. ASSUME NEW f \in BOOLEAN, Finish(Boot, f) PROVE IInv'
  BY <1>1, <1>3, <1>5 DEF Finish
<1> QED BY <1>4, <1>5

LEMMA LockStep == ASSUME IInv, NEW r \in Requests, Lock(r) PROVE IInv'
<1> DEFINE s == [req[r] EXCEPT !.pc = "send"]
<1>1. req[r] \in Syncing /\ r \in Procs /\ r # Boot
  BY Where, Processes DEF Lock, IInv
<1>2. /\ s \in Syncing /\ s.pc = "send" /\ s.cmd = req[r].cmd /\ s.tainted = req[r].tainted
  BY <1>1 DEF Syncing
<1>3. req' = [req EXCEPT ![r] = s] /\ lock' = r /\ lock = Boot /\ req[r].pc = "lock"
  BY DEF Lock
<1>4. UNCHANGED <<row, minted, client, role, cmds, replies, respCh, dirty>>
  BY DEF Lock, dbVars, brokerVars, netVars
<1>5. s.cmd.token <= minted /\ dirty' \subseteq Gates
  BY <1>1, <1>2, <1>4, SyncingKind DEF IInv, TypeInv, TypeOK, ReqInv
<1> HIDE DEF s
<1>6. TypeInv' /\ req'[r] = s /\ \A q \in Procs \ {r} : req'[q] = req[q]
  BY <1>1, <1>2, <1>3, <1>4, <1>5, MoveType, Queues DEF IInv
<1> QED BY <1>2, <1>3, <1>4, <1>6, Continues DEF Exchange

\* A command is published: behind those on their way, if any.
LEMMA Publishes ==
  ASSUME TypeInv, NEW c \in Commands, c.token <= minted, cmds' = Append(cmds, c),
         Len(cmds) + Len(replies) < MaxQueue, UNCHANGED replies
  PROVE  /\ cmds' \in Seq(Commands) /\ \A i \in 1 .. Len(cmds') : cmds'[i].token <= minted
         /\ replies' \in Seq(Answers) /\ Len(cmds') + Len(replies') <= MaxQueue
         /\ \A i \in 1 .. Len(cmds') : cmds'[i] = c \/ \E j \in 1 .. Len(cmds) : cmds[j] = cmds'[i]
         /\ cmds = <<>> => cmds' = <<c>>
<1>1. cmds \in Seq(Commands) /\ replies \in Seq(Answers) /\ \A i \in 1 .. Len(cmds) : cmds[i].token <= minted
  BY DEF TypeInv, TypeOK, ReqInv, Answers
<1>2. Len(cmds') = Len(cmds) + 1 /\ cmds' \in Seq(Commands) /\ Len(cmds) \in Nat /\ Len(replies) \in Nat
  BY <1>1
<1>3. \A i \in 1 .. Len(cmds') : cmds'[i] = IF i \in 1 .. Len(cmds) THEN cmds[i] ELSE c
  BY <1>1, <1>2
<1>4. \A i \in 1 .. Len(cmds') : cmds'[i].token <= minted
  BY <1>1, <1>3
<1>5. Len(cmds') + Len(replies') <= MaxQueue
  BY <1>2, Constants
<1>6. \A i \in 1 .. Len(cmds') : cmds'[i] = c \/ \E j \in 1 .. Len(cmds) : cmds[j] = cmds'[i]
  BY <1>3
<1>7. cmds = <<>> => cmds' = <<c>>
  OBVIOUS
<1> QED BY <1>1, <1>2, <1>4, <1>5, <1>6, <1>7

LEMMA SendStep == ASSUME IInv, NEW p \in Procs, execWithResponse(p) PROVE IInv'
<1> DEFINE s == [req[p] EXCEPT !.pc = "wait", !.tainted = @ \/ cmds # <<>> \/ replies # <<>>]
<1> DEFINE c == req[p].cmd
<1>1. /\ req' = [req EXCEPT ![p] = s] /\ cmds' = Append(cmds, c) /\ respCh' = <<>>
      /\ Len(cmds) + Len(replies) < MaxQueue /\ req[p].pc = "send"
      /\ UNCHANGED <<row, minted, client, role, replies, lock, dirty>>
  BY DEF execWithResponse, dbVars, brokerVars
<1>2. /\ lock' \in Procs /\ dirty' \subseteq Gates
      /\ respCh' \in Seq(Answers) /\ Len(respCh') <= 1
  <2>1. lock' \in Procs /\ dirty' \subseteq Gates
    BY <1>1 DEF IInv, TypeInv, TypeOK
  <2>2. <<>> \in Seq(Answers) /\ Len(<<>>) <= 1
    OBVIOUS
  <2> QED BY <1>1, <2>1, <2>2
<1>3. CASE p = Boot
  <2>1. req[p] \in Booting
    BY <1>1, <1>3, Where, IdleKind DEF IInv
  <2>2. s \in Booting /\ s.cmd = c
    BY <2>1 DEF Booting, Exchange
  <2>3. c \in Commands /\ c.token <= minted /\ c.gate = NoGate /\ s # Idle /\ req[p] # Idle /\ s.cmd.token <= minted
    BY <2>1, <2>2, BootingKind, Where DEF IInv
  <2> HIDE DEF s, c
  <2>4. /\ cmds' \in Seq(Commands) /\ \A i \in 1 .. Len(cmds') : cmds'[i].token <= minted
        /\ replies' \in Seq(Answers) /\ Len(cmds') + Len(replies') <= MaxQueue
        /\ \A i \in 1 .. Len(cmds') : cmds'[i] = c \/ \E j \in 1 .. Len(cmds) : cmds[j] = cmds'[i]
    BY <1>1, <2>3, Publishes DEF IInv
  <2>5. TypeInv' /\ \A q \in Procs \ {p} : req'[q] = req[q]
    BY <1>1, <1>2, <1>3, <2>2, <2>3, <2>4, MoveType DEF IInv
  <2>6. \A r \in Requests : req'[r] = req[r]
    BY <1>3, <2>5, Processes
  <2>7. lock' = Boot
    BY <1>1, <1>3, <2>3 DEF IInv, LockInv, Started
  <2>8. \A i \in 1 .. Len(cmds') : cmds'[i].gate \in Gates =>
          \E j \in 1 .. Len(cmds) : cmds[j].gate = cmds'[i].gate
    BY <2>3, <2>4, Constants
  <2> QED BY <1>1, <1>3, <2>3, <2>5, <2>6, <2>7, <2>8, BootInv
<1>4. CASE p \in Requests
  <2>1. req[p] \in Syncing /\ req[p] # Idle /\ p # Boot
    BY <1>1, <1>4, Where, SyncingKind, Processes DEF IInv
  <2>2. /\ s \in Syncing /\ s.cmd = c /\ s.pc = "wait"
        /\ s.tainted = (req[p].tainted \/ cmds # <<>> \/ replies # <<>>)
    BY <2>1 DEF Syncing
  <2>3. c \in Commands /\ c.token <= minted /\ s.cmd.token <= minted
    BY <2>1, <2>2, SyncingKind, GateCommand DEF IInv, TypeInv, ReqInv
  <2>4. lock = p
    BY <1>1, <1>4 DEF IInv, LockInv, Exchange
  <2>t. PICK t : t = s
    OBVIOUS
  <2> HIDE DEF s, c
  <2>5. /\ cmds' \in Seq(Commands) /\ \A i \in 1 .. Len(cmds') : cmds'[i].token <= minted
        /\ replies' \in Seq(Answers) /\ Len(cmds') + Len(replies') <= MaxQueue
        /\ \A i \in 1 .. Len(cmds') : cmds'[i] = c \/ \E j \in 1 .. Len(cmds) : cmds[j] = cmds'[i]
        /\ cmds = <<>> => cmds' = <<c>>
    BY <1>1, <2>3, Publishes DEF IInv
  <2>6. TypeInv' /\ req'[p] = t /\ \A q \in Procs \ {p} : req'[q] = req[q]
    BY <1>1, <1>2, <2>1, <2>2, <2>3, <2>5, <2>t, MoveType DEF IInv
  <2>w. t.cmd = c
    BY <2>2, <2>t
  <2>7. ~ t.tainted => Waiting(t.cmd)'
    BY <1>1, <2>2, <2>5, <2>t, <2>w DEF Waiting, Sent
  <2>8. \A i \in 1 .. Len(cmds') : cmds'[i].gate \in Gates =>
          cmds'[i].gate = t.cmd.gate \/ \E j \in 1 .. Len(cmds) : cmds[j].gate = cmds'[i].gate
    BY <2>2, <2>5, <2>t
  <2>9. t.cmd.gate = req[p].cmd.gate /\ t.cmd.token = req[p].cmd.token /\ (req[p].tainted => t.tainted)
    BY <2>2, <2>t DEF c
  <2> QED BY <1>1, <1>4, <2>2, <2>4, <2>6, <2>7, <2>8, <2>9, <2>t, Continues DEF Exchange
<1> QED BY <1>3, <1>4, Processes

\* A command that is sent again taints its operation, so nothing is claimed of it.
LEMMA RedeliverStep == ASSUME IInv, NEW p \in Procs, Redeliver(p) PROVE IInv'
<1> DEFINE s == [req[p] EXCEPT !.tainted = TRUE]
<1> DEFINE c == req[p].cmd
<1>1. /\ req' = [req EXCEPT ![p] = s] /\ cmds' = Append(cmds, c)
      /\ Len(cmds) + Len(replies) < MaxQueue /\ req[p].pc = "wait"
      /\ UNCHANGED <<row, minted, client, role, replies, respCh, lock, dirty>>
  BY DEF Redeliver, dbVars, brokerVars
<1>2. /\ lock' \in Procs /\ dirty' \subseteq Gates
      /\ respCh' \in Seq(Answers) /\ Len(respCh') <= 1
  BY <1>1 DEF IInv, TypeInv, TypeOK, Answers
<1>3. CASE p = Boot
  <2>1. req[p] \in Booting
    BY <1>1, <1>3, Where, IdleKind DEF IInv
  <2>2. s \in Booting /\ s.cmd = c
    BY <2>1 DEF Booting
  <2> HIDE DEF s
  <2>3. c \in Commands /\ c.token <= minted /\ c.gate = NoGate /\ s # Idle /\ req[p] # Idle /\ s.cmd.token <= minted
    BY <2>1, <2>2, BootingKind, Where DEF IInv
  <2> HIDE DEF c
  <2>4. /\ cmds' \in Seq(Commands) /\ \A i \in 1 .. Len(cmds') : cmds'[i].token <= minted
        /\ replies' \in Seq(Answers) /\ Len(cmds') + Len(replies') <= MaxQueue
        /\ \A i \in 1 .. Len(cmds') : cmds'[i] = c \/ \E j \in 1 .. Len(cmds) : cmds[j] = cmds'[i]
    BY <1>1, <2>3, Publishes DEF IInv
  <2>5. TypeInv' /\ \A q \in Procs \ {p} : req'[q] = req[q]
    BY <1>1, <1>2, <1>3, <2>2, <2>3, <2>4, MoveType DEF IInv
  <2>6. \A r \in Requests : req'[r] = req[r]
    BY <1>3, <2>5, Processes
  <2>7. lock' = Boot
    BY <1>1, <1>3, <2>3 DEF IInv, LockInv, Started
  <2>8. \A i \in 1 .. Len(cmds') : cmds'[i].gate \in Gates =>
          \E j \in 1 .. Len(cmds) : cmds[j].gate = cmds'[i].gate
    BY <2>3, <2>4, Constants
  <2> QED BY <1>1, <1>3, <2>3, <2>5, <2>6, <2>7, <2>8, BootInv
<1>4. CASE p \in Requests
  <2>1. req[p] \in Syncing /\ req[p] # Idle /\ p # Boot
    BY <1>1, <1>4, Where, SyncingKind, Processes DEF IInv
  <2>2. s \in Syncing /\ s.cmd = c /\ s.pc = "wait" /\ s.tainted
    BY <1>1, <2>1 DEF Syncing
  <2>3. c \in Commands /\ c.token <= minted /\ s.cmd.token <= minted
    BY <2>1, <2>2, SyncingKind, GateCommand DEF IInv, TypeInv, ReqInv
  <2>4. lock = p
    BY <1>1, <1>4 DEF IInv, LockInv, Exchange
  <2>t. PICK t : t = s
    OBVIOUS
  <2> HIDE DEF s, c
  <2>5. /\ cmds' \in Seq(Commands) /\ \A i \in 1 .. Len(cmds') : cmds'[i].token <= minted
        /\ replies' \in Seq(Answers) /\ Len(cmds') + Len(replies') <= MaxQueue
        /\ \A i \in 1 .. Len(cmds') : cmds'[i] = c \/ \E j \in 1 .. Len(cmds) : cmds[j] = cmds'[i]
    BY <1>1, <2>3, Publishes DEF IInv
  <2>6. TypeInv' /\ req'[p] = t /\ \A q \in Procs \ {p} : req'[q] = req[q]
    BY <1>1, <1>2, <2>1, <2>2, <2>3, <2>5, <2>t, MoveType DEF IInv
  <2>8. \A i \in 1 .. Len(cmds') : cmds'[i].gate \in Gates =>
          cmds'[i].gate = t.cmd.gate \/ \E j \in 1 .. Len(cmds) : cmds[j].gate = cmds'[i].gate
    BY <2>2, <2>5, <2>t
  <2>9. t.cmd.gate = req[p].cmd.gate /\ t.cmd.token = req[p].cmd.token /\ t.tainted
    BY <2>2, <2>t DEF c
  <2> QED BY <1>1, <1>4, <2>2, <2>4, <2>6, <2>8, <2>9, <2>t, Continues DEF Exchange
<1> QED BY <1>3, <1>4, Processes

\* A response: an undisturbed request gets the one to its own command.
LEMMA ReceiveStep == ASSUME IInv, NEW p \in Procs, Receive(p) PROVE IInv'
<1> DEFINE x == Head(respCh)
<1>1. /\ req[p].pc = "wait" /\ respCh # <<>> /\ respCh' = <<>> /\ Continue(p, x)
      /\ UNCHANGED <<dbVars, brokerVars, cmds, replies>>
  BY DEF Receive
<1>2. UNCHANGED <<row, minted, client, role>> /\ respCh' \in {respCh, <<>>}
  BY <1>1 DEF dbVars, brokerVars
<1>3. CASE p = Boot
  <2>1. req[Boot] \in Booting /\ req[Boot] # Idle
    BY <1>1, <1>3, Where, IdleKind DEF IInv
  <2>2. req[Boot].cmd.cmd \in {"createRole", "setDefaultACLAccess"}
    BY <2>1, BootingKind
  <2>3. NextCommand(Boot, "setDefaultACLAccess") \/ \E f \in BOOLEAN : Finish(Boot, f)
    BY <1>1, <1>3, <2>2 DEF Continue
  <2> QED BY <1>1, <1>2, <2>1, <2>3, BootMoves
<1>4. CASE p \in Requests
  <2>1. req[p] \in Syncing /\ p # Boot /\ req[p].pc \in Exchange
    BY <1>1, <1>4, Where, Processes DEF IInv, Exchange
  <2>2. /\ req[p].cmd.cmd \in {"createClient", "setClientPassword", "deleteClient"}
        /\ req[p].cmd \in OfGates /\ req[p] # Idle
    BY <2>1, SyncingKind, GateCommand
  <2>3. CASE req[p].cmd.cmd = "createClient" /\ x = "exists"
    <3> DEFINE s == [req[p] EXCEPT !.pc = "send", !.cmd.cmd = "setClientPassword"]
    <3>1. req' = [req EXCEPT ![p] = s] /\ UNCHANGED <<lock, dirty>>
      BY <1>1, <2>3 DEF Continue, NextCommand
    <3>2. req[p].cmd.token \in Tokens /\ req[p].cmd.gate \in Gates
      BY <2>2, <2>3, GateCommand
    <3>3. /\ s.pc = "send" /\ s.tainted = req[p].tainted
          /\ s.cmd = [cmd |-> "setClientPassword", gate |-> req[p].cmd.gate, token |-> req[p].cmd.token]
      <4>1. req[p].cmd \in [cmd: {"createClient", "setClientPassword"}, gate: Gates, token: Tokens]
        BY <2>2, <2>3 DEF OfGates
      <4> QED BY <2>1, <4>1 DEF Syncing
    <3>4. s.cmd \in OfGates
      BY <3>2, <3>3 DEF OfGates
    <3>5. s \in Syncing
      BY <2>1, <3>4 DEF Syncing
    <3>6. s.cmd.gate = req[p].cmd.gate /\ s.cmd.token = req[p].cmd.token
      BY <3>3
    <3>7. s.cmd.token <= minted /\ dirty' \subseteq Gates /\ lock' \in Procs
      BY <2>2, <3>1, <3>6 DEF IInv, TypeInv, TypeOK, ReqInv
    <3>8. lock = p
      BY <1>4, <2>1, Alone
    <3> HIDE DEF s
    <3>t. PICK t : t = s
      OBVIOUS
    <3>9. TypeInv' /\ req'[p] = t /\ \A q \in Procs \ {p} : req'[q] = req[q]
      BY <1>1, <1>2, <2>1, <3>1, <3>5, <3>7, <3>t, MoveType, Queues DEF IInv
    <3>10. \A i \in 1 .. Len(cmds') : cmds'[i].gate \in Gates =>
             cmds'[i].gate = t.cmd.gate \/ \E j \in 1 .. Len(cmds) : cmds[j].gate = cmds'[i].gate
      BY <1>1
    <3> QED BY <1>1, <1>2, <1>4, <3>1, <3>3, <3>5, <3>6, <3>8, <3>9, <3>10, <3>t, Continues DEF Exchange
  <2>4. CASE ~ (req[p].cmd.cmd = "createClient" /\ x = "exists")
    <3> DEFINE failed == (x # "" /\ req[p].cmd.cmd # "deleteClient")
    <3>1. Finish(p, failed) /\ failed \in BOOLEAN
      BY <1>1, <2>2, <2>4 DEF Continue
    <3>2. ASSUME ~ failed, ~ req[p].tainted
          PROVE  cmds = <<>> /\ client[req[p].cmd.gate] = row[req[p].cmd.gate].token
      <4>1. Waiting(req[p].cmd) /\ row[req[p].cmd.gate].token = req[p].cmd.token
        BY <1>1, <1>4, <2>2, <3>2 DEF IInv, ExchangeInv
      <4>2. PICK y \in Answers : Says(req[p].cmd, y) /\ Arrived(y)
        BY <1>1, <4>1 DEF Waiting, Sent, Replied
      <4>3. x = y /\ cmds = <<>>
        BY <4>2 DEF Arrived
      <4>4. req[p].cmd.cmd = "deleteClient" => req[p].cmd.token = 0
        BY <2>2, GateCommand
      <4>5. client[req[p].cmd.gate] = req[p].cmd.token
        BY <2>4, <3>2, <4>2, <4>3, <4>4, Constants DEF Says, Answers
      <4> QED BY <4>1, <4>3, <4>5
    <3> HIDE DEF failed
    <3> QED BY <1>1, <1>2, <1>4, <2>1, <3>1, <3>2, Finishes
  <2> QED BY <2>3, <2>4
<1> QED BY <1>3, <1>4, Processes

\* No response, or no command: the request gives up, its gate is dirty.
LEMMA GiveUpStep ==
  ASSUME IInv, NEW p \in Procs, req[p].pc \in Exchange, GiveUp(p),
         UNCHANGED <<dbVars, brokerVars, cmds, replies>>, respCh' \in {respCh, <<>>}
  PROVE  IInv'
<1>1. CASE p = Boot
  <2>1. req[Boot] # Idle
    BY <1>1, IdleKind DEF Exchange
  <2>2. NextCommand(Boot, "setDefaultACLAccess") \/ \E f \in BOOLEAN : Finish(Boot, f)
    BY <1>1 DEF GiveUp
  <2> QED BY <2>1, <2>2, BootMoves
<1>2. CASE p \in Requests
  <2>1. req[p] \in Syncing
    BY <1>2, Where DEF IInv, Exchange
  <2>2. req[p].cmd.cmd # "createRole"
    BY <2>1, SyncingKind, GateCommand
  <2>3. Finish(p, TRUE)
    BY <2>2 DEF GiveUp
  <2> QED BY <1>2, <2>3, Finishes
<1> QED BY <1>1, <1>2, Processes

LEMMA FailSteps == ASSUME IInv, NEW p \in Procs, Timeout(p) \/ PublishFails(p) PROVE IInv'
<1>1. CASE Timeout(p)
  BY <1>1, GiveUpStep DEF Timeout, netVars, Exchange
<1>2. CASE PublishFails(p)
  BY <1>2, GiveUpStep DEF PublishFails, Exchange
<1> QED BY <1>1, <1>2

-----------------------------------------------------------------------------
(* Steps on the tables *)

\* An operation that stored nothing leaves the gate as it was.
LEMMA SetTokenFailsStep == ASSUME IInv, NEW r \in Requests, SetTokenFails(r) PROVE IInv'
<1>1. req[r].pc = "token" /\ r \in Procs /\ r # Boot /\ req[r] # Idle /\ lock # r
  BY Processes, IdleKind DEF SetTokenFails, IInv, LockInv, Exchange
<1>2. /\ req' = [req EXCEPT ![r] = Idle]
      /\ UNCHANGED <<row, minted, client, role, cmds, replies, respCh, lock, dirty>>
  BY <1>1 DEF SetTokenFails, Finish, dbVars, brokerVars, netVars
<1>3. lock' \in Procs /\ dirty' \subseteq Gates
  BY <1>2 DEF IInv, TypeInv, TypeOK
<1>4. TypeInv' /\ req'[r] = Idle /\ \A q \in Procs \ {r} : req'[q] = req[q]
  BY <1>1, <1>2, <1>3, MoveType, Queues DEF IInv
<1>5. \A q \in Requests \ {r} : req'[q] = req[q]
  BY <1>4, Processes
<1>6. LockInv'
  BY <1>1, <1>2, <1>4, <1>5, IdleKind, Processes DEF IInv, LockInv, Started, Exchange, TypeInv, TypeOK
<1>7. TaintInv'
  BY <1>4, <1>5 DEF IInv, TaintInv
<1>8. ExchangeInv'
  <2>1. \A c \in Commands : Waiting(c) => Waiting(c)'
    BY <1>2 DEF Waiting, Sent, Says, Replied, Arrived
  <2>2. \A q \in Requests : req[q].pc = "wait" => req[q].cmd \in Commands
    BY Where, SyncingKind, GateCommand DEF IInv
  <2> QED BY <1>2, <1>4, <1>5, <2>1, <2>2 DEF IInv, ExchangeInv
<1>9. CommandInv'
  <2>1. \A g \in Gates : Speaks(g) => Speaks(g)'
    BY <1>1, <1>5 DEF Speaks, Exchange
  <2> QED BY <1>2, <2>1 DEF IInv, CommandInv
<1>10. CleanInv'
  <2>1. \A g \in Gates : \A q \in On(g) : q = r \/ (q \in On(g)' /\ req'[q] = req[q])
    BY <1>5 DEF On
  <2> QED BY <1>1, <1>2, <2>1 DEF IInv, CleanInv
<1> QED BY <1>4, <1>6, <1>7, <1>8, <1>9, <1>10 DEF IInv

\* The token is in the table and in the request; the gate is no longer in step.
LEMMA SetTokenStep == ASSUME IInv, NEW r \in Requests, SetToken(r) PROVE IInv'
<1> DEFINE s == [req[r] EXCEPT !.pc = "lock", !.cmd.token = minted']
<1>g. PICK g : g = req[r].cmd.gate
  OBVIOUS
<1>1. /\ req[r].pc = "token" /\ minted < MaxTokens /\ minted' = minted + 1
      /\ row' = [row EXCEPT ![g].token = minted'] /\ req' = [req EXCEPT ![r] = s]
      /\ UNCHANGED <<client, role, cmds, replies, respCh, lock, dirty>>
  BY <1>g DEF SetToken, brokerVars, netVars
<1>2. /\ req[r] \in Issuing /\ r \in Procs /\ r # Boot /\ req[r] # Idle /\ lock # r /\ g \in Gates
      /\ minted \in Nat /\ minted' \in Nat /\ minted <= minted'
  BY <1>1, <1>g, Where, Processes, IssuingKind DEF IInv, LockInv, Exchange
<1>3. minted' \in Tokens /\ minted' \in 0 .. MaxTokens
  BY <1>1, <1>2, Constants DEF Tokens
<1>4. /\ s.pc = "lock" /\ s.tainted = req[r].tainted
      /\ s.cmd = [cmd |-> "createClient", gate |-> g, token |-> minted']
  BY <1>2, <1>g DEF Issuing, Unminted
<1>5. s.cmd \in OfGates
  BY <1>2, <1>3, <1>4 DEF OfGates
<1>6. s \in Syncing
  BY <1>2, <1>5 DEF Syncing, Issuing
<1> HIDE DEF s
<1>7. s.cmd.gate = g /\ s.cmd.token = minted' /\ s # Idle /\ s.cmd.token <= minted'
  <2>1. s.cmd.gate = g /\ s.cmd.token = minted'
    BY <1>4
  <2> QED BY <1>2, <1>6, <2>1, SyncingKind
<1>8. /\ req' \in [Procs -> {Idle} \cup Issuing \cup Syncing \cup Booting]
      /\ req'[r] = s /\ \A q \in Procs \ {r} : req'[q] = req[q]
      /\ req'[Boot] \in {Idle} \cup Booting
      /\ \A q \in Requests : req'[q] \in {Idle} \cup Issuing \cup Syncing
      /\ \A q \in Procs : req'[q] # Idle => req'[q].cmd.token <= minted'
  BY <1>1, <1>2, <1>6, <1>7, Moves DEF IInv
<1>9. \A i \in 1 .. Len(cmds') : cmds'[i].token <= minted'
  <2>1. SUFFICES ASSUME NEW i \in 1 .. Len(cmds) PROVE cmds[i].token <= minted'
    BY <1>1
  <2>2. cmds[i].token \in Nat
    BY InQueue, AnyCommand DEF IInv
  <2>3. cmds[i].token <= minted
    BY DEF IInv, TypeInv, ReqInv
  <2> QED BY <1>2, <2>2, <2>3
<1>10. ReqInv'
  BY <1>8, <1>9 DEF ReqInv
<1>11. /\ row' \in [Gates -> [phase: {"absent", "live", "deleted"}, token: 0 .. minted']]
       /\ row'[g].token = minted' /\ \A h \in Gates \ {g} : row'[h] = row[h]
  <2>1. row \in [Gates -> [phase: {"absent", "live", "deleted"}, token: 0 .. minted']]
    <3>1. \A k \in 0 .. minted : k \in 0 .. minted'
      BY <1>2
    <3>2. row \in [Gates -> [phase: {"absent", "live", "deleted"}, token: 0 .. minted]]
      BY DEF IInv, TypeInv, TypeOK
    <3> QED BY <3>1, <3>2
  <2>2. minted' \in 0 .. minted'
    BY <1>2
  <2> QED BY <1>1, <1>2, <2>1, <2>2
<1>12. client' \in [Gates -> 0 .. minted']
  <2>1. \A k \in 0 .. minted : k \in 0 .. minted'
    BY <1>2
  <2>2. client \in [Gates -> 0 .. minted]
    BY DEF IInv, TypeInv, TypeOK
  <2> QED BY <1>1, <2>1, <2>2
<1>13. TypeInv'
  <2>1. \A q \in Procs : req'[q] = Idle \/ req'[q].pc \in {"token", "lock", "send", "wait"}
    BY <1>8, IssuingKind, SyncingKind, BootingKind
  <2>2. TypeOK'
    BY <1>1, <1>3, <1>11, <1>12, <2>1 DEF IInv, TypeInv, TypeOK
  <2> QED BY <1>10, <2>2 DEF TypeInv
<1>14. \A q \in Requests \ {r} : req'[q] = req[q]
  BY <1>8, Processes
<1>15. LockInv'
  BY <1>1, <1>2, <1>4, <1>7, <1>8, <1>14, Processes DEF IInv, LockInv, Started, Exchange, TypeInv, TypeOK
<1>16. TaintInv'
  BY <1>2, <1>4, <1>7, <1>8, <1>14, <1>g DEF IInv, TaintInv
<1>17. ExchangeInv'
  <2>1. \A c \in Commands : Waiting(c) => Waiting(c)'
    BY <1>1 DEF Waiting, Sent, Says, Replied, Arrived
  <2>2. \A q \in Requests : req[q].pc = "wait" => req[q].cmd \in Commands
    BY Where, SyncingKind, GateCommand DEF IInv
  <2>3. SUFFICES ASSUME NEW q \in Requests, req'[q] # Idle, ~ req'[q].tainted
                 PROVE  /\ req'[q].pc # "token" => row'[req'[q].cmd.gate].token = req'[q].cmd.token
                        /\ req'[q].pc = "wait" => Waiting(req[q].cmd)'
    BY DEF ExchangeInv
  <2>4. CASE q = r
    BY <1>4, <1>7, <1>8, <1>11, <2>4
  <2>5. CASE q # r
    <3>1. req'[q] = req[q]
      BY <1>14, <2>5
    <3>2. req[q].cmd.gate \in Gates \ {g}
      BY <1>2, <1>g, <2>3, <2>5, <3>1, Where DEF IInv, TaintInv
    <3>3. row'[req[q].cmd.gate] = row[req[q].cmd.gate]
      BY <1>11, <3>2
    <3> QED BY <2>1, <2>2, <2>3, <3>1, <3>3 DEF IInv, ExchangeInv
  <2> QED BY <2>4, <2>5
<1>18. CommandInv'
  <2>1. \A h \in Gates : Speaks(h) => Speaks(h)'
    BY <1>1, <1>14 DEF Speaks, Exchange
  <2> QED BY <1>1, <2>1 DEF IInv, CommandInv
<1>19. CleanInv'
  <2>1. \A h \in Gates \ {g} : \A q \in On(h) : q \in On(h)' /\ req'[q] = req[q]
    BY <1>14, <1>g DEF On
  <2>2. r \in On(g)' /\ req'[r].pc # "token"
    BY <1>4, <1>7, <1>8 DEF On
  <2>3. SUFFICES ASSUME NEW h \in Gates \ dirty', \A q \in On(h)' : req'[q].pc = "token"
                 PROVE  client'[h] = row'[h].token
    BY DEF CleanInv
  <2>4. h # g
    BY <2>2, <2>3
  <2>5. client[h] = row[h].token
    BY <1>1, <2>1, <2>3, <2>4 DEF IInv, CleanInv
  <2> QED BY <1>1, <1>11, <2>4, <2>5
<1> QED BY <1>13, <1>15, <1>16, <1>17, <1>18, <1>19 DEF IInv

\* An operation begins: it taints the ones on its gate and is tainted by them.
LEMMA EnterStep ==
  ASSUME IInv, NEW r \in Requests, NEW g \in Gates, NEW pc, NEW cmd, Enter(r, pc, cmd, g),
         (pc = "token" /\ cmd = "createClient") \/ (pc = "lock" /\ cmd = "deleteClient"),
         row' \in [Gates -> [phase: {"absent", "live", "deleted"}, token: 0 .. minted]],
         \A h \in Gates \ {g} : row'[h] = row[h],
         row'[g].token = IF pc = "token" THEN row[g].token ELSE NoToken,
         UNCHANGED <<minted, client, role, cmds, replies, respCh, lock, dirty>>
  PROVE  IInv'
<1>t. PICK t : t = Op(pc, cmd, g, NoToken, ~ Quiet(g))
  OBVIOUS
<1>1. /\ req[Boot] = Idle /\ req[r] = Idle /\ r \in Procs /\ r # Boot
      /\ minted \in Nat /\ lock # r /\ Boot \notin On(g)
  BY Where, Processes, IdleKind DEF Enter, Started, IInv, LockInv, Exchange, On
<1>2. /\ t.pc = pc /\ t.cmd.gate = g /\ t.cmd.token = 0 /\ (t.tainted <=> ~ Quiet(g))
      /\ t \in Issuing \cup Syncing /\ t # Idle
  <2> DEFINE c == [cmd |-> cmd, gate |-> g, token |-> NoToken]
  <2>1. PICK b \in BOOLEAN : b = (~ Quiet(g))
    OBVIOUS
  <2>2. t = [pc |-> pc, cmd |-> c, tainted |-> b]
    BY <1>t, <2>1 DEF Op
  <2>3. c.gate = g /\ c.token = 0
    BY Constants
  <2>4. pc = "token" => c \in Unminted
    BY DEF Unminted
  <2>5. pc = "lock" => c \in OfGates
    BY DEF OfGates
  <2> HIDE DEF c
  <2>6. t.pc = pc /\ t.cmd = c /\ t.tainted = b
    BY <2>2
  <2>7. t \in Issuing \cup Syncing
    <3>1. CASE pc = "token"
      BY <2>2, <2>4, <3>1 DEF Issuing
    <3>2. CASE pc = "lock"
      BY <2>2, <2>5, <3>2 DEF Syncing
    <3> QED BY <3>1, <3>2
  <2>8. t # Idle
    BY <2>7, IssuingKind, SyncingKind
  <2> QED BY <2>1, <2>3, <2>6, <2>7, <2>8
<1>3. /\ req'[r] = t
      /\ \A q \in Procs \ {r} : q \notin On(g) => req'[q] = req[q]
      /\ \A q \in On(g) \ {r} : req'[q] = [req[q] EXCEPT !.tainted = TRUE]
  BY <1>1, <1>t DEF Enter, On, Procs
<1>4. ASSUME NEW q \in On(g) \ {r}
      PROVE  /\ req'[q].pc = req[q].pc /\ req'[q].cmd = req[q].cmd /\ req'[q].tainted
             /\ req[q] \in Issuing \cup Syncing /\ req'[q] \in Issuing \cup Syncing /\ req'[q] # Idle
  <2>1. req[q] # Idle /\ q \in Requests
    BY DEF On
  <2>2. CASE req[q] \in Issuing
    <3>1. /\ req'[q].pc = req[q].pc /\ req'[q].cmd = req[q].cmd /\ req'[q].tainted
          /\ req'[q] \in Issuing
      BY <1>3, <2>2 DEF Issuing
    <3> QED BY <2>2, <3>1, IssuingKind
  <2>3. CASE req[q] \in Syncing
    <3>1. /\ req'[q].pc = req[q].pc /\ req'[q].cmd = req[q].cmd /\ req'[q].tainted
          /\ req'[q] \in Syncing
      BY <1>3, <2>3 DEF Syncing
    <3> QED BY <2>3, <3>1, SyncingKind
  <2> QED BY <2>1, <2>2, <2>3 DEF IInv, TypeInv, ReqInv
<1>5. ASSUME NEW q \in Requests \ {r}
      PROVE  /\ req'[q].pc = req[q].pc /\ (req'[q] = Idle <=> req[q] = Idle)
             /\ req'[q] # Idle => req'[q].cmd = req[q].cmd /\ (req[q].tainted => req'[q].tainted)
             /\ req'[q] # Idle /\ req'[q].cmd.gate = g => req'[q].tainted /\ q \in On(g)
             /\ req'[q] \in {Idle} \cup Issuing \cup Syncing
  <2>1. CASE q \in On(g)
    BY <1>4, <2>1 DEF On
  <2>2. CASE q \notin On(g)
    <3>1. req'[q] = req[q]
      BY <1>3, <2>2, Processes
    <3> QED BY <2>2, <3>1 DEF On, IInv, TypeInv, ReqInv
  <2> QED BY <2>1, <2>2
<1>6. req'[Boot] = Idle
  BY <1>1, <1>3, Processes
<1>7. /\ req' \in [Procs -> {Idle} \cup Issuing \cup Syncing \cup Booting]
      /\ \A q \in Requests : req'[q] \in {Idle} \cup Issuing \cup Syncing
  <2>1. \A q \in Requests : req'[q] \in {Idle} \cup Issuing \cup Syncing
    BY <1>2, <1>3, <1>5
  <2>2. \A q \in Procs : req'[q] \in {Idle} \cup Issuing \cup Syncing \cup Booting
    BY <1>6, <2>1, Processes
  <2>3. req' = [q \in Procs |-> req'[q]]
    BY DEF Enter
  <2> QED BY <2>1, <2>2, <2>3
<1>8. \A q \in Procs : req'[q] # Idle => req'[q].cmd.token <= minted'
  <2>1. t.cmd.token <= minted'
    BY <1>1, <1>2
  <2>2. \A q \in Requests \ {r} : req'[q] # Idle => req'[q].cmd.token <= minted'
    BY <1>5, Processes DEF IInv, TypeInv, ReqInv
  <2> QED BY <1>3, <1>6, <2>1, <2>2, Processes
<1>9. TypeInv'
  <2>1. ReqInv'
    BY <1>6, <1>7, <1>8 DEF IInv, TypeInv, ReqInv
  <2>2. \A q \in Procs : req'[q] = Idle \/ req'[q].pc \in {"token", "lock", "send", "wait"}
    BY <1>7, IssuingKind, SyncingKind, BootingKind
  <2>3. TypeOK'
    BY <2>2 DEF IInv, TypeInv, TypeOK
  <2> QED BY <2>1, <2>3 DEF TypeInv
<1>10. LockInv'
  BY <1>1, <1>2, <1>3, <1>5, <1>6, Processes DEF IInv, LockInv, Started, Exchange, TypeInv, TypeOK
<1>11. \A q \in Requests \ {r} : req'[q] # Idle /\ req'[q].cmd.gate = g => req'[q].tainted /\ t.tainted
  BY <1>2, <1>5 DEF Quiet
<1>12. TaintInv'
  BY <1>2, <1>3, <1>5, <1>11 DEF IInv, TaintInv
<1>13. ExchangeInv'
  <2>1. \A c \in Commands : Waiting(c) => Waiting(c)'
    BY DEF Waiting, Sent, Says, Replied, Arrived
  <2>2. \A q \in Requests : req[q].pc = "wait" => req[q].cmd \in Commands
    BY Where, SyncingKind, GateCommand DEF IInv
  <2>3. SUFFICES ASSUME NEW q \in Requests, req'[q] # Idle, ~ req'[q].tainted
                 PROVE  /\ req'[q].pc # "token" => row'[req'[q].cmd.gate].token = req'[q].cmd.token
                        /\ req'[q].pc = "wait" => Waiting(req[q].cmd)'
    BY DEF ExchangeInv
  <2>4. CASE q = r
    BY <1>2, <1>3, <2>4, Constants
  <2>5. CASE q # r
    <3>1. req'[q].cmd = req[q].cmd /\ req'[q].pc = req[q].pc /\ ~ req[q].tainted /\ req[q] # Idle
      BY <1>5, <2>3, <2>5
    <3>2. req[q].cmd.gate \in Gates \ {g}
      BY <1>11, <2>3, <2>5, <3>1, Where DEF IInv
    <3>3. row'[req[q].cmd.gate] = row[req[q].cmd.gate]
      BY <3>2
    <3> QED BY <2>1, <2>2, <2>3, <3>1, <3>3 DEF IInv, ExchangeInv
  <2> QED BY <2>4, <2>5
<1>14. CommandInv'
  <2>1. \A h \in Gates : Speaks(h) => Speaks(h)'
    <3>1. SUFFICES ASSUME NEW h \in Gates, NEW q \in Requests, req[q].pc \in Exchange, req[q].cmd.gate = h
                   PROVE  req'[q].pc \in Exchange /\ req'[q].cmd.gate = h
      BY DEF Speaks
    <3>2. q # r /\ req[q] # Idle
      BY <1>1, <3>1, IdleKind DEF Exchange
    <3> QED BY <1>5, <3>1, <3>2
  <2> QED BY <2>1 DEF IInv, CommandInv
<1>15. CleanInv'
  <2>1. SUFFICES ASSUME NEW h \in Gates \ dirty', \A q \in On(h)' : req'[q].pc = "token"
                 PROVE  client'[h] = row'[h].token
    BY DEF CleanInv
  <2>2. r \in On(g)'
    BY <1>2, <1>3 DEF On
  <2>3. row'[h].token = row[h].token
    BY <1>2, <1>3, <2>1, <2>2
  <2>4. \A q \in On(h) : q \in On(h)' /\ req'[q].pc = req[q].pc
    BY <1>1, <1>5 DEF On
  <2> QED BY <2>1, <2>3, <2>4 DEF IInv, CleanInv
<1> QED BY <1>9, <1>10, <1>12, <1>13, <1>14, <1>15 DEF IInv

LEMMA StartStep == ASSUME IInv, NEW r \in Requests, Start(r) PROVE IInv'
<1>1. PICK g \in Gates : Create(r, g) \/ RotateToken(r, g) \/ Delete(r, g)
  BY DEF Start
<1>2. /\ row \in [Gates -> [phase: {"absent", "live", "deleted"}, token: 0 .. minted]]
      /\ NoToken \in 0 .. minted
  <2>1. minted \in Nat
    BY Where DEF IInv
  <2>2. NoToken \in 0 .. minted
    BY <2>1, Constants
  <2> QED BY <2>2 DEF IInv, TypeInv, TypeOK
<1>3. CASE Create(r, g)
  <2>1. /\ row' \in [Gates -> [phase: {"absent", "live", "deleted"}, token: 0 .. minted]]
        /\ row'[g].token = row[g].token /\ \A h \in Gates \ {g} : row'[h] = row[h]
    BY <1>2, <1>3 DEF Create
  <2> QED BY <1>3, <2>1, EnterStep DEF Create, brokerVars, netVars
<1>4. CASE RotateToken(r, g)
  BY <1>2, <1>4, EnterStep DEF RotateToken, dbVars, brokerVars, netVars
<1>5. CASE Delete(r, g)
  <2>1. /\ row' \in [Gates -> [phase: {"absent", "live", "deleted"}, token: 0 .. minted]]
        /\ row'[g].token = NoToken /\ \A h \in Gates \ {g} : row'[h] = row[h]
    BY <1>2, <1>5 DEF Delete
  <2> QED BY <1>5, <2>1, EnterStep DEF Delete, brokerVars, netVars
<1> QED BY <1>1, <1>3, <1>4, <1>5

-----------------------------------------------------------------------------
(* Steps of the broker, the subscriber and the server *)

\* A step of the network leaves tables, requests and mutex alone.
LEMMA NetInv ==
  ASSUME IInv, UNCHANGED <<row, minted, lock, req, dirty>>, TypeOK',
         \A i \in 1 .. Len(cmds') : \E j \in 1 .. Len(cmds) : cmds'[i] = cmds[j],
         \A r \in Requests : req[r].pc = "wait" /\ ~ req[r].tainted => Waiting(req[r].cmd)',
         \A g \in Gates : client'[g] = client[g] \/ g \in dirty \/ Speaks(g)
  PROVE  IInv'
<1>1. ReqInv'
  BY DEF IInv, TypeInv, ReqInv
<1>2. LockInv' /\ TaintInv'
  BY DEF IInv, LockInv, TaintInv, Started
<1>3. ExchangeInv'
  <2>1. SUFFICES ASSUME NEW r \in Requests, req'[r] # Idle, ~ req'[r].tainted
                 PROVE  /\ req'[r].pc # "token" => row'[req'[r].cmd.gate].token = req'[r].cmd.token
                        /\ req'[r].pc = "wait" => Waiting(req[r].cmd)'
    BY DEF ExchangeInv
  <2> QED BY <2>1 DEF IInv, ExchangeInv
<1>4. \A g : Speaks(g)' <=> Speaks(g)
  BY DEF Speaks
<1>5. CommandInv'
  BY <1>4 DEF IInv, CommandInv
<1>6. CleanInv'
  <2>1. SUFFICES ASSUME NEW g \in Gates \ dirty, \A r \in On(g) : req[r].pc = "token"
                 PROVE  client'[g] = row[g].token
    BY DEF CleanInv, On
  <2>2. ~ Speaks(g)
    <3>1. SUFFICES ASSUME NEW r \in Requests, req[r].pc \in Exchange, req[r].cmd.gate = g PROVE FALSE
      BY DEF Speaks
    <3>2. r \in On(g)
      BY <3>1, IdleKind DEF On, Exchange
    <3> QED BY <2>1, <3>1, <3>2 DEF Exchange
  <2> QED BY <2>1, <2>2 DEF IInv, CleanInv
<1> QED BY <1>1, <1>2, <1>3, <1>5, <1>6 DEF IInv, TypeInv

LEMMA OnResponseStep == ASSUME IInv, OnResponse PROVE IInv'
<1>1. /\ replies # <<>> /\ replies' = Tail(replies)
      /\ respCh' = IF respCh = <<>> THEN <<Head(replies)>> ELSE respCh
      /\ UNCHANGED <<row, minted, client, role, cmds, lock, req, dirty>>
  BY DEF OnResponse, dbVars, brokerVars
<1>2. /\ replies \in Seq(Answers) /\ respCh \in Seq(Answers) /\ Len(respCh) <= 1
      /\ cmds \in Seq(Commands) /\ Len(cmds) + Len(replies) <= MaxQueue
  BY DEF IInv, TypeInv, TypeOK, Answers
<1>3. replies' \in Seq(Answers) /\ Len(replies') = Len(replies) - 1 /\ Head(replies) \in Answers
  BY <1>1, <1>2
<1>4. respCh' \in Seq(Answers) /\ Len(respCh') <= 1
  BY <1>1, <1>2, <1>3
<1>5. Len(cmds') + Len(replies') <= MaxQueue
  BY <1>1, <1>2, <1>3, Constants
<1>6. TypeOK'
  BY <1>1, <1>3, <1>4, <1>5 DEF IInv, TypeInv, TypeOK, Answers
<1>7. ASSUME NEW r \in Requests, req[r].pc = "wait", ~ req[r].tainted PROVE Waiting(req[r].cmd)'
  <2>1. Waiting(req[r].cmd)
    BY <1>7, IdleKind DEF IInv, ExchangeInv
  <2>2. PICK x \in Answers : Says(req[r].cmd, x) /\ Replied(x)
    BY <1>1, <2>1 DEF Waiting, Sent, Arrived
  <2>3. Arrived(x)'
    BY <1>1, <2>2 DEF Replied, Arrived
  <2>4. Says(req[r].cmd, x)'
    BY <1>1, <2>2 DEF Says
  <2> QED BY <2>3, <2>4 DEF Waiting
<1>8. \A i \in 1 .. Len(cmds') : \E j \in 1 .. Len(cmds) : cmds'[i] = cmds[j]
  BY <1>1
<1> QED BY <1>1, <1>6, <1>7, <1>8, NetInv

\* The response to a request's command, at the moment it is executed.
LEMMA Executed ==
  ASSUME TypeInv, NEW c \in OfGates, c.token <= minted,
         client' = IF Response(c) = "" /\ c.gate \in Gates
                   THEN [client EXCEPT ![c.gate] = c.token] ELSE client
  PROVE  /\ Response(c) \in Answers
         /\ Response(c) = "" => client'[c.gate] = c.token
         /\ Response(c) = "not found" => client'[c.gate] = NoToken
         /\ Response(c) = "exists" => c.cmd = "createClient"
<1>1. /\ c.cmd \in {"createClient", "setClientPassword", "deleteClient"} /\ c.gate \in Gates
      /\ client \in [Gates -> 0 .. minted]
  BY GateCommand DEF TypeInv, TypeOK
<1>2. /\ c.cmd = "createClient" => Response(c) = IF client[c.gate] # NoToken THEN "exists" ELSE ""
      /\ c.cmd # "createClient" => Response(c) = IF client[c.gate] = NoToken THEN "not found" ELSE ""
  BY <1>1 DEF Response
<1>3. Response(c) \in Answers
  BY <1>2 DEF Answers
<1>4. Response(c) = "" => client'[c.gate] = c.token
  BY <1>1
<1>5. Response(c) = "not found" => client[c.gate] = NoToken /\ client' = client
  BY <1>2
<1>6. Response(c) = "exists" => c.cmd = "createClient"
  BY <1>2
<1> QED BY <1>3, <1>4, <1>5, <1>6

LEMMA ExecuteStep == ASSUME IInv, Execute PROVE IInv'
<1>c. PICK c : c = Head(cmds)
  OBVIOUS
<1>1. /\ cmds # <<>> /\ cmds' = Tail(cmds) /\ replies' = Append(replies, Response(c))
      /\ role' = (role \/ c.cmd = "createRole")
      /\ client' = IF Response(c) = "" /\ c.gate \in Gates
                   THEN [client EXCEPT ![c.gate] = c.token] ELSE client
      /\ UNCHANGED <<row, minted, respCh, lock, req, dirty>>
  BY <1>c DEF Execute, dbVars
<1>x. PICK x : x = Response(c)
  OBVIOUS
<1>q. cmds # <<>> /\ cmds' = Tail(cmds) /\ replies' = Append(replies, x)
  BY <1>1, <1>x
<1>2. /\ cmds \in Seq(Commands) /\ replies \in Seq(Answers) /\ Len(cmds) + Len(replies) <= MaxQueue
      /\ client \in [Gates -> 0 .. minted]
  BY DEF IInv, TypeInv, TypeOK, Answers
<1>3. c = cmds[1] /\ 1 \in 1 .. Len(cmds) /\ c \in Commands
  BY <1>2, <1>c, <1>q
<1>4. c.token \in Nat /\ c.token <= minted /\ minted \in Nat
  <2>1. c.token <= minted
    BY <1>3 DEF IInv, TypeInv, ReqInv
  <2> QED BY <1>3, <2>1, AnyCommand, Where DEF IInv
<1>5. x \in Answers
  BY <1>x DEF Response, Answers
<1>6. client' \in [Gates -> 0 .. minted]
  <2>1. c.token \in 0 .. minted
    BY <1>4
  <2> QED BY <1>1, <1>2, <2>1
<1>7. /\ cmds' \in Seq(Commands) /\ Len(cmds') = Len(cmds) - 1
      /\ \A i \in 1 .. Len(cmds') : cmds'[i] = cmds[i + 1] /\ i + 1 \in 1 .. Len(cmds)
  BY <1>2, <1>q
<1>8. replies' \in Seq(Answers) /\ Len(replies') = Len(replies) + 1
  BY <1>2, <1>5, <1>q
<1>9. Len(cmds') + Len(replies') <= MaxQueue
  BY <1>2, <1>7, <1>8, Constants
<1>r. role' \in BOOLEAN
  BY <1>1
<1>10. TypeOK'
  BY <1>1, <1>6, <1>7, <1>8, <1>9, <1>r DEF IInv, TypeInv, TypeOK, Answers
<1>11. ASSUME NEW r \in Requests, req[r].pc = "wait", ~ req[r].tainted PROVE Waiting(req[r].cmd)'
  <2>1. Waiting(req[r].cmd)
    BY <1>11, IdleKind DEF IInv, ExchangeInv
  <2>2. Sent(req[r].cmd)
    BY <1>q, <2>1 DEF Waiting, Replied, Arrived
  <2>3. c = req[r].cmd /\ cmds' = <<>> /\ replies' = <<x>>
    BY <1>c, <1>q, <2>2 DEF Sent
  <2>4. c \in OfGates
    BY <1>11, <2>3, Where, SyncingKind DEF IInv
  <2>5. /\ x = "" => client'[c.gate] = c.token
        /\ x = "not found" => client'[c.gate] = NoToken
        /\ x = "exists" => c.cmd = "createClient"
    BY <1>1, <1>4, <1>x, <2>4, Executed DEF IInv
  <2>6. Says(c, x)'
    BY <2>5 DEF Says
  <2>7. respCh' = <<>>
    BY <1>1, <2>2 DEF Sent
  <2>8. Replied(x)'
    BY <2>3, <2>7 DEF Replied
  <2>9. Waiting(c)'
    BY <1>5, <2>6, <2>8 DEF Waiting
  <2>10. req'[r].cmd = c
    BY <1>1, <2>3
  <2> QED BY <2>9, <2>10
<1>12. \A g \in Gates : client'[g] = client[g] \/ g \in dirty \/ Speaks(g)
  <2>1. c.gate \in Gates => c.gate \in dirty \/ Speaks(c.gate)
    BY <1>3 DEF IInv, CommandInv
  <2>2. \A g \in Gates : g # c.gate => client'[g] = client[g]
    BY <1>1, <1>2
  <2> QED BY <2>1, <2>2
<1>13. \A i \in 1 .. Len(cmds') : \E j \in 1 .. Len(cmds) : cmds'[i] = cmds[j]
  BY <1>7
<1> QED BY <1>1, <1>10, <1>11, <1>12, <1>13, NetInv

\* The gates of the requests that are lost are dirty.
LEMMA RestartStep == ASSUME IInv, Restart PROVE IInv'
<1>1. Op("send", "createRole", NoGate, NoToken, FALSE) \in Booting
  BY DEF Op, Booting, OfBoot, Exchange
<1>2. /\ req'[Boot] = Op("send", "createRole", NoGate, NoToken, FALSE)
      /\ \A r \in Requests : req'[r] = Idle
      /\ req' \in [Procs -> {Idle} \cup Issuing \cup Syncing \cup Booting]
  BY <1>1, Processes DEF Restart
<1>3. /\ dirty' = dirty \cup {g \in Gates : ~ Quiet(g)} /\ lock' = Boot /\ respCh' = <<>>
      /\ UNCHANGED <<row, minted, client, role, cmds, replies>>
  BY DEF Restart, dbVars, brokerVars
<1>4. /\ \A p \in Procs : req'[p] = Idle \/ req'[p].pc \in {"token", "lock", "send", "wait"}
      /\ \A p \in Procs : req'[p] # Idle => req'[p].cmd.token = 0
  <2>1. req'[Boot].pc \in {"send", "wait"} /\ req'[Boot].cmd.token = 0
    BY <1>1, <1>2, BootingKind
  <2> QED BY <1>2, <2>1, Processes
<1>5. TypeInv'
  <2>1. dirty' \subseteq Gates /\ lock' \in Procs /\ minted \in Nat
    BY <1>3, Processes, Where DEF IInv, TypeInv, TypeOK
  <2>2. respCh' \in Seq({"", "exists", "not found"}) /\ Len(respCh') <= 1
    BY <1>3
  <2>3. TypeOK'
    BY <1>3, <1>4, <2>1, <2>2 DEF IInv, TypeInv, TypeOK
  <2>4. \A p \in Procs : req'[p] # Idle => req'[p].cmd.token <= minted'
    BY <1>3, <1>4, <2>1
  <2>5. ReqInv'
    BY <1>1, <1>2, <1>3, <2>4 DEF IInv, TypeInv, ReqInv
  <2> QED BY <2>3, <2>5 DEF TypeInv
<1>6. LockInv'
  BY <1>2, <1>3, IdleKind DEF LockInv, Exchange
<1>7. TaintInv' /\ ExchangeInv'
  BY <1>2 DEF TaintInv, ExchangeInv
<1>8. CommandInv'
  <2>1. \A g \in Gates : Speaks(g) => ~ Quiet(g)
    <3>1. SUFFICES ASSUME NEW g \in Gates, NEW r \in Requests, req[r].pc \in Exchange, req[r].cmd.gate = g
                   PROVE  r \in On(g)
      BY DEF Speaks, Quiet
    <3> QED BY <3>1, IdleKind DEF On, Exchange
  <2> QED BY <1>3, <2>1 DEF IInv, CommandInv
<1>9. CleanInv'
  <2>1. SUFFICES ASSUME NEW g \in Gates \ dirty' PROVE client[g] = row[g].token
    BY <1>3 DEF CleanInv
  <2>2. g \notin dirty /\ On(g) = {}
    BY <1>3, <2>1 DEF Quiet
  <2> QED BY <2>2 DEF IInv, CleanInv
<1> QED BY <1>5, <1>6, <1>7, <1>8, <1>9 DEF IInv

-----------------------------------------------------------------------------
(* The theorems *)

LEMMA StutterInv == ASSUME IInv, UNCHANGED vars PROVE IInv'
<1> USE DEF vars, dbVars, brokerVars, netVars
<1>1. TypeOK'
  BY DEF IInv, TypeInv, TypeOK
<1>2. ASSUME NEW r \in Requests, req[r].pc = "wait", ~ req[r].tainted PROVE Waiting(req[r].cmd)'
  <2>1. Waiting(req[r].cmd)
    BY <1>2, IdleKind DEF IInv, ExchangeInv
  <2> QED BY <2>1 DEF Waiting, Sent, Says, Replied, Arrived
<1> QED BY <1>1, <1>2, NetInv

LEMMA NextInv == ASSUME IInv, Next PROVE IInv'
<1>1. ASSUME NEW p \in Procs, SetToken(p) \/ SetTokenFails(p) \/ Lock(p) PROVE IInv'
  <2>1. req[p].pc \in {"token", "lock"}
    BY <1>1 DEF SetToken, SetTokenFails, Lock
  <2>2. p # Boot
    BY <2>1, Where, IdleKind, BootingKind DEF IInv
  <2>3. p \in Requests
    BY <2>2, Processes
  <2> QED BY <1>1, <2>3, SetTokenStep, SetTokenFailsStep, LockStep
<1>2. ASSUME NEW p \in Procs, Work(p) PROVE IInv'
  BY <1>1, <1>2, SendStep, RedeliverStep, ReceiveStep, FailSteps DEF Work
<1> QED BY <1>2, StartStep, OnResponseStep, ExecuteStep, RestartStep DEF Next

LEMMA Invariance == Spec => []IInv
<1>1. IInv /\ [Next]_vars => IInv'
  BY NextInv, StutterInv
<1> QED BY <1>1, InitInv, PTL DEF Spec

\* Nothing but issued tokens gets into the tables, the requests, the commands
\* and the broker, and at most one response waits in the manager's channel.
THEOREM TypeCorrect == Spec => []TypeOK
<1>1. IInv => TypeOK
  BY DEF IInv, TypeInv
<1> QED BY <1>1, Invariance, PTL

\* After an undisturbed Create, RotateToken or Delete the broker has the
\* password of the gates table: SyncCredentials and RemoveCredentials never
\* take the response to another command for their own.
THEOREM CleanGatesSynced == Spec => []CleanIsSynced
<1>1. IInv => CleanIsSynced
  BY DEF IInv, CleanInv, CleanIsSynced, Quiet
<1> QED BY <1>1, Invariance, PTL
=============================================================================
