------------------------------ MODULE PinAccess ------------------------------
(***************************************************************************)
(* Public access to a gate by code: /api/public/unlock and                 *)
(* /api/public/open, with the attempt counters and the use counters in     *)
(* Redis, while a gate manager creates, edits and deletes codes.           *)
(*                                                                         *)
(* A request is a process: it passes the rate limiter, looks the code up   *)
(* in the newest page of the gate's codes, clears the attempts of its IP,  *)
(* pays for the use (open only), stores a session (open only) and triggers *)
(* the gate.  Every one of these is a round trip to Redis or PostgreSQL,   *)
(* and requests and managers interleave between them.                      *)
(***************************************************************************)
EXTENDS Integers, Sequences, FiniteSets

CONSTANTS
  Gates, IPs, Requests,
  Pins,             \* ids of rows of gate_access_codes (uuids: never reused)
  Codes,            \* what people type
  Quotas,           \* values of metadata.max_uses; 0 is absent or not positive
  MaxAttempts,      \* attempts per gate and IP in a window
  MaxGateAttempts,  \* attempts per gate in a window
  Window,           \* pinRateLimitTTL
  MaxPageLimit,     \* model.MaxPageLimit
  NoPin             \* not a pin

ASSUME PinAssumption ==
  /\ MaxAttempts \in Nat \ {0} /\ MaxGateAttempts \in Nat \ {0}
  /\ Window \in Nat \ {0} /\ MaxPageLimit \in Nat \ {0}
  /\ Quotas \subseteq Nat /\ Quotas # {}
  /\ NoPin \notin Pins

VARIABLES
  codes,      \* the gate_access_codes of each gate, newest first
  used,       \* pin ids already given out
  dropping,   \* deleted pins whose use counter Delete still has to drop
  ipCount,    \* Redis rl:unlock:<gate>:<ip>
  gateCount,  \* Redis rl:unlock:gate:<gate>
  uses,       \* Redis pin:uses:<pin>
  req,        \* where each request is
  tries,      \* (observer) attempts let through in the gate's current window
  granted     \* (observer) uses paid for since the pin was created

counters  == <<ipCount, gateCount>>
observers == <<tries, granted>>
vars      == <<codes, used, dropping, counters, uses, req, observers>>

-----------------------------------------------------------------------------
(* Rows, counters and requests *)

PinRow == [id: Pins, code: Codes, quota: Quotas, restricted: BOOLEAN]

\* The key does not exist: no attempts, no expiry.
Absent == [n |-> 0, ttl |-> 0]

\* A counter is only compared with its limit, so it stops one above it.
Cap(limit) == limit + 1
Counter(limit) == {Absent} \cup [n: 1 .. Cap(limit), ttl: 1 .. Window]

Idle == [pc |-> "idle"]

Busy ==
  [pc: {"counted", "matched", "admitted", "granted", "issued"},
   kind: {"unlock", "open"}, gate: Gates, ip: IPs, code: Codes,
   pin: Pins \cup {NoPin}, quota: Quotas \cup {0}]

Rows(g) == {codes[g][i] : i \in DOMAIN codes[g]}
Live    == UNION {{row.id : row \in Rows(g)} : g \in Gates}

TypeOK ==
  /\ codes \in [Gates -> Seq(PinRow)]
  /\ used \subseteq Pins /\ Live \subseteq used
  /\ dropping \subseteq used \ Live
  /\ ipCount \in [Gates -> [IPs -> Counter(MaxAttempts)]]
  /\ gateCount \in [Gates -> Counter(MaxGateAttempts)]
  /\ uses \in [Pins -> Nat] /\ granted \in [Pins -> Nat]
  /\ \A p \in Pins : \E q \in Quotas \cup {0} : uses[p] <= q
  /\ req \in [Requests -> {Idle} \cup Busy]
  /\ \A r \in Requests : req[r].pc \notin {"idle", "counted"} => req[r].pin \in used
  /\ tries \in [Gates -> Nat]

Init ==
  /\ codes = [g \in Gates |-> <<>>]
  /\ used = {} /\ dropping = {}
  /\ ipCount = [g \in Gates |-> [ip \in IPs |-> Absent]]
  /\ gateCount = [g \in Gates |-> Absent]
  /\ uses = [p \in Pins |-> 0]
  /\ req = [r \in Requests |-> Idle]
  /\ tries = [g \in Gates |-> 0]
  /\ granted = [p \in Pins |-> 0]

-----------------------------------------------------------------------------
(* Management of the codes *)

\* Nothing stops two codes of a gate from being equal.
Create(g, p, row) ==
  /\ p \notin used /\ row.id = p
  /\ codes' = [codes EXCEPT ![g] = <<row>> \o @]
  /\ used' = used \cup {p}
  /\ UNCHANGED <<dropping, counters, uses, req, observers>>

\* Metadata and schedule of a row change in place.
Update(g, i, quota, restricted) ==
  /\ i \in DOMAIN codes[g]
  /\ codes' = [codes EXCEPT ![g][i].quota = quota, ![g][i].restricted = restricted]
  /\ UNCHANGED <<used, dropping, counters, uses, req, observers>>

Without(s, i) == [j \in 1 .. Len(s) - 1 |-> IF j < i THEN s[j] ELSE s[j + 1]]

Delete(g, i) ==
  /\ i \in DOMAIN codes[g]
  /\ codes' = [codes EXCEPT ![g] = Without(@, i)]
  /\ dropping' = dropping \cup {codes[g][i].id}
  /\ UNCHANGED <<used, counters, uses, req, observers>>

\* The second half of Delete; its error is not looked at.
DropUses(p) ==
  /\ p \in dropping
  /\ dropping' = dropping \ {p}
  /\ uses' \in {uses, [uses EXCEPT ![p] = 0]}
  /\ UNCHANGED <<codes, used, counters, req, observers>>

-----------------------------------------------------------------------------
(* The rate limiter of validatePIN *)

\* (mutant: EXPIRE instead of EXPIRE NX)
Incr_Expire(c, limit) ==
  [n |-> IF c.n < Cap(limit) THEN c.n + 1 ELSE c.n, ttl |-> Window]

\* (mutant: the counter never expires)
Incr_NoExpire(c, limit) ==
  [n |-> IF c.n < Cap(limit) THEN c.n + 1 ELSE c.n, ttl |-> c.ttl]

\* INCR; EXPIRE NX: the window starts with its first attempt.
Incr(c, limit) ==
  [n |-> IF c.n < Cap(limit) THEN c.n + 1 ELSE c.n,
   ttl |-> IF c = Absent THEN Window ELSE c.ttl]

CountAttempt(g, ip) ==
  /\ ipCount' = [ipCount EXCEPT ![g][ip] = Incr(@, MaxAttempts)]
  /\ gateCount' = [gateCount EXCEPT ![g] = Incr(@, MaxGateAttempts)]

Limited(g, ip) ==
  ipCount'[g][ip].n > MaxAttempts \/ gateCount'[g].n > MaxGateAttempts

Attempt(r, kind, g, ip, code) ==
  /\ req[r].pc = "idle"
  /\ CountAttempt(g, ip)
  /\ ~Limited(g, ip)
  /\ req' = [req EXCEPT ![r] =
       [pc |-> "counted", kind |-> kind, gate |-> g, ip |-> ip, code |-> code,
        pin |-> NoPin, quota |-> 0]]
  /\ tries' = [tries EXCEPT ![g] = @ + 1]
  /\ UNCHANGED <<codes, used, dropping, uses, granted>>

\* Over a limit, or the reply of Redis is lost: the request is denied.
AttemptDenied(r, g, ip) ==
  /\ req[r].pc = "idle"
  /\ CountAttempt(g, ip)
  /\ UNCHANGED <<codes, used, dropping, uses, req, observers>>

-----------------------------------------------------------------------------
(* The rest of validatePIN *)

Page(g) == 1 .. (IF Len(codes[g]) < MaxPageLimit THEN Len(codes[g]) ELSE MaxPageLimit)
Hits(g, code) == {i \in Page(g) : codes[g][i].code = code}
FirstHit(g, code) == {i \in Hits(g, code) : \A j \in Hits(g, code) : i <= j}

Match(r) ==
  /\ req[r].pc = "counted"
  /\ \E i \in FirstHit(req[r].gate, req[r].code) :
       req' = [req EXCEPT ![r].pc = "matched",
                          ![r].pin = codes[req[r].gate][i].id,
                          ![r].quota = codes[req[r].gate][i].quota]
  /\ UNCHANGED <<codes, used, dropping, counters, uses, observers>>

\* No code of the page matches, or the first match is restricted (expiry date,
\* schedule) and the clock is outside.
Reject(r) ==
  /\ req[r].pc = "counted"
  /\ \A i \in FirstHit(req[r].gate, req[r].code) : codes[req[r].gate][i].restricted
  /\ req' = [req EXCEPT ![r] = Idle]
  /\ UNCHANGED <<codes, used, dropping, counters, uses, observers>>

ListFails(r) ==
  /\ req[r].pc = "counted"
  /\ req' = [req EXCEPT ![r] = Idle]
  /\ UNCHANGED <<codes, used, dropping, counters, uses, observers>>

\* (mutant: a success forgives the attempts of everyone)
ClearAttempts_Gate(r) ==
  /\ req[r].pc = "matched"
  /\ ipCount' = [ipCount EXCEPT ![req[r].gate][req[r].ip] = Absent]
  /\ gateCount' = [gateCount EXCEPT ![req[r].gate] = Absent]
  /\ req' = [req EXCEPT ![r].pc = "admitted"]
  /\ UNCHANGED <<codes, used, dropping, uses, observers>>

\* A success forgives the attempts of its IP, never those of the gate.
ClearAttempts(r) ==
  /\ req[r].pc = "matched"
  /\ ipCount' \in {ipCount, [ipCount EXCEPT ![req[r].gate][req[r].ip] = Absent]}
  /\ req' = [req EXCEPT ![r].pc = "admitted"]
  /\ UNCHANGED <<codes, used, dropping, gateCount, uses, observers>>

-----------------------------------------------------------------------------
(* Open: paying for the use and storing the session *)

\* The script's comparison: the count INCR returns against the quota.
Exceeded(p, quota) == uses[p] + 1 > quota

\* (mutant: the script forgets to undo an increment over the quota)
useScript_NoUndo(p, quota) == uses[p] + 1

\* The Lua script: INCR, and DECR again when the quota is exceeded.
useScript(p, quota) == IF Exceeded(p, quota) THEN uses[p] ELSE uses[p] + 1

RunScript(r) ==
  /\ req[r].pc = "admitted" /\ req[r].kind = "open" /\ req[r].quota > 0
  /\ uses' = [uses EXCEPT ![req[r].pin] = useScript(req[r].pin, req[r].quota)]
  /\ granted' = [granted EXCEPT ![req[r].pin] = IF Exceeded(req[r].pin, req[r].quota) THEN @ ELSE @ + 1]
  /\ UNCHANGED <<codes, used, dropping, counters, tries>>

PayUse(r) ==
  /\ RunScript(r)
  /\ req' = IF Exceeded(req[r].pin, req[r].quota) THEN [req EXCEPT ![r] = Idle]
            ELSE [req EXCEPT ![r].pc = "granted"]

\* The script ran but its reply was lost: "allowing use".
UseUnconfirmed(r) ==
  /\ RunScript(r)
  /\ req' = [req EXCEPT ![r].pc = "granted"]

\* No quota, or the script failed before it ran: "allowing use".
FreeUse(r) ==
  /\ req[r].pc = "admitted" /\ req[r].kind = "open"
  /\ req' = [req EXCEPT ![r].pc = "granted"]
  /\ UNCHANGED <<codes, used, dropping, counters, uses, observers>>

\* The session is stored, or storing it fails and the request ends: a paid use
\* is not given back.
IssueSession(r) ==
  /\ req[r].pc = "granted"
  /\ req' \in {[req EXCEPT ![r].pc = "issued"], [req EXCEPT ![r] = Idle]}
  /\ UNCHANGED <<codes, used, dropping, counters, uses, observers>>

\* triggerGate: the last step of both routes; errors are only logged.
TriggerGate(r) ==
  /\ \/ req[r].pc = "admitted" /\ req[r].kind = "unlock"
     \/ req[r].pc = "issued"
  /\ req' = [req EXCEPT ![r] = Idle]
  /\ UNCHANGED <<codes, used, dropping, counters, uses, observers>>

-----------------------------------------------------------------------------
(* Time and the whole system *)

Age(c) == IF c.ttl <= 1 THEN Absent ELSE [c EXCEPT !.ttl = @ - 1]

Tick ==
  /\ ipCount' = [g \in Gates |-> [ip \in IPs |-> Age(ipCount[g][ip])]]
  /\ gateCount' = [g \in Gates |-> Age(gateCount[g])]
  /\ tries' = [g \in Gates |-> IF gateCount'[g] = Absent THEN 0 ELSE tries[g]]
  /\ UNCHANGED <<codes, used, dropping, uses, req, granted>>

Manage ==
  \/ \E g \in Gates, p \in Pins, row \in PinRow : Create(g, p, row)
  \/ \E g \in Gates : \E i \in DOMAIN codes[g] :
        \/ \E q \in Quotas, b \in BOOLEAN : Update(g, i, q, b)
        \/ Delete(g, i)
  \/ \E p \in Pins : DropUses(p)

Arrive(r) ==
  \E g \in Gates, ip \in IPs :
    \/ \E kind \in {"unlock", "open"}, code \in Codes : Attempt(r, kind, g, ip, code)
    \/ AttemptDenied(r, g, ip)

Proceed(r) ==
  \/ Match(r) \/ Reject(r) \/ ListFails(r) \/ ClearAttempts(r)
  \/ PayUse(r) \/ UseUnconfirmed(r) \/ FreeUse(r) \/ IssueSession(r) \/ TriggerGate(r)

Next == Manage \/ (\E r \in Requests : Arrive(r) \/ Proceed(r)) \/ Tick

\* Time passes; nothing is assumed of clients, managers or Redis.
Spec     == Init /\ [][Next]_vars
FairSpec == Spec /\ WF_vars(Tick)

-----------------------------------------------------------------------------
(* Properties *)

\* README, "PIN brute-force protection (per-IP and per-gate rate limits)": in
\* one window of a gate at most MaxGateAttempts codes are looked up, whatever
\* successes clear the counters of their IPs in between.
GateBudget == \A g \in Gates : tries[g] <= MaxGateAttempts

\* The use counter of a code that exists is exactly the number of uses paid
\* for: no refused attempt, edit of the quota or deletion of another code
\* costs or refunds one.
UsesAreGrants == \A p \in Live : uses[p] = granted[p]

\* A lockout ends: the window of a full counter closes even if attempts keep
\* coming, for the IP and for the gate.
LockoutEnds ==
  \A g \in Gates :
    /\ gateCount[g].n > MaxGateAttempts ~> gateCount[g].n = 0
    /\ \A ip \in IPs : ipCount[g][ip].n > MaxAttempts ~> ipCount[g][ip].n = 0
=============================================================================
