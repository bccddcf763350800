---------------------------- MODULE SessionsProofs ----------------------------
(***************************************************************************)
(* TLAPS proofs about Sessions, for any browsers, requests, members,       *)
(* codes, tokens, sessions and durations.                                  *)
(***************************************************************************)
EXTENDS Sessions, FiniteSetTheorems, TLAPS

-----------------------------------------------------------------------------
(* The inductive invariant *)

Held(t)   == store[t] # NoKey
Flying(r) == req[r].pc \in {"redeemed", "issue"}

\* A request that carries a session knows whose it is and which token it is
\* about to hand out.
RequestsOK ==
  \A r \in Requests :
    /\ req[r].pc \in {"redeemed", "issue", "respond"} =>
         req[r].sub \in Subjects /\ req[r].chain \in Chains
    /\ req[r].pc = "respond" => req[r].token \in Tokens

\* A key that expires has time left.
KeysOK == \A t \in Tokens : Held(t) /\ store[t].duration # 0 => store[t].ttl >= 1

\* Whoever holds a live token, browser or response, knows its chain.
SameChain ==
  /\ \A b \in Browsers : jar[b].refresh # None =>
       /\ jar[b].chain \in Chains
       /\ Held(jar[b].refresh) => store[jar[b].refresh].chain = jar[b].chain
  /\ \A r \in Requests : req[r].pc = "respond" /\ Held(req[r].token) =>
       store[req[r].token].chain = req[r].chain

\* A chain has one token, or one request that is about to issue it.
OneHolder ==
  /\ \A t, u \in Tokens : Held(t) /\ Held(u) /\ store[t].chain = store[u].chain => t = u
  /\ \A q, r \in Requests : Flying(q) /\ Flying(r) /\ req[q].chain = req[r].chain => q = r
  /\ \A t \in Tokens, r \in Requests : Held(t) /\ Flying(r) => store[t].chain # req[r].chain

\* Nothing carries on a chain that was logged out with its current token.
ClosedIsOver ==
  /\ \A t \in Tokens : Held(t) => fate[store[t].chain] # "current"
  /\ \A r \in Requests : Flying(r) => fate[req[r].chain] # "current"

\* Whatever carries a chain, or remembers it, does so after it has begun.
Born ==
  /\ \A t \in Tokens : Held(t) => fate[store[t].chain] # "unborn"
  /\ \A r \in Requests : Flying(r) \/ req[r].pc = "respond" => fate[req[r].chain] # "unborn"
  /\ \A b \in Browsers : jar[b].refresh # None => fate[jar[b].chain] # "unborn"

TypeInv == TypeOK /\ RequestsOK /\ KeysOK
ChainInv == SameChain /\ OneHolder /\ ClosedIsOver
IInv == TypeInv /\ ChainInv /\ Born

-----------------------------------------------------------------------------
(* Type correctness *)

\* The longest duration is a duration, and bounds the others.
LEMMA MaxTTLBound == MaxTTL \in Durations /\ \A d \in Durations : d \in 0 .. MaxTTL
<1>1. MaxTTL \in Durations /\ \A e \in Durations : e <= MaxTTL
  BY SessionAssumption DEF MaxTTL
<1>2. ASSUME NEW d \in Durations PROVE d \in 0 .. MaxTTL
  <2>1. d \in Nat /\ MaxTTL \in Nat /\ d <= MaxTTL
    BY <1>1, SessionAssumption
  <2> QED BY <2>1
<1> QED BY <1>1, <1>2

\* No request is idle and carries something; no payload is an absent key.
LEMMA Shapes ==
  /\ Idle.pc = "idle"
  /\ \A k \in Payload : k # NoKey /\ k.sub # None
  /\ NoCookies \in Cookies
BY SessionAssumption DEF Idle, Payload, NoKey, Subjects, NoCookies, Cookies, NoAccess

\* At start nobody holds a cookie, Redis is empty and nothing is in progress.
LEMMA InitInv == Init => IInv
BY Shapes DEF Init, IInv, TypeInv, ChainInv, TypeOK, RequestsOK, KeysOK, SameChain, OneHolder,
   ClosedIsOver, Born, Held, Flying, NoCookies

\* Login and Open hand a session to the issuing step.
LEMMA StartType ==
  ASSUME TypeInv, NEW r \in Requests, NEW b \in Browsers, NEW s \in Subjects,
         NEW asRole \in Roles \cup {"pin"}, NEW d \in Durations, NEW c \in Chains,
         Start(r, b, s, asRole, d, c)
  PROVE  TypeInv'
<1>1. TypeOK'
  BY DEF TypeInv, TypeOK, Start, Busy
<1> QED BY <1>1 DEF TypeInv, TypeOK, Start, RequestsOK, KeysOK, Held

\* storeRefreshToken: the payload is that of the request, its TTL the duration.
LEMMA IssueType ==
  ASSUME TypeInv, NEW r \in Requests, NEW t \in Tokens, Issue(r, t)
  PROVE  TypeInv'
<1>1. req[r] \in Busy /\ req[r].sub \in Subjects /\ req[r].chain \in Chains
  BY DEF TypeInv, TypeOK, RequestsOK, Issue, Idle
<1>2. req[r].duration \in 0 .. MaxTTL
  <2>1. req[r].duration \in Durations
    BY <1>1 DEF Busy
  <2> QED BY <2>1, MaxTTLBound
<1>3. store' \in [Tokens -> Payload \cup {NoKey}]
  BY <1>1, <1>2 DEF TypeInv, TypeOK, Issue, Payload, Busy
<1>4. req' \in [Requests -> {Idle} \cup Busy]
  BY <1>1 DEF TypeInv, TypeOK, Issue, Busy
<1>5. RequestsOK'
  BY <1>1 DEF TypeInv, TypeOK, RequestsOK, Issue
<1>6. KeysOK'
  BY <1>1, <1>2 DEF TypeInv, TypeOK, KeysOK, Issue, Held
<1> QED BY <1>3, <1>4, <1>5, <1>6 DEF TypeInv, TypeOK, Issue

\* setAuthCookies: both cookies come from the request.
LEMMA RespondType ==
  ASSUME TypeInv, NEW r \in Requests, Respond(r)
  PROVE  TypeInv'
<1>1. /\ req[r] \in Busy /\ req[r].sub \in Subjects /\ req[r].chain \in Chains
      /\ req[r].token \in Tokens
  BY DEF TypeInv, TypeOK, RequestsOK, Respond, Idle
<1>2. [sub |-> req[r].sub, role |-> req[r].role, ttl |-> AccessTTL] \in Access
  BY <1>1, SessionAssumption DEF Access, Busy
<1>3. jar' \in [Browsers -> Cookies]
  BY <1>1, <1>2 DEF TypeInv, TypeOK, Respond, Cookies, Busy
<1> QED BY <1>3, Shapes DEF TypeInv, TypeOK, Respond, RequestsOK, KeysOK, Held

\* Requests that end, and leave Redis and the cookies as they are.
LEMMA EndType ==
  ASSUME TypeInv, NEW r \in Requests,
         IssueFails(r) \/ ResponseLost(r) \/ RefreshFails(r)
  PROVE  TypeInv'
BY Shapes DEF IssueFails, ResponseLost, RefreshFails, TypeInv, TypeOK, RequestsOK, KeysOK, Held

\* GETDEL: the request takes over the payload of the token it spends.
LEMMA RedeemType ==
  ASSUME TypeInv, NEW r \in Requests, NEW b \in Browsers, Redeem(r, b)
  PROVE  TypeInv'
<1> DEFINE t == jar[b].refresh
<1>1. t \in Tokens /\ store[t] \in Payload
  BY DEF TypeInv, TypeOK, Redeem, Cookies
<1>2. store[t].sub \in Subjects /\ store[t].chain \in Chains /\ store[t].duration \in Durations
  BY <1>1 DEF Payload
<1>3. req' \in [Requests -> {Idle} \cup Busy]
  BY <1>2 DEF TypeInv, TypeOK, Redeem, Busy
<1>4. store' \in [Tokens -> Payload \cup {NoKey}]
  BY <1>1 DEF TypeInv, TypeOK, Redeem
<1>5. RequestsOK'
  BY <1>2 DEF TypeInv, TypeOK, RequestsOK, Redeem
<1>6. KeysOK'
  BY <1>1 DEF TypeInv, TypeOK, KeysOK, Redeem, Held
<1> QED BY <1>3, <1>4, <1>5, <1>6 DEF TypeInv, TypeOK, Redeem

\* RefreshTokens: the role is read from the row, a code's session from its payload.
LEMMA RenewType ==
  ASSUME TypeInv, NEW r \in Requests, LoadMember(r) \/ RenewPinSession(r)
  PROVE  TypeInv'
<1>1. req[r] \in Busy
  BY DEF TypeInv, TypeOK, LoadMember, RenewPinSession, Idle
<1>2. CASE LoadMember(r)
  <2>1. role[req[r].sub] \in Roles
    BY <1>2 DEF TypeInv, TypeOK, LoadMember
  <2>2. req' \in [Requests -> {Idle} \cup Busy]
    BY <1>1, <1>2, <2>1 DEF TypeInv, TypeOK, LoadMember, Busy
  <2> QED BY <1>2, <2>2 DEF TypeInv, TypeOK, LoadMember, RequestsOK, KeysOK, Held
<1>3. CASE RenewPinSession(r)
  <2>2. req' \in [Requests -> {Idle} \cup Busy]
    BY <1>1, <1>3 DEF TypeInv, TypeOK, RenewPinSession, Busy
  <2> QED BY <1>3, <2>2 DEF TypeInv, TypeOK, RenewPinSession, RequestsOK, KeysOK, Held
<1> QED BY <1>2, <1>3

\* Logout, whether the DEL of RevokeRefreshToken happens or fails.
LEMMA LogoutType ==
  ASSUME TypeInv, NEW r \in Requests, NEW b \in Browsers,
         Logout(r, b) \/ LogoutUnrevoked(r, b)
  PROVE  TypeInv'
<1>1. Leaving(b, "revoked") \in Busy /\ Leaving(b, "revoked").pc = "revoked"
  BY MaxTTLBound DEF TypeInv, TypeOK, Leaving, Busy, Cookies
<1>2. req' \in [Requests -> {Idle} \cup Busy]
  BY <1>1 DEF TypeInv, TypeOK, Logout, LogoutUnrevoked
<1>3. RequestsOK'
  BY <1>1 DEF TypeInv, TypeOK, RequestsOK, Logout, LogoutUnrevoked
<1>4. CASE Logout(r, b)
  BY <1>2, <1>3, <1>4 DEF TypeInv, TypeOK, Logout, KeysOK, Held
<1>5. CASE LogoutUnrevoked(r, b)
  BY <1>2, <1>3, <1>5 DEF TypeInv, TypeOK, LogoutUnrevoked, KeysOK, Held
<1> QED BY <1>4, <1>5

\* clearAuthCookies: both cookies go.
LEMMA ClearType ==
  ASSUME TypeInv, NEW r \in Requests, ClearCookies(r)
  PROVE  TypeInv'
BY Shapes DEF ClearCookies, TypeInv, TypeOK, RequestsOK, KeysOK, Held

\* Role changes and deletions of members touch the rows only.
LEMMA AdminType ==
  ASSUME TypeInv, NEW m \in Members, DeleteMember(m) \/ \E new \in Roles : SetRole(m, new)
  PROVE  TypeInv'
BY DEF DeleteMember, SetRole, TypeInv, TypeOK, RequestsOK, KeysOK, Held

\* A key that does not expire now keeps its payload.
LEMMA AgeKeyType ==
  ASSUME TypeInv, NEW t \in Tokens
  PROVE  /\ AgeKey(store[t]) \in Payload \cup {NoKey}
         /\ AgeKey(store[t]) # NoKey =>
              /\ Held(t)
              /\ AgeKey(store[t]).sub = store[t].sub /\ AgeKey(store[t]).chain = store[t].chain
              /\ AgeKey(store[t]).duration # 0 => AgeKey(store[t]).ttl >= 1
<1>1. CASE store[t] = NoKey
  BY <1>1 DEF AgeKey
<1>2. CASE store[t] # NoKey
  <2>1. store[t] \in Payload /\ (store[t].duration # 0 => store[t].ttl >= 1)
    BY <1>2 DEF TypeInv, TypeOK, KeysOK, Held
  <2>2. MaxTTL \in Nat
    BY MaxTTLBound, SessionAssumption
  <2> QED BY <1>2, <2>1, <2>2 DEF AgeKey, Payload, Held
<1> QED BY <1>1, <1>2

\* Time passes: keys and access tokens age, and expire.
LEMMA TickType ==
  ASSUME TypeInv, Tick
  PROVE  TypeInv'
<1>1. store' \in [Tokens -> Payload \cup {NoKey}]
  BY AgeKeyType DEF Tick
<1>2. ASSUME NEW a \in Access \cup {NoAccess} PROVE AgeAccess(a) \in Access \cup {NoAccess}
  <2>1. CASE a = NoAccess
    BY <2>1 DEF AgeAccess
  <2>2. CASE a \in Access
    BY <2>2, SessionAssumption DEF AgeAccess, Access
  <2> QED BY <2>1, <2>2
<1>3. jar' \in [Browsers -> Cookies]
  BY <1>2 DEF Tick, TypeInv, TypeOK, Cookies
<1>4. KeysOK'
  BY AgeKeyType DEF Tick, KeysOK, Held
<1> QED BY <1>1, <1>3, <1>4 DEF Tick, TypeInv, TypeOK, RequestsOK

-----------------------------------------------------------------------------
(* Chains *)

\* Login and Open begin a chain that nothing carries yet.
LEMMA StartChain ==
  ASSUME IInv, NEW r \in Requests, NEW b \in Browsers, NEW s \in Subjects,
         NEW asRole \in Roles \cup {"pin"}, NEW d \in Durations, NEW c \in Chains,
         Start(r, b, s, asRole, d, c)
  PROVE  ChainInv'
<1>1. /\ \A t \in Tokens : Held(t) => store[t].chain # c
      /\ \A q \in Requests : Flying(q) => req[q].chain # c
  BY DEF IInv, Born, Start, Flying
<1>2. SameChain'
  BY DEF IInv, TypeInv, TypeOK, ChainInv, SameChain, Start, Held
<1>3. OneHolder'
  BY <1>1 DEF IInv, TypeInv, TypeOK, ChainInv, OneHolder, Start, Held, Flying
<1>4. ClosedIsOver'
  BY <1>1 DEF IInv, TypeInv, TypeOK, ChainInv, ClosedIsOver, Start, Held, Flying
<1> QED BY <1>2, <1>3, <1>4 DEF ChainInv

\* storeRefreshToken: the chain moves from the request to a token that nobody
\* knows yet.
LEMMA IssueChain ==
  ASSUME IInv, NEW r \in Requests, NEW t \in Tokens, Issue(r, t)
  PROVE  ChainInv'
<1>1. req[r] \in Busy /\ req[r].sub \in Subjects /\ req[r].chain \in Chains /\ Flying(r)
  BY DEF IInv, TypeInv, TypeOK, RequestsOK, Issue, Idle, Flying
<1>2. /\ store' = [store EXCEPT ![t] = store'[t]]
      /\ store'[t].chain = req[r].chain /\ store'[t].sub = req[r].sub /\ ~ Held(t)
  BY <1>1 DEF IInv, TypeInv, TypeOK, Issue, FreshToken, Held
<1>3. /\ \A q \in Requests \ {r} : req'[q] = req[q]
      /\ req'[r].pc = "respond" /\ req'[r].token = t /\ req'[r].chain = req[r].chain
  BY <1>1 DEF IInv, TypeInv, TypeOK, Issue, Busy
<1>4. SameChain'
  BY <1>2, <1>3 DEF IInv, TypeInv, TypeOK, ChainInv, SameChain, Issue, FreshToken, Held
<1>5. OneHolder'
  BY <1>1, <1>2, <1>3 DEF IInv, TypeInv, TypeOK, ChainInv, OneHolder, Held, Flying
<1>6. ClosedIsOver'
  BY <1>1, <1>2, <1>3 DEF IInv, TypeInv, TypeOK, ChainInv, ClosedIsOver, Issue, Held, Flying
<1> QED BY <1>4, <1>5, <1>6 DEF ChainInv

\* setAuthCookies: the browser learns the token together with its chain.
LEMMA RespondChain ==
  ASSUME IInv, NEW r \in Requests, Respond(r)
  PROVE  ChainInv'
<1>1. req[r] \in Busy /\ req[r].chain \in Chains /\ req[r].token \in Tokens
  BY DEF IInv, TypeInv, TypeOK, RequestsOK, Respond, Idle
<1>2. SameChain'
  BY <1>1, Shapes DEF IInv, TypeInv, TypeOK, ChainInv, SameChain, Respond, Held
<1> QED
  BY <1>2, Shapes DEF IInv, TypeInv, TypeOK, ChainInv, OneHolder, ClosedIsOver, Respond, Held, Flying

\* Requests that end carry nothing on.
LEMMA EndChain ==
  ASSUME IInv, NEW r \in Requests,
         IssueFails(r) \/ ResponseLost(r) \/ RefreshFails(r)
  PROVE  ChainInv'
BY Shapes DEF IssueFails, ResponseLost, RefreshFails, IInv, TypeInv, TypeOK, ChainInv,
   SameChain, OneHolder, ClosedIsOver, Held, Flying

\* GETDEL: the chain moves from the token to the request that spent it.
LEMMA RedeemChain ==
  ASSUME IInv, NEW r \in Requests, NEW b \in Browsers, Redeem(r, b)
  PROVE  ChainInv'
<1> DEFINE t == jar[b].refresh
<1>1. t \in Tokens /\ Held(t)
  BY DEF IInv, TypeInv, TypeOK, Redeem, Cookies, Held
<1>2. store' = [store EXCEPT ![t] = NoKey]
  BY DEF Redeem
<1>3. /\ \A q \in Requests \ {r} : req'[q] = req[q]
      /\ req'[r].pc = "redeemed" /\ req'[r].chain = store[t].chain
  BY DEF IInv, TypeInv, TypeOK, Redeem
<1> HIDE DEF t
<1>4. SameChain'
  BY <1>2, <1>3 DEF IInv, TypeInv, TypeOK, ChainInv, SameChain, Redeem, Held
<1>5. OneHolder'
  BY <1>1, <1>2, <1>3 DEF IInv, TypeInv, TypeOK, ChainInv, OneHolder, Held, Flying
<1>6. ClosedIsOver'
  BY <1>1, <1>2, <1>3 DEF IInv, TypeInv, TypeOK, ChainInv, ClosedIsOver, Redeem, Held, Flying
<1> QED BY <1>4, <1>5, <1>6 DEF ChainInv

\* RefreshTokens: the request goes on with the chain it redeemed.
LEMMA RenewChain ==
  ASSUME IInv, NEW r \in Requests, LoadMember(r) \/ RenewPinSession(r)
  PROVE  ChainInv'
<1>1. req[r] \in Busy /\ Flying(r)
  BY DEF IInv, TypeInv, TypeOK, LoadMember, RenewPinSession, Idle, Flying
<1>2. /\ \A q \in Requests \ {r} : req'[q] = req[q]
      /\ req'[r].pc = "issue" /\ req'[r].chain = req[r].chain
      /\ UNCHANGED <<store, jar, fate>>
  BY <1>1 DEF IInv, TypeInv, TypeOK, LoadMember, RenewPinSession, Busy
<1>3. SameChain'
  BY <1>2 DEF IInv, ChainInv, SameChain, Held
<1>4. OneHolder'
  BY <1>1, <1>2 DEF IInv, ChainInv, OneHolder, Held, Flying
<1>5. ClosedIsOver'
  BY <1>1, <1>2 DEF IInv, ChainInv, ClosedIsOver, Held, Flying
<1> QED BY <1>3, <1>4, <1>5 DEF ChainInv

\* Logout: the token that is deleted was the only thing that carried its chain.
LEMMA LogoutChain ==
  ASSUME IInv, NEW r \in Requests, NEW b \in Browsers,
         Logout(r, b) \/ LogoutUnrevoked(r, b)
  PROVE  ChainInv'
<1>1. req'[r].pc = "revoked" /\ \A q \in Requests \ {r} : req'[q] = req[q]
  BY DEF IInv, TypeInv, TypeOK, Logout, LogoutUnrevoked, Leaving
<1>2. CASE Logout(r, b)
  <2> DEFINE t == jar[b].refresh
             c == jar[b].chain
  <2>1. t \in Tokens /\ c \in Chains /\ (Held(t) => store[t].chain = c)
    BY <1>2 DEF IInv, TypeInv, TypeOK, ChainInv, SameChain, Logout, Cookies
  <2>2. /\ store' = [store EXCEPT ![t] = NoKey]
        /\ fate' = [fate EXCEPT ![c] = fate'[c]]
        /\ fate'[c] = "current" => fate[c] = "current" \/ Held(t)
        /\ jar' = jar
    BY <1>2, <2>1 DEF Logout, Held, IInv, TypeInv, TypeOK
  <2> HIDE DEF t, c
  <2>3. SameChain'
    BY <1>1, <2>2 DEF IInv, TypeInv, TypeOK, ChainInv, SameChain, Held
  <2>4. OneHolder'
    BY <1>1, <2>2 DEF IInv, TypeInv, TypeOK, ChainInv, OneHolder, Held, Flying
  <2>5. /\ \A u \in Tokens : Held(u) => store[u].chain \in Chains
        /\ \A q \in Requests : Flying(q) => req[q].chain \in Chains
    BY DEF IInv, TypeInv, TypeOK, RequestsOK, Held, Flying, Payload
  <2>6. \A k \in Chains : fate'[k] = "current" => fate[k] = "current" \/ (k = c /\ Held(t))
    BY <2>1, <2>2 DEF IInv, TypeInv, TypeOK
  <2>7. \A u \in Tokens : Held(u)' => Held(u) /\ u # t /\ store'[u] = store[u]
    BY <2>1, <2>2 DEF IInv, TypeInv, TypeOK, Held
  <2>8. \A q \in Requests : Flying(q)' => Flying(q) /\ req'[q] = req[q]
    BY <1>1 DEF Flying
  <2>9. ClosedIsOver'
    BY <2>1, <2>5, <2>6, <2>7, <2>8 DEF IInv, ChainInv, OneHolder, ClosedIsOver
  <2> QED BY <2>3, <2>4, <2>9 DEF ChainInv
<1>3. CASE LogoutUnrevoked(r, b)
  BY <1>1, <1>3 DEF LogoutUnrevoked, IInv, ChainInv, SameChain, OneHolder, ClosedIsOver, Held, Flying
<1> QED BY <1>2, <1>3

\* clearAuthCookies forgets the token, wherever it stands in Redis.
LEMMA ClearChain ==
  ASSUME IInv, NEW r \in Requests, ClearCookies(r)
  PROVE  ChainInv'
BY Shapes DEF ClearCookies, IInv, TypeInv, TypeOK, ChainInv, SameChain, OneHolder, ClosedIsOver,
   Held, Flying, NoCookies

\* Administration leaves sessions alone.
LEMMA AdminChain ==
  ASSUME IInv, NEW m \in Members, DeleteMember(m) \/ \E new \in Roles : SetRole(m, new)
  PROVE  ChainInv'
BY DEF DeleteMember, SetRole, IInv, ChainInv, SameChain, OneHolder, ClosedIsOver, Held, Flying

\* Expiry only takes tokens away.
LEMMA TickChain ==
  ASSUME IInv, Tick
  PROVE  ChainInv'
<1>1. \A t \in Tokens : Held(t)' => Held(t) /\ store'[t].chain = store[t].chain
  BY AgeKeyType DEF IInv, Tick, Held
<1>2. /\ \A b \in Browsers : jar'[b].refresh = jar[b].refresh /\ jar'[b].chain = jar[b].chain
      /\ req' = req /\ fate' = fate
  BY DEF IInv, TypeInv, TypeOK, Tick, Cookies
<1>3. SameChain'
  <2>1. \A b \in Browsers : jar[b].refresh # None => jar[b].refresh \in Tokens
    BY DEF IInv, TypeInv, TypeOK, Cookies
  <2> QED BY <1>1, <1>2, <2>1 DEF IInv, TypeInv, RequestsOK, ChainInv, SameChain, Held
<1>4. OneHolder'
  BY <1>1, <1>2 DEF IInv, ChainInv, OneHolder, Flying
<1>5. ClosedIsOver'
  BY <1>1, <1>2 DEF IInv, ChainInv, ClosedIsOver, Flying
<1> QED BY <1>3, <1>4, <1>5 DEF ChainInv

\* No step forgets that a chain has begun.
LEMMA FateGrows ==
  ASSUME IInv, [Next]_vars, NEW c \in Chains, fate[c] # "unborn"
  PROVE  fate'[c] # "unborn"
<1>0. fate \in [Chains -> {"unborn", "begun", "current", "stale"}]
  BY DEF IInv, TypeInv, TypeOK
<1>1. ASSUME NEW r \in Requests, NEW b \in Browsers, Logout(r, b) PROVE fate'[c] # "unborn"
  BY <1>0, <1>1 DEF Logout
<1>2. ASSUME NEW r \in Requests, NEW b \in Browsers, Begin(r, b) PROVE fate'[c] # "unborn"
  BY <1>0, <1>2 DEF Begin, Login, OpenPinSession, Start
<1>3. CASE UNCHANGED fate
  BY <1>3
<1> QED
  BY <1>1, <1>2, <1>3 DEF Next, vars, Proceed, Issue, IssueFails, Respond, ResponseLost,
     LoadMember, RefreshFails, RenewPinSession, ClearCookies, Redeem, LogoutUnrevoked,
     DeleteMember, SetRole, Tick

\* Tokens, responses and cookies only ever belong to chains that have begun:
\* each takes its chain over from another, or from the login that begins it.
LEMMA BornKept ==
  ASSUME IInv, [Next]_vars
  PROVE  Born'
<1>0. /\ \A t \in Tokens : Held(t) => store[t].chain \in Chains
      /\ \A r \in Requests : Flying(r) \/ req[r].pc = "respond" => req[r].chain \in Chains
      /\ \A b \in Browsers : jar[b].refresh # None => jar[b].chain \in Chains
  BY DEF IInv, TypeInv, TypeOK, RequestsOK, ChainInv, SameChain, Held, Flying, Payload
<1> DEFINE Known(c) == c \in Chains /\ fate'[c] # "unborn"
<1>1. /\ \A t \in Tokens : Held(t) => Known(store[t].chain)
      /\ \A r \in Requests : Flying(r) \/ req[r].pc = "respond" => Known(req[r].chain)
      /\ \A b \in Browsers : jar[b].refresh # None => Known(jar[b].chain)
  BY <1>0, FateGrows DEF IInv, Born
<1> SUFFICES /\ \A t \in Tokens : Held(t)' => Known(store'[t].chain)
             /\ \A r \in Requests : Flying(r)' \/ req'[r].pc = "respond" => Known(req'[r].chain)
             /\ \A b \in Browsers : jar'[b].refresh # None => Known(jar'[b].chain)
  BY DEF Born
<1>2. ASSUME NEW r \in Requests, NEW b \in Browsers, NEW s, NEW asRole, NEW d,
             NEW c \in Chains, Start(r, b, s, asRole, d, c)
      PROVE  /\ \A q \in Requests : Flying(q)' \/ req'[q].pc = "respond" => Known(req'[q].chain)
             /\ UNCHANGED <<store, jar>>
  <2>1. Known(c)
    BY <1>2 DEF Start, IInv, TypeInv, TypeOK
  <2>2. req'[r].chain = c /\ \A q \in Requests \ {r} : req'[q] = req[q]
    BY <1>2 DEF Start, IInv, TypeInv, TypeOK
  <2> HIDE DEF Known
  <2> QED BY <1>1, <1>2, <2>1, <2>2 DEF Start, Flying
<1>3. ASSUME NEW r \in Requests, NEW b \in Browsers, Begin(r, b)
      PROVE  /\ \A q \in Requests : Flying(q)' \/ req'[q].pc = "respond" => Known(req'[q].chain)
             /\ UNCHANGED <<store, jar>>
  <2> HIDE DEF Known
  <2> QED BY <1>2, <1>3 DEF Begin, Login, OpenPinSession
<1> HIDE DEF Known
<1>4. ASSUME NEW r \in Requests, NEW t \in Tokens, Issue(r, t)
      PROVE  /\ \A u \in Tokens : Held(u)' => Known(store'[u].chain)
             /\ \A q \in Requests : Flying(q)' \/ req'[q].pc = "respond" => Known(req'[q].chain)
             /\ jar' = jar
  <2>1. req[r] \in Busy /\ Known(req[r].chain)
    BY <1>1, <1>4 DEF IInv, TypeInv, TypeOK, Issue, Idle, Flying
  <2>2. /\ \A u \in Tokens \ {t} : store'[u] = store[u]
        /\ store'[t].chain = req[r].chain
        /\ \A q \in Requests \ {r} : req'[q] = req[q]
        /\ req'[r].chain = req[r].chain
    BY <1>4, <2>1 DEF IInv, TypeInv, TypeOK, Issue, Busy
  <2> QED BY <1>1, <1>4, <2>1, <2>2 DEF Issue, Held, Flying
<1>5. ASSUME NEW r \in Requests, Respond(r)
      PROVE  /\ \A b \in Browsers : jar'[b].refresh # None => Known(jar'[b].chain)
             /\ \A q \in Requests : Flying(q)' \/ req'[q].pc = "respond" => Known(req'[q].chain)
             /\ store' = store
  <2>1. req[r] \in Busy /\ Known(req[r].chain)
    BY <1>1, <1>5 DEF IInv, TypeInv, TypeOK, Respond, Idle, Flying
  <2>2. /\ \A b \in Browsers : jar'[b] = jar[b] \/ jar'[b].chain = req[r].chain
        /\ \A q \in Requests \ {r} : req'[q] = req[q]
        /\ req'[r].pc = "idle"
    BY <1>5, Shapes DEF IInv, TypeInv, TypeOK, Respond
  <2> QED BY <1>1, <1>5, <2>1, <2>2 DEF Respond, Flying
<1>6. ASSUME NEW r \in Requests, NEW b \in Browsers, Redeem(r, b)
      PROVE  /\ \A u \in Tokens : Held(u)' => Known(store'[u].chain)
             /\ \A q \in Requests : Flying(q)' \/ req'[q].pc = "respond" => Known(req'[q].chain)
             /\ jar' = jar
  <2>1. jar[b].refresh \in Tokens /\ Held(jar[b].refresh)
    BY <1>6 DEF IInv, TypeInv, TypeOK, Redeem, Cookies, Held
  <2>2. /\ \A u \in Tokens : Held(u)' => store'[u] = store[u] /\ Held(u)
        /\ \A q \in Requests \ {r} : req'[q] = req[q]
        /\ req'[r].chain = store[jar[b].refresh].chain
    BY <1>6, <2>1 DEF IInv, TypeInv, TypeOK, Redeem, Held
  <2> QED BY <1>1, <1>6, <2>1, <2>2 DEF Redeem, Flying
<1>7. ASSUME NEW r \in Requests, LoadMember(r) \/ RenewPinSession(r)
      PROVE  /\ \A q \in Requests : Flying(q)' \/ req'[q].pc = "respond" => Known(req'[q].chain)
             /\ UNCHANGED <<store, jar>>
  <2>1. req[r] \in Busy /\ Known(req[r].chain)
    BY <1>1, <1>7 DEF IInv, TypeInv, TypeOK, LoadMember, RenewPinSession, Idle, Flying
  <2>2. /\ \A q \in Requests \ {r} : req'[q] = req[q]
        /\ req'[r].chain = req[r].chain
    BY <1>7, <2>1 DEF IInv, TypeInv, TypeOK, LoadMember, RenewPinSession, Busy
  <2> QED BY <1>1, <1>7, <2>1, <2>2 DEF LoadMember, RenewPinSession, Flying
<1>8. ASSUME NEW r \in Requests,
             \/ IssueFails(r) \/ ResponseLost(r) \/ RefreshFails(r) \/ ClearCookies(r)
             \/ \E b \in Browsers : Logout(r, b) \/ LogoutUnrevoked(r, b)
      PROVE  /\ \A u \in Tokens : Held(u)' => Known(store'[u].chain)
             /\ \A q \in Requests : Flying(q)' \/ req'[q].pc = "respond" => Known(req'[q].chain)
             /\ \A b \in Browsers : jar'[b].refresh # None => Known(jar'[b].chain)
  <2>1. /\ \A q \in Requests \ {r} : req'[q] = req[q]
        /\ req'[r].pc \in {"idle", "revoked"}
    BY <1>8, Shapes DEF IInv, TypeInv, TypeOK, IssueFails, ResponseLost, RefreshFails,
       ClearCookies, Logout, LogoutUnrevoked, Leaving
  <2>2. \A u \in Tokens : Held(u)' => Held(u) /\ store'[u] = store[u]
    BY <1>8 DEF IInv, TypeInv, TypeOK, IssueFails, ResponseLost, RefreshFails,
       ClearCookies, Logout, LogoutUnrevoked, Held
  <2>3. \A b \in Browsers : jar'[b].refresh # None => jar'[b] = jar[b]
    BY <1>8 DEF IInv, TypeInv, TypeOK, IssueFails, ResponseLost, RefreshFails,
       ClearCookies, Logout, LogoutUnrevoked, NoCookies
  <2> QED BY <1>1, <2>1, <2>2, <2>3 DEF Flying
<1>9. CASE Tick
  <2>1. \A t \in Tokens : Held(t)' => Held(t) /\ store'[t].chain = store[t].chain
    BY <1>9, AgeKeyType DEF IInv, Tick, Held
  <2>2. /\ \A b \in Browsers : jar'[b].refresh = jar[b].refresh /\ jar'[b].chain = jar[b].chain
        /\ req' = req
    BY <1>9 DEF IInv, TypeInv, TypeOK, Tick, Cookies
  <2> QED BY <1>1, <2>1, <2>2 DEF Flying
<1>10. CASE UNCHANGED <<store, jar, req>>
  BY <1>1, <1>10 DEF Held, Flying
<1>11. ASSUME NEW m \in Members, DeleteMember(m) \/ \E new \in Roles : SetRole(m, new)
       PROVE  UNCHANGED <<store, jar, req>>
  BY <1>11 DEF DeleteMember, SetRole
<1>12. ASSUME UNCHANGED store
       PROVE  \A u \in Tokens : Held(u)' => Known(store'[u].chain)
  BY <1>1, <1>12 DEF Held
<1>13. ASSUME UNCHANGED jar
       PROVE  \A b \in Browsers : jar'[b].refresh # None => Known(jar'[b].chain)
  BY <1>1, <1>13
<1> QED
  BY <1>3, <1>4, <1>5, <1>6, <1>7, <1>8, <1>9, <1>10, <1>11, <1>12, <1>13 DEF Next, vars, Proceed

\* Every step of the server, of the browsers and of time keeps the invariant.
LEMMA NextInv == IInv /\ [Next]_vars => IInv'
<1> SUFFICES ASSUME IInv, [Next]_vars PROVE IInv'
  OBVIOUS
<1> USE DEF IInv
<1>1. ASSUME NEW r \in Requests, NEW b \in Browsers, Begin(r, b) PROVE IInv'
  <2>1. PICK c \in Chains, d \in Durations :
          \/ \E m \in Members : Login(r, b, m, d, c)
          \/ \E p \in Pins : OpenPinSession(r, b, p, d, c)
    BY <1>1 DEF Begin
  <2>2. ASSUME NEW m \in Members, Login(r, b, m, d, c) PROVE IInv'
    <3>1. role[m] \in Roles /\ m \in Subjects /\ Start(r, b, m, role[m], d, c)
      BY <2>2 DEF Login, TypeInv, TypeOK, Subjects
    <3> QED BY <3>1, StartType, StartChain, BornKept
  <2>3. ASSUME NEW p \in Pins, OpenPinSession(r, b, p, d, c) PROVE IInv'
    <3>1. p \in Subjects /\ Start(r, b, p, "pin", d, c)
      BY <2>3 DEF OpenPinSession, Subjects
    <3> QED BY <3>1, StartType, StartChain, BornKept
  <2> QED BY <2>1, <2>2, <2>3
<1>2. ASSUME NEW r \in Requests, Proceed(r) PROVE IInv'
  <2>1. CASE \E t \in Tokens : Issue(r, t)
    BY <2>1, IssueType, IssueChain, BornKept
  <2>2. CASE Respond(r)
    BY <2>2, RespondType, RespondChain, BornKept
  <2>3. CASE IssueFails(r) \/ ResponseLost(r) \/ RefreshFails(r)
    BY <2>3, EndType, EndChain, BornKept
  <2>4. CASE LoadMember(r) \/ RenewPinSession(r)
    BY <2>4, RenewType, RenewChain, BornKept
  <2>5. CASE ClearCookies(r)
    BY <2>5, ClearType, ClearChain, BornKept
  <2> QED BY <1>2, <2>1, <2>2, <2>3, <2>4, <2>5 DEF Proceed
<1>3. ASSUME NEW r \in Requests, NEW b \in Browsers, Redeem(r, b) PROVE IInv'
  BY <1>3, RedeemType, RedeemChain, BornKept
<1>4. ASSUME NEW r \in Requests, NEW b \in Browsers, Logout(r, b) \/ LogoutUnrevoked(r, b)
      PROVE  IInv'
  BY <1>4, LogoutType, LogoutChain, BornKept
<1>5. ASSUME NEW m \in Members, DeleteMember(m) \/ \E new \in Roles : SetRole(m, new) PROVE IInv'
  BY <1>5, AdminType, AdminChain, BornKept
<1>6. CASE Tick
  BY <1>6, TickType, TickChain, BornKept
<1>7. CASE UNCHANGED vars
  BY <1>7, BornKept DEF vars, TypeInv, ChainInv, TypeOK, RequestsOK, KeysOK, SameChain, OneHolder,
     ClosedIsOver, Held, Flying
<1> HIDE DEF IInv
<1> QED BY <1>1, <1>2, <1>3, <1>4, <1>5, <1>6, <1>7 DEF Next

\* The invariant holds throughout.
LEMMA Invariance == Spec => []IInv
BY InitInv, NextInv, PTL DEF Spec

-----------------------------------------------------------------------------
(* Theorems *)

\* Roles, Redis payloads, cookies and requests keep their shape; in
\* particular the TTL of a key never leaves 0 .. MaxTTL.
THEOREM TypeCorrect == Spec => []TypeOK
<1>1. IInv => TypeOK
  BY DEF IInv, TypeInv
<1> QED BY <1>1, Invariance, PTL

\* Two parts that exclude each other and are at most singletons have together
\* at most one element.
LEMMA AtMostOne ==
  ASSUME NEW A, NEW B, A = {} \/ B = {},
         \A x, y \in A : x = y, \A x, y \in B : x = y
  PROVE  Cardinality(A) + Cardinality(B) <= 1
<1>1. ASSUME NEW S, \A x, y \in S : x = y
      PROVE  Cardinality(S) \in {0, 1} /\ (S = {} => Cardinality(S) = 0)
  <2>1. CASE S = {}
    BY <2>1, FS_EmptySet
  <2>2. CASE S # {}
    <3>1. PICK x \in S : S = {x}
      BY <1>1, <2>2
    <3> QED BY <2>2, <3>1, FS_Singleton
  <2> QED BY <2>1, <2>2
<1>2. Cardinality(A) \in {0, 1} /\ (A = {} => Cardinality(A) = 0)
  BY <1>1
<1>3. Cardinality(B) \in {0, 1} /\ (B = {} => Cardinality(B) = 0)
  BY <1>1
<1> QED BY <1>2, <1>3

\* Refresh tokens are one-time for any number of tabs and requests: GETDEL
\* leaves a chain one successor, stored or about to be issued.
THEOREM OneSuccessorHolds == Spec => []OneSuccessor
<1>1. IInv => OneSuccessor
  <2> SUFFICES ASSUME IInv, NEW c \in Chains
               PROVE  Cardinality(Stored(c)) + Cardinality(InFlight(c)) <= 1
    BY DEF OneSuccessor
  <2>1. /\ \A t, u \in Stored(c) : t = u
        /\ \A q, r \in InFlight(c) : q = r
        /\ Stored(c) = {} \/ InFlight(c) = {}
    BY DEF IInv, ChainInv, OneHolder, Held, Flying, Stored, InFlight
  <2> QED BY <2>1, AtMostOne
<1> QED BY <1>1, Invariance, PTL

\* A logout with the current refresh token ends the session for good, whatever
\* other tabs of the browser have under way.
THEOREM LogoutEnds == Spec => []LogoutEndsSession
<1>1. IInv => LogoutEndsSession
  BY DEF IInv, ChainInv, ClosedIsOver, Held, Flying, Stored, InFlight, LogoutEndsSession
<1> QED BY <1>1, Invariance, PTL

-----------------------------------------------------------------------------
(* Refinement of SessionLife *)

\* The owner of each chain, as Life sees it.
OwnerMap == [c \in Chains |-> Owner(c)]

\* Whose chain it is when it is carried for one subject, and when it is not
\* carried at all.
LEMMA OwnerIs ==
  ASSUME NEW c \in Chains
  PROVE  /\ \A s : Holders(c) = {s} => Owner(c) = s
         /\ Holders(c) = {} => Owner(c) = IF fate[c] = "unborn" THEN None ELSE "over"
BY DEF Owner

\* The same after the step.
LEMMA OwnerIsNext ==
  ASSUME NEW c \in Chains
  PROVE  /\ \A s : Holders(c)' = {s} => Owner(c)' = s
         /\ Holders(c)' = {} => Owner(c)' = IF fate'[c] = "unborn" THEN None ELSE "over"
BY DEF Owner

\* A chain that is carried, or is no more, has an owner that is not None.
LEMMA BornOwned ==
  ASSUME IInv, NEW c \in Chains
  PROVE  /\ Holders(c) # {} => fate[c] # "unborn"
         /\ fate[c] # "unborn" => Owner(c) # None
<1>1. \A s \in Holders(c) : s # None /\ fate[c] # "unborn"
  <2>1. \A t \in Stored(c) : store[t].sub # None /\ fate[c] # "unborn"
    BY Shapes DEF IInv, TypeInv, TypeOK, Born, Stored, Held
  <2>2. \A r \in InFlight(c) : req[r].sub # None /\ fate[c] # "unborn"
    BY SessionAssumption DEF IInv, TypeInv, RequestsOK, Subjects, Born, InFlight, Flying
  <2> QED BY <2>1, <2>2 DEF Holders
<1> QED BY <1>1, SessionAssumption DEF Owner

\* A chain is carried for one subject at most.
LEMMA OneOwner == IInv => \A c \in Chains : \A s, u \in Holders(c) : s = u
BY DEF IInv, ChainInv, OneHolder, Holders, Stored, InFlight, Held, Flying

\* A step after which no chain is carried for somebody new, and none has begun,
\* ends some sessions, perhaps none.
LEMMA EndStep ==
  ASSUME IInv, \A c \in Chains : Holders(c)' \subseteq Holders(c),
         \A c \in Chains : fate'[c] = "unborn" <=> fate[c] = "unborn"
  PROVE  Life!Next
<1> DEFINE C == {c \in Chains : fate[c] # "unborn" /\ Holders(c)' = {}}
<1>1. ASSUME NEW c \in Chains
      PROVE  Owner(c)' = IF c \in C THEN "over" ELSE Owner(c)
  <2>1. Holders(c)' = {} \/ Holders(c)' = Holders(c)
    BY OneOwner
  <2>2. CASE c \in C
    BY <2>2, OwnerIsNext
  <2>3. CASE c \notin C /\ Holders(c)' = {}
    <3>1. fate[c] = "unborn" /\ Holders(c) = {}
      BY <2>3, BornOwned
    <3> QED BY <2>3, <3>1, OwnerIs, OwnerIsNext
  <2>4. CASE c \notin C /\ Holders(c)' # {}
    <3>1. PICK s : Holders(c) = {s}
      BY <2>1, <2>4, OneOwner
    <3> QED BY <2>1, <2>4, <3>1, OwnerIs, OwnerIsNext
  <2> QED BY <2>2, <2>3, <2>4
<1>2. C \in SUBSET Chains /\ Life!End(C)
  BY <1>1, BornOwned DEF Life!End
<1> QED BY <1>2 DEF Life!Next

\* Where every token and every request that carries a chain did so before the
\* step, no chain is carried for somebody new.
LEMMA CarriedBefore ==
  ASSUME \A t \in Tokens : Held(t)' =>
           store'[t].sub \in Holders(store'[t].chain),
         \A r \in Requests : Flying(r)' => req'[r].sub \in Holders(req'[r].chain)
  PROVE  \A c \in Chains : Holders(c)' \subseteq Holders(c)
<1> SUFFICES ASSUME NEW c \in Chains, NEW s \in Holders(c)' PROVE s \in Holders(c)
  OBVIOUS
<1>1. CASE \E t \in Tokens : Held(t)' /\ store'[t].chain = c /\ store'[t].sub = s
  BY <1>1
<1>2. CASE \E r \in Requests : Flying(r)' /\ req'[r].chain = c /\ req'[r].sub = s
  BY <1>2
<1> QED BY <1>1, <1>2 DEF Holders, Stored, InFlight, Held, Flying

\* Live tokens and requests that issue one are what carries a chain.
LEMMA Carriers ==
  /\ \A t \in Tokens : Held(t) => store[t].sub \in Holders(store[t].chain)
  /\ \A r \in Requests : Flying(r) => req[r].sub \in Holders(req[r].chain)
BY DEF Holders, Stored, InFlight, Held, Flying

\* Login and Open begin the session of their subject.
LEMMA StartBegins ==
  ASSUME IInv, NEW r \in Requests, NEW b \in Browsers, NEW s \in Subjects,
         NEW asRole \in Roles \cup {"pin"}, NEW d \in Durations, NEW c \in Chains,
         Start(r, b, s, asRole, d, c)
  PROVE  Life!Next
<1>1. /\ req'[r].pc = "issue" /\ req'[r].chain = c /\ req'[r].sub = s /\ ~ Flying(r)
      /\ \A q \in Requests \ {r} : req'[q] = req[q]
      /\ store' = store
  BY DEF IInv, TypeInv, TypeOK, Start, Flying
<1>2. fate[c] = "unborn" /\ Holders(c) = {}
  BY BornOwned DEF Start
<1>3. Holders(c)' = {s}
  <2>1. Stored(c)' = {}
    BY <1>1, <1>2 DEF Holders, Stored
  <2>2. InFlight(c)' = {r}
    BY <1>1, <1>2 DEF Holders, InFlight
  <2> QED BY <1>1, <2>1, <2>2 DEF Holders
<1>4. ASSUME NEW k \in Chains, k # c PROVE Holders(k)' = Holders(k)
  <2>1. Stored(k)' = Stored(k) /\ InFlight(k)' = InFlight(k) /\ r \notin InFlight(k)
    BY <1>1, <1>4 DEF Stored, InFlight, Flying
  <2>2. \A q \in InFlight(k) : req'[q] = req[q]
    BY <1>1, <2>1 DEF InFlight
  <2> QED BY <1>1, <2>1, <2>2 DEF Holders
<1>5. Owner(c) = None /\ Owner(c)' = s
  BY <1>2, <1>3, OwnerIs, OwnerIsNext
<1>6. ASSUME NEW k \in Chains, k # c PROVE Owner(k)' = Owner(k)
  <2>1. fate'[k] = fate[k]
    BY <1>6 DEF IInv, TypeInv, TypeOK, Start
  <2>2. Holders(k)' = Holders(k)
    BY <1>4, <1>6
  <2>3. CASE Holders(k) = {}
    BY <2>1, <2>2, <2>3, OwnerIs, OwnerIsNext
  <2>4. CASE Holders(k) # {}
    <3>1. PICK u : Holders(k) = {u}
      BY <2>4, OneOwner
    <3> QED BY <2>2, <3>1, OwnerIs, OwnerIsNext
  <2> QED BY <2>3, <2>4
<1>7. Life!Begin(c, s)
  BY <1>5, <1>6 DEF Life!Begin
<1> QED BY <1>7 DEF Life!Next

\* storeRefreshToken passes the chain of the request on for the same subject.
LEMMA IssueKeepsOwner ==
  ASSUME IInv, NEW r \in Requests, NEW t \in Tokens, Issue(r, t)
  PROVE  Life!Next
<1>1. req[r] \in Busy /\ Flying(r)
  BY DEF IInv, TypeInv, TypeOK, Issue, Idle, Flying
<1>2. /\ \A u \in Tokens \ {t} : store'[u] = store[u]
      /\ store'[t].chain = req[r].chain /\ store'[t].sub = req[r].sub
      /\ \A q \in Requests \ {r} : req'[q] = req[q]
      /\ req'[r].pc = "respond"
  BY <1>1 DEF IInv, TypeInv, TypeOK, Issue, Busy
<1>3. /\ \A u \in Tokens : Held(u)' => store'[u].sub \in Holders(store'[u].chain)
      /\ \A q \in Requests : Flying(q)' => req'[q].sub \in Holders(req'[q].chain)
  BY <1>1, <1>2, Carriers DEF Held, Flying
<1>4. fate' = fate
  BY DEF Issue
<1> QED BY <1>3, <1>4, CarriedBefore, EndStep

\* GETDEL passes the chain of the token on for the same subject.
LEMMA RedeemKeepsOwner ==
  ASSUME IInv, NEW r \in Requests, NEW b \in Browsers, Redeem(r, b)
  PROVE  Life!Next
<1> DEFINE t == jar[b].refresh
<1>1. t \in Tokens /\ Held(t)
  BY DEF IInv, TypeInv, TypeOK, Redeem, Cookies, Held
<1>2. /\ \A u \in Tokens : Held(u)' => store'[u] = store[u] /\ Held(u)
      /\ \A q \in Requests \ {r} : req'[q] = req[q]
      /\ req'[r].chain = store[t].chain /\ req'[r].sub = store[t].sub
  BY <1>1 DEF IInv, TypeInv, TypeOK, Redeem, Held
<1>3. /\ \A u \in Tokens : Held(u)' => store'[u].sub \in Holders(store'[u].chain)
      /\ \A q \in Requests : Flying(q)' => req'[q].sub \in Holders(req'[q].chain)
  BY <1>1, <1>2, Carriers DEF Flying
<1>4. fate' = fate
  BY DEF Redeem
<1> QED BY <1>3, <1>4, CarriedBefore, EndStep

\* All other steps of requests, administrators and time add no carrier.
LEMMA OthersEnd ==
  ASSUME IInv,
         \/ \E r \in Requests :
              \/ IssueFails(r) \/ ResponseLost(r) \/ RefreshFails(r) \/ Respond(r)
              \/ LoadMember(r) \/ RenewPinSession(r) \/ ClearCookies(r)
              \/ \E b \in Browsers : Logout(r, b) \/ LogoutUnrevoked(r, b)
         \/ \E m \in Members : DeleteMember(m) \/ \E new \in Roles : SetRole(m, new)
         \/ Tick
  PROVE  Life!Next
<1>1. ASSUME NEW t \in Tokens, Held(t)'
      PROVE  Held(t) /\ store'[t].chain = store[t].chain /\ store'[t].sub = store[t].sub
  <2>1. CASE Tick
    BY <1>1, <2>1, AgeKeyType DEF IInv, Tick, Held
  <2>2. CASE \E r \in Requests, b \in Browsers : Logout(r, b)
    BY <1>1, <2>2 DEF IInv, TypeInv, TypeOK, Logout, Held
  <2>3. CASE UNCHANGED store
    BY <1>1, <2>3 DEF Held
  <2> QED
    BY <2>1, <2>2, <2>3 DEF IssueFails, ResponseLost, RefreshFails, Respond, LoadMember,
       RenewPinSession, ClearCookies, LogoutUnrevoked, DeleteMember, SetRole
<1>2. ASSUME NEW q \in Requests, Flying(q)'
      PROVE  Flying(q) /\ req'[q].chain = req[q].chain /\ req'[q].sub = req[q].sub
  <2>1. CASE UNCHANGED req
    BY <1>2, <2>1 DEF Flying
  <2>2. ASSUME NEW r \in Requests,
               \/ IssueFails(r) \/ ResponseLost(r) \/ RefreshFails(r) \/ Respond(r)
               \/ ClearCookies(r)
        PROVE  Flying(q) /\ req'[q] = req[q]
    BY <1>2, <2>2, Shapes DEF IInv, TypeInv, TypeOK, IssueFails, ResponseLost, RefreshFails,
       Respond, ClearCookies, Flying
  <2>3. ASSUME NEW r \in Requests, LoadMember(r) \/ RenewPinSession(r)
        PROVE  Flying(q) /\ req'[q].chain = req[q].chain /\ req'[q].sub = req[q].sub
    <3>1. req[r] \in Busy /\ Flying(r)
      BY <2>3 DEF IInv, TypeInv, TypeOK, LoadMember, RenewPinSession, Idle, Flying
    <3> QED BY <1>2, <2>3, <3>1 DEF IInv, TypeInv, TypeOK, LoadMember, RenewPinSession, Busy, Flying
  <2>4. ASSUME NEW r \in Requests, NEW b \in Browsers, Logout(r, b) \/ LogoutUnrevoked(r, b)
        PROVE  Flying(q) /\ req'[q] = req[q]
    BY <1>2, <2>4 DEF IInv, TypeInv, TypeOK, Logout, LogoutUnrevoked, Leaving, Flying
  <2> QED BY <2>1, <2>2, <2>3, <2>4 DEF DeleteMember, SetRole, Tick
<1>3. ASSUME NEW c \in Chains PROVE fate'[c] = "unborn" <=> fate[c] = "unborn"
  <2>1. CASE UNCHANGED fate
    BY <2>1
  <2>2. ASSUME NEW r \in Requests, NEW b \in Browsers, Logout(r, b)
        PROVE  fate'[c] = "unborn" <=> fate[c] = "unborn"
    <3>1. jar[b].chain \in Chains /\ fate[jar[b].chain] # "unborn"
      BY <2>2 DEF IInv, ChainInv, SameChain, Born, Logout
    <3> QED BY <2>2, <3>1 DEF IInv, TypeInv, TypeOK, Logout
  <2> QED
    BY <2>1, <2>2 DEF IssueFails, ResponseLost, RefreshFails, Respond, LoadMember,
       RenewPinSession, ClearCookies, LogoutUnrevoked, DeleteMember, SetRole, Tick
<1> QED BY <1>1, <1>2, <1>3, Carriers, CarriedBefore, EndStep

\* Rotation, its races and its failures implement SessionLife: a chain belongs
\* to one subject for as long as it lasts, only a login or a code begins one, and
\* one that has ended never begins again.
THEOREM SessionRefinement == Spec => ImplementsSessionLife
<1>1. Init => Life!Init
  BY Shapes DEF Init, Life!Init, Owner, Holders, Stored, InFlight
<1>2. ASSUME IInv, [Next]_vars PROVE Life!Next \/ UNCHANGED OwnerMap
  <2>1. ASSUME NEW r \in Requests, NEW b \in Browsers, Begin(r, b) PROVE Life!Next
    <3>1. PICK c \in Chains, d \in Durations :
            \/ \E m \in Members : Login(r, b, m, d, c)
            \/ \E p \in Pins : OpenPinSession(r, b, p, d, c)
      BY <2>1 DEF Begin
    <3>2. \E s \in Subjects, asRole \in Roles \cup {"pin"} : Start(r, b, s, asRole, d, c)
      BY <1>2, <3>1 DEF Login, OpenPinSession, Subjects, IInv, TypeInv, TypeOK
    <3> QED BY <1>2, <3>2, StartBegins
  <2>2. CASE UNCHANGED vars
    BY <2>2 DEF vars, OwnerMap, Owner, Holders, Stored, InFlight
  <2> QED BY <1>2, <2>1, <2>2, IssueKeepsOwner, RedeemKeepsOwner, OthersEnd DEF Next, Proceed
<1>3. IInv /\ [Next]_vars => [Life!Next]_OwnerMap
  BY <1>2
<1> QED BY <1>1, <1>3, Invariance, PTL DEF Spec, ImplementsSessionLife, Life!Spec, OwnerMap
=============================================================================
