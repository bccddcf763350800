------------------------------ MODULE Sessions ------------------------------
(***************************************************************************)
(* Member and PIN sessions: a 15-minute JWT in the gatie_access cookie and *)
(* an opaque one-time refresh token in the gatie_refresh cookie, stored    *)
(* under its hash in Redis.  The tabs of a browser share its cookies and   *)
(* refresh, log in and log out concurrently; every request is several      *)
(* round trips, and its response may be lost.                              *)
(*                                                                         *)
(* A chain is the succession of refresh tokens that starts with one login  *)
(* (or one code): the server does not know it, the properties are about    *)
(* it, and every login starts another one.  Refresh tokens are 32 random   *)
(* bytes: a fresh one is any identifier that nobody holds.                 *)
(***************************************************************************)
EXTENDS Integers, FiniteSets

CONSTANTS
  Browsers, Requests, Members, Pins, Tokens, Chains,
  AccessTTL,       \* AccessTokenTTL
  Durations,       \* session durations in use; 0 is "infinite"
  None             \* no token, no chain, nobody

ASSUME SessionAssumption ==
  /\ AccessTTL \in Nat \ {0}
  /\ Durations \subseteq Nat /\ \E d \in Durations : \A e \in Durations : e <= d
  /\ None \notin Tokens \cup Chains \cup Members \cup Pins
  /\ Members \cap Pins = {}
  /\ "over" \notin Members \cup Pins \cup {None}

Roles    == {"ADMIN", "MEMBER"}
Subjects == Members \cup Pins
MaxTTL   == CHOOSE d \in Durations : \A e \in Durations : e <= d

VARIABLES
  role,   \* role of each member's row, "none" once it is deleted
  store,  \* Redis refresh:<hash>: the payload of each live refresh token
  jar,    \* the two cookies of each browser
  req,    \* requests in progress
  fate    \* (observer) whether each chain has begun, and how it was logged out

vars == <<role, store, jar, req, fate>>

-----------------------------------------------------------------------------
(* Payloads, cookies and requests *)

\* ttl counts down to the expiry of the key; 0 is a key without expiry.
Payload == [sub: Subjects, chain: Chains, duration: Durations, ttl: 0 .. MaxTTL]
NoKey   == [sub |-> None]

\* The claims of a JWT; ttl is the time left.
Access   == [sub: Subjects, role: Roles \cup {"pin"}, ttl: 1 .. AccessTTL]
NoAccess == [sub |-> None]

Cookies   == [refresh: Tokens \cup {None}, chain: Chains \cup {None},
              access: Access \cup {NoAccess}]
NoCookies == [refresh |-> None, chain |-> None, access |-> NoAccess]

Idle == [pc |-> "idle"]
Busy ==
  [pc: {"redeemed", "issue", "respond", "revoked"}, browser: Browsers,
   sub: Subjects \cup {None}, chain: Chains \cup {None},
   role: Roles \cup {"pin"}, duration: Durations, token: Tokens \cup {None}]

Stored(c)   == {t \in Tokens : store[t] # NoKey /\ store[t].chain = c}
InFlight(c) == {r \in Requests : req[r].pc \in {"redeemed", "issue"} /\ req[r].chain = c}

FreshToken(t) ==
  /\ store[t] = NoKey
  /\ \A b \in Browsers : jar[b].refresh # t
  /\ \A r \in Requests : req[r].pc = "respond" => req[r].token # t

TypeOK ==
  /\ role \in [Members -> Roles \cup {"none"}]
  /\ store \in [Tokens -> Payload \cup {NoKey}]
  /\ jar \in [Browsers -> Cookies]
  /\ req \in [Requests -> {Idle} \cup Busy]
  /\ fate \in [Chains -> {"unborn", "begun", "current", "stale"}]

Init ==
  /\ role \in [Members -> Roles]
  /\ store = [t \in Tokens |-> NoKey]
  /\ jar = [b \in Browsers |-> NoCookies]
  /\ req = [r \in Requests |-> Idle]
  /\ fate = [c \in Chains |-> "unborn"]

-----------------------------------------------------------------------------
(* Starting a session *)

Start(r, b, s, asRole, d, c) ==
  /\ req[r].pc = "idle" /\ fate[c] = "unborn"
  /\ req' = [req EXCEPT ![r] =
       [pc |-> "issue", browser |-> b, sub |-> s, chain |-> c,
        role |-> asRole, duration |-> d, token |-> None]]
  /\ fate' = [fate EXCEPT ![c] = "begun"]
  /\ UNCHANGED <<role, store, jar>>

\* (mutant: the member's row is not looked at)
Login_AnyMember(r, b, m, d, c) == Start(r, b, m, role[m], d, c)

\* Login: the member is found and the password matches.
Login(r, b, m, d, c) ==
  role[m] # "none" /\ Start(r, b, m, role[m], d, c)

\* Open: a valid code with a session (module PinAccess).
OpenPinSession(r, b, p, d, c) == Start(r, b, p, "pin", d, c)

\* The new refresh token is stored; the JWT is signed with the role in hand.
Issue(r, t) ==
  /\ req[r].pc = "issue" /\ FreshToken(t)
  /\ store' = [store EXCEPT ![t] =
       [sub |-> req[r].sub, chain |-> req[r].chain,
        duration |-> req[r].duration, ttl |-> req[r].duration]]
  /\ req' = [req EXCEPT ![r].pc = "respond", ![r].token = t]
  /\ UNCHANGED <<role, jar, fate>>

IssueFails(r) ==
  /\ req[r].pc = "issue"
  /\ req' = [req EXCEPT ![r] = Idle]
  /\ UNCHANGED <<role, store, jar, fate>>

\* setAuthCookies
Respond(r) ==
  /\ req[r].pc = "respond"
  /\ jar' = [jar EXCEPT ![req[r].browser] =
       [refresh |-> req[r].token, chain |-> req[r].chain,
        access |-> [sub |-> req[r].sub, role |-> req[r].role, ttl |-> AccessTTL]]]
  /\ req' = [req EXCEPT ![r] = Idle]
  /\ UNCHANGED <<role, store, fate>>

ResponseLost(r) ==
  /\ req[r].pc \in {"respond", "revoked"}
  /\ req' = [req EXCEPT ![r] = Idle]
  /\ UNCHANGED <<role, store, jar, fate>>

-----------------------------------------------------------------------------
(* Refresh *)

\* (mutant: GET, and the old token is left to expire)
Redeem_Get(r, b) ==
  LET t == jar[b].refresh
  IN  /\ req[r].pc = "idle" /\ t # None /\ store[t] # NoKey
      /\ req' = [req EXCEPT ![r] =
           [pc |-> "redeemed", browser |-> b, sub |-> store[t].sub,
            chain |-> store[t].chain, role |-> "pin",
            duration |-> store[t].duration, token |-> None]]
      /\ UNCHANGED <<role, store, jar, fate>>

\* GETDEL: whoever comes second gets a 401 and nothing else happens.
Redeem(r, b) ==
  LET t == jar[b].refresh
  IN  /\ req[r].pc = "idle" /\ t # None /\ store[t] # NoKey
      /\ store' = [store EXCEPT ![t] = NoKey]
      /\ req' = [req EXCEPT ![r] =
           [pc |-> "redeemed", browser |-> b, sub |-> store[t].sub,
            chain |-> store[t].chain, role |-> "pin",
            duration |-> store[t].duration, token |-> None]]
      /\ UNCHANGED <<role, jar, fate>>

\* (mutant: the refreshed token keeps the role of the expired one)
LoadMember_CookieRole(r) ==
  /\ req[r].pc = "redeemed" /\ req[r].sub \in Members
  /\ role[req[r].sub] # "none"
  /\ LET a == jar[req[r].browser].access
     IN  req' = [req EXCEPT ![r].pc = "issue",
                   ![r].role = IF a.sub = req[r].sub THEN a.role ELSE role[req[r].sub]]
  /\ UNCHANGED <<role, store, jar, fate>>

\* The role comes from the member's row, not from the payload.
LoadMember(r) ==
  /\ req[r].pc = "redeemed" /\ req[r].sub \in Members
  /\ role[req[r].sub] # "none"
  /\ req' = [req EXCEPT ![r].pc = "issue", ![r].role = role[req[r].sub]]
  /\ UNCHANGED <<role, store, jar, fate>>

\* The reply of GETDEL is lost, or the member is gone or cannot be read: the
\* token has been spent for nothing.
RefreshFails(r) ==
  /\ req[r].pc = "redeemed"
  /\ req' = [req EXCEPT ![r] = Idle]
  /\ UNCHANGED <<role, store, jar, fate>>

\* (mutant: the renewed session is made out to whoever the access cookie names)
RenewPinSession_CookieSubject(r) ==
  /\ req[r].pc = "redeemed" /\ req[r].sub \in Pins
  /\ LET a == jar[req[r].browser].access
     IN  req' = [req EXCEPT ![r].pc = "issue",
                   ![r].sub = IF a = NoAccess THEN @ ELSE a.sub]
  /\ UNCHANGED <<role, store, jar, fate>>

\* A PIN session is renewed from its payload alone.
RenewPinSession(r) ==
  /\ req[r].pc = "redeemed" /\ req[r].sub \in Pins
  /\ req' = [req EXCEPT ![r].pc = "issue"]
  /\ UNCHANGED <<role, store, jar, fate>>

-----------------------------------------------------------------------------
(* Logout *)

Leaving(b, pc) ==
  [pc |-> pc, browser |-> b, sub |-> None, chain |-> jar[b].chain,
   role |-> "pin", duration |-> MaxTTL, token |-> None]

\* (mutant: only the cookies are cleared)
Logout_CookiesOnly(r, b) ==
  /\ req[r].pc = "idle" /\ jar[b].refresh # None
  /\ req' = [req EXCEPT ![r] = Leaving(b, "revoked")]
  /\ fate' = [fate EXCEPT ![jar[b].chain] =
       IF store[jar[b].refresh] = NoKey THEN "stale" ELSE "current"]
  /\ UNCHANGED <<role, store, jar>>

\* RevokeRefreshToken: DEL of the token the cookie holds, current or not.
Logout(r, b) ==
  /\ req[r].pc = "idle" /\ jar[b].refresh # None
  /\ store' = [store EXCEPT ![jar[b].refresh] = NoKey]
  /\ req' = [req EXCEPT ![r] = Leaving(b, "revoked")]
  /\ fate' = [fate EXCEPT ![jar[b].chain] =
       IF @ = "current" THEN @
       ELSE IF store[jar[b].refresh] = NoKey THEN "stale" ELSE "current"]
  /\ UNCHANGED <<role, jar>>

\* DEL fails unnoticed, or there is no refresh cookie to revoke.
LogoutUnrevoked(r, b) ==
  /\ req[r].pc = "idle"
  /\ req' = [req EXCEPT ![r] = Leaving(b, "revoked")]
  /\ UNCHANGED <<role, store, jar, fate>>

\* clearAuthCookies
ClearCookies(r) ==
  /\ req[r].pc = "revoked"
  /\ jar' = [jar EXCEPT ![req[r].browser] = NoCookies]
  /\ req' = [req EXCEPT ![r] = Idle]
  /\ UNCHANGED <<role, store, fate>>

-----------------------------------------------------------------------------
(* Administration and time *)

SetRole(m, new) ==
  /\ role[m] # "none"
  /\ role' = [role EXCEPT ![m] = new]
  /\ UNCHANGED <<store, jar, req, fate>>

\* The member's refresh tokens are left in Redis.
DeleteMember(m) ==
  /\ role[m] # "none"
  /\ role' = [role EXCEPT ![m] = "none"]
  /\ UNCHANGED <<store, jar, req, fate>>

AgeKey(k) == IF k = NoKey \/ k.duration = 0 THEN k
             ELSE IF k.ttl = 1 THEN NoKey ELSE [k EXCEPT !.ttl = @ - 1]

AgeAccess(a) == IF a = NoAccess \/ a.ttl = 1 THEN NoAccess ELSE [a EXCEPT !.ttl = @ - 1]

\* Keys and JWTs expire.
Tick ==
  /\ store' = [t \in Tokens |-> AgeKey(store[t])]
  /\ jar' = [b \in Browsers |-> [jar[b] EXCEPT !.access = AgeAccess(@)]]
  /\ UNCHANGED <<role, req, fate>>

Begin(r, b) ==
  \E c \in Chains, d \in Durations :
    \/ \E m \in Members : Login(r, b, m, d, c)
    \/ \E p \in Pins : OpenPinSession(r, b, p, d, c)

Proceed(r) ==
  \/ \E t \in Tokens : Issue(r, t)
  \/ IssueFails(r) \/ Respond(r) \/ ResponseLost(r)
  \/ LoadMember(r) \/ RefreshFails(r) \/ RenewPinSession(r) \/ ClearCookies(r)

Next ==
  \/ \E r \in Requests :
       \/ Proceed(r)
       \/ \E b \in Browsers :
            Begin(r, b) \/ Redeem(r, b) \/ Logout(r, b) \/ LogoutUnrevoked(r, b)
  \/ \E m \in Members : DeleteMember(m) \/ \E new \in Roles : SetRole(m, new)
  \/ Tick

\* Time passes; nothing is assumed of browsers, administrators or Redis.
Spec     == Init /\ [][Next]_vars
FairSpec == Spec /\ WF_vars(Tick)

-----------------------------------------------------------------------------
(* Properties *)

\* GETDEL makes refresh tokens one-time: however many tabs refresh at once, a
\* chain has one token, or one request that is about to issue it, never two.
OneSuccessor ==
  \A c \in Chains : Cardinality(Stored(c)) + Cardinality(InFlight(c)) <= 1

\* A logout that presents the current refresh token of a session ends it: no
\* request brings the chain back.
LogoutEndsSession ==
  \A c \in Chains : fate[c] = "current" => Stored(c) = {} /\ InFlight(c) = {}

\* Rights that were withdrawn fade: once a member has lost a role for good (or
\* was deleted), eventually no browser holds a JWT that grants it.
StaleRightsFade ==
  \A m \in Members, r0 \in Roles :
    <>[](role[m] # r0) =>
      <>[](\A b \in Browsers : jar[b].access.sub = m => jar[b].access.role # r0)

-----------------------------------------------------------------------------
(* Refinement *)

\* The subject of the chain's token, or of the request about to issue it.
Holders(c) == {store[t].sub : t \in Stored(c)} \cup {req[r].sub : r \in InFlight(c)}

Owner(c) ==
  IF Holders(c) # {} THEN CHOOSE s \in Holders(c) : TRUE
  ELSE IF fate[c] = "unborn" THEN None ELSE "over"

Life == INSTANCE SessionLife WITH
          Nobody <- None, Over <- "over",
          owner  <- [c \in Chains |-> Owner(c)]

\* Token rotation, its failures and its races implement SessionLife: a session
\* belongs to one subject as long as it lasts, and once nothing carries it no
\* refresh, lost answer or late response of another tab brings it back.
ImplementsSessionLife == Life!Spec
=============================================================================
