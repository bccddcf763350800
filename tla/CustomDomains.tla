---------------------------- MODULE CustomDomains ----------------------------
(***************************************************************************)
(* A gate can be reached under domains of its own.  A domain is registered *)
(* once, proves its ownership with a TXT record that holds the row's       *)
(* challenge token, and the middleware TenantResolver maps the Host of     *)
(* every HTTP request to a gate through a cache in Redis that nobody       *)
(* invalidates.                                                            *)
(*                                                                         *)
(* A challenge token is random and belongs to one row: it is modelled by   *)
(* the row's id.  Time only matters to the cache; ttl counts down.         *)
(***************************************************************************)
EXTENDS Integers, FiniteSets

CONSTANTS
  Gates, Domains,
  Rows,        \* ids of custom_domains; at most this many rows exist at once
  Verifiers,   \* requests to verifyDomain in progress
  Resolvers,   \* HTTP requests inside TenantResolver
  HitTTL,      \* tenantCacheTTL
  MissTTL,     \* tenantCacheNotFoundTTL
  None

ASSUME DomainAssumption ==
  /\ HitTTL \in Nat \ {0} /\ MissTTL \in 1 .. HitTTL
  /\ None \notin Gates \cup Domains \cup Rows

VARIABLES
  gates,    \* gates that exist
  table,    \* rows of custom_domains
  dns,      \* challenge tokens in the TXT records of _gatie.<domain>
  verify,   \* verifyDomain requests
  resolve,  \* TenantResolver requests that missed the cache
  cache,    \* Redis tenant:domain:<host>
  proven    \* (observer) gates whose token was seen, with the domain and the row

vars == <<gates, table, dns, verify, resolve, cache, proven>>

-----------------------------------------------------------------------------
(* Rows, requests and cache entries *)

Row   == [gate: Gates, domain: Domains, verified: BOOLEAN]
NoRow == [domain |-> None]

NotFound == None   \* the sentinel of a negative result
Entry    == [gate: Gates \cup {NotFound}, ttl: 1 .. HitTTL]
NoEntry  == [ttl |-> 0]

Idle == [pc |-> "idle"]

Registered(d) == {x \in Rows : table[x].domain = d}

\* GetByDomain and IsVerified: the gate a domain leads to.
Answer(d) ==
  IF \E x \in Registered(d) : table[x].verified
  THEN table[CHOOSE x \in Registered(d) : TRUE].gate ELSE NotFound

\* A new id and a new token: in no row, no request and no zone.
Fresh(x) ==
  /\ table[x] = NoRow
  /\ \A v \in Verifiers : verify[v] # Idle => verify[v].row # x
  /\ \A d \in Domains : x \notin dns[d]

TypeOK ==
  /\ gates \subseteq Gates
  /\ table \in [Rows -> Row \cup {NoRow}]
  /\ dns \in [Domains -> SUBSET Rows]
  /\ verify \in [Verifiers -> {Idle} \cup [pc: {"lookup", "set"}, row: Rows, domain: Domains]]
  /\ resolve \in [Resolvers -> {Idle} \cup [pc: {"query"}, domain: Domains]
                     \cup [pc: {"fill"}, domain: Domains, gate: Gates \cup {NotFound}]]
  /\ cache \in [Domains -> Entry \cup {NoEntry}]
  /\ proven \subseteq Gates \X Domains \X (Rows \cup {None})

Init ==
  /\ gates = Gates
  /\ table = [x \in Rows |-> NoRow]
  /\ dns = [d \in Domains |-> {}]
  /\ verify = [v \in Verifiers |-> Idle] /\ resolve = [q \in Resolvers |-> Idle]
  /\ cache = [d \in Domains |-> NoEntry]
  /\ proven = {}

-----------------------------------------------------------------------------
(* Registration *)

\* addDomain: a domain that is registered, for whichever gate, is refused.
AddDomain(x, g, d) ==
  /\ Fresh(x) /\ g \in gates /\ Registered(d) = {}
  /\ table' = [table EXCEPT ![x] = [gate |-> g, domain |-> d, verified |-> FALSE]]
  /\ UNCHANGED <<gates, dns, verify, resolve, cache, proven>>

\* What the row proved stays true of its gate and domain.
Forget(rows) == proven' = {IF p[3] \in rows THEN <<p[1], p[2], None>> ELSE p : p \in proven}

DeleteDomain(x) ==
  /\ table[x] # NoRow
  /\ table' = [table EXCEPT ![x] = NoRow]
  /\ Forget({x})
  /\ UNCHANGED <<gates, dns, verify, resolve, cache>>

\* The rows go with the gate.
DeleteGate(g) ==
  LET rows == {x \in Rows : table[x] # NoRow /\ table[x].gate = g}
  IN  /\ g \in gates
      /\ gates' = gates \ {g}
      /\ table' = [x \in Rows |-> IF x \in rows THEN NoRow ELSE table[x]]
      /\ Forget(rows)
      /\ UNCHANGED <<dns, verify, resolve, cache>>

\* Whoever runs the zone publishes a token that was given out, or removes it.
EditZone(d, x) ==
  /\ x \in dns[d] \/ table[x] # NoRow
  /\ dns' = [dns EXCEPT ![d] = IF x \in @ THEN @ \ {x} ELSE @ \cup {x}]
  /\ UNCHANGED <<gates, table, verify, resolve, cache, proven>>

-----------------------------------------------------------------------------
(* Verification *)

VerifyDomain(v, x) ==
  /\ verify[v] = Idle /\ table[x] # NoRow
  /\ verify' = [verify EXCEPT ![v] = [pc |-> "lookup", row |-> x, domain |-> table[x].domain]]
  /\ UNCHANGED <<gates, table, dns, resolve, cache, proven>>

\* The TXT records hold the token of the row that was read.  The observer
\* credits the row if it is still there.
LookupTXT(v) ==
  LET x == verify[v].row
  IN  /\ verify[v].pc = "lookup" /\ x \in dns[verify[v].domain]
      /\ verify' = [verify EXCEPT ![v].pc = "set"]
      /\ proven' = IF table[x] = NoRow THEN proven
                   ELSE proven \cup {<<table[x].gate, table[x].domain, x>>}
      /\ UNCHANGED <<gates, table, dns, resolve, cache>>

\* No such record, the lookup fails, or the UPDATE does.
VerifyFails(v) ==
  /\ verify[v] # Idle
  /\ verify' = [verify EXCEPT ![v] = Idle]
  /\ UNCHANGED <<gates, table, dns, resolve, cache, proven>>

\* (mutant: WHERE domain = $1)
SetVerified_ByDomain(v) ==
  /\ verify[v].pc = "set"
  /\ table' = [x \in Rows |-> IF table[x].domain = verify[v].domain
                              THEN [table[x] EXCEPT !.verified = TRUE] ELSE table[x]]
  /\ verify' = [verify EXCEPT ![v] = Idle]
  /\ UNCHANGED <<gates, dns, resolve, cache, proven>>

\* UPDATE ... WHERE id: nothing when the row has been deleted.
SetVerified(v) ==
  LET x == verify[v].row
  IN  /\ verify[v].pc = "set" /\ table[x] # NoRow
      /\ table' = [table EXCEPT ![x].verified = TRUE]
      /\ verify' = [verify EXCEPT ![v] = Idle]
      /\ UNCHANGED <<gates, dns, resolve, cache, proven>>

-----------------------------------------------------------------------------
(* TenantResolver *)

\* (mutant: a hit extends the life of the entry)
Hit_Sliding(d) ==
  /\ cache[d] # NoEntry
  /\ cache' = [cache EXCEPT ![d].ttl = HitTTL]
  /\ UNCHANGED <<gates, table, dns, verify, resolve, proven>>

\* A hit is served from the cache and changes nothing.
Hit(d) == cache[d] # NoEntry /\ UNCHANGED vars

\* A miss, or Redis does not answer.
Miss(q, d) ==
  /\ resolve[q] = Idle
  /\ resolve' = [resolve EXCEPT ![q] = [pc |-> "query", domain |-> d]]
  /\ UNCHANGED <<gates, table, dns, verify, cache, proven>>

\* (mutant: IsVerified is not asked)
Query_AnyRow(q) ==
  LET d == resolve[q].domain
  IN  /\ resolve[q].pc = "query"
      /\ resolve' = [resolve EXCEPT ![q] = [pc |-> "fill", domain |-> d,
           gate |-> IF Registered(d) = {} THEN NotFound
                    ELSE table[CHOOSE x \in Registered(d) : TRUE].gate]]
      /\ UNCHANGED <<gates, table, dns, verify, cache, proven>>

Query(q) ==
  LET d == resolve[q].domain
  IN  /\ resolve[q].pc = "query"
      /\ resolve' = [resolve EXCEPT ![q] = [pc |-> "fill", domain |-> d, gate |-> Answer(d)]]
      /\ UNCHANGED <<gates, table, dns, verify, cache, proven>>

\* (mutant: SET without an expiry)
Fill_NoTTL(q) ==
  /\ resolve[q].pc = "fill"
  /\ cache' = [cache EXCEPT ![resolve[q].domain] = [gate |-> resolve[q].gate, ttl |-> 0]]
  /\ resolve' = [resolve EXCEPT ![q] = Idle]
  /\ UNCHANGED <<gates, table, dns, verify, proven>>

\* SET replaces what another request has put there meanwhile.
Fill(q) ==
  /\ resolve[q].pc = "fill"
  /\ cache' = [cache EXCEPT ![resolve[q].domain] =
       [gate |-> resolve[q].gate,
        ttl  |-> IF resolve[q].gate = NotFound THEN MissTTL ELSE HitTTL]]
  /\ resolve' = [resolve EXCEPT ![q] = Idle]
  /\ UNCHANGED <<gates, table, dns, verify, proven>>

\* The query or the SET fails; the request goes on without either.
ResolveFails(q) ==
  /\ resolve[q] # Idle
  /\ resolve' = [resolve EXCEPT ![q] = Idle]
  /\ UNCHANGED <<gates, table, dns, verify, cache, proven>>

\* Cache entries expire.
Tick ==
  /\ cache' = [d \in Domains |-> IF cache[d].ttl <= 1 THEN NoEntry
                                 ELSE [cache[d] EXCEPT !.ttl = @ - 1]]
  /\ UNCHANGED <<gates, table, dns, verify, resolve, proven>>

-----------------------------------------------------------------------------

Verification(v) ==
  \/ \E x \in Rows : VerifyDomain(v, x)
  \/ LookupTXT(v) \/ VerifyFails(v) \/ SetVerified(v)

Respond(q) == Query(q) \/ Fill(q) \/ ResolveFails(q)

Next ==
  \/ \E x \in Rows, g \in Gates, d \in Domains : AddDomain(x, g, d)
  \/ \E x \in Rows : DeleteDomain(x) \/ \E d \in Domains : EditZone(d, x)
  \/ \E g \in Gates : DeleteGate(g)
  \/ \E v \in Verifiers : Verification(v)
  \/ \E d \in Domains : Hit(d) \/ \E q \in Resolvers : Miss(q, d)
  \/ \E q \in Resolvers : Respond(q)
  \/ Tick

\* Time passes, and a request that queries the database or fills the cache ends.
Spec     == Init /\ [][Next]_vars
FairSpec == Spec /\ WF_vars(Tick) /\ \A q \in Resolvers : WF_vars(Respond(q))

-----------------------------------------------------------------------------
(* Properties *)

\* verifyDomain reads, looks up and updates in three steps: a row is verified
\* only if its own token was seen while it existed, also when its domain was
\* deleted and registered again for another gate in between.
VerifiedWasProven ==
  \A x \in Rows : (table[x] # NoRow /\ table[x].verified)
                    => <<table[x].gate, table[x].domain, x>> \in proven

\* TenantResolver: a visitor of a domain is sent only to a gate that has, at some
\* time, proved the domain its own, whatever the cache holds.
TenantWasProven ==
  LET Owner(g, d) == \E p \in proven : p[1] = g /\ p[2] = d
  IN  /\ \A d \in Domains :
           cache[d] # NoEntry /\ cache[d].gate # NotFound => Owner(cache[d].gate, d)
      /\ \A q \in Resolvers :
           resolve[q].pc = "fill" /\ resolve[q].gate # NotFound
             => Owner(resolve[q].gate, resolve[q].domain)

\* Nobody invalidates the cache, but it heals: once a domain leads to the same
\* gate (or to none) for good, eventually the cache says so, or nothing, for good.
CacheConverges ==
  \A d \in Domains, g \in Gates \cup {NotFound} :
    <>[](Answer(d) = g) => <>[](cache[d] = NoEntry \/ cache[d].gate = g)
=============================================================================
