------------------------- MODULE CustomDomainsProofs -------------------------
(***************************************************************************)
(* TLAPS proofs about CustomDomains, for any gates, domains, rows and      *)
(* concurrent requests, and any TTLs of the tenant cache.                  *)
(***************************************************************************)
EXTENDS CustomDomains, TLAPS

-----------------------------------------------------------------------------
(* The inductive invariant *)

\* A domain is registered once.
OneRow ==
  \A x, y \in Rows :
    table[x] # NoRow /\ table[y] # NoRow /\ table[x].domain = table[y].domain => x = y

\* A request that has seen the token of a row has seen it for what the row still
\* says, unless the row is gone.
SeenWasProven ==
  \A v \in Verifiers : verify[v].pc = "set" /\ table[verify[v].row] # NoRow =>
    LET x == verify[v].row IN <<table[x].gate, table[x].domain, x>> \in proven

IInv == TypeOK /\ OneRow /\ SeenWasProven /\ VerifiedWasProven /\ TenantWasProven

\* A gate that has proved a domain its own at some time.
Owned(g, d) == \E p \in proven : p[1] = g /\ p[2] = d

-----------------------------------------------------------------------------
(* Lemmas *)

Looking == [pc: {"lookup", "set"}, row: Rows, domain: Domains]
Querying == [pc: {"query"}, domain: Domains]
Filling  == [pc: {"fill"}, domain: Domains, gate: Gates \cup {NotFound}]
Evidence == Gates \X Domains \X (Rows \cup {None})

\* Absent rows and idle requests are not mistaken for others.
LEMMA Shapes ==
  /\ \A w \in Row : w # NoRow /\ w.gate \in Gates /\ w.domain \in Domains
                    /\ w.verified \in BOOLEAN
  /\ NoRow.domain = None /\ Idle.pc = "idle" /\ NoEntry.ttl = 0
  /\ \A e \in Entry : e # NoEntry
  /\ None \notin Domains /\ None \notin Gates /\ None \notin Rows
BY DomainAssumption DEF Row, NoRow, Idle, NoEntry, Entry

\* The cache and the resolvers, in terms of Owned.
LEMMA TenantFlat ==
  TenantWasProven <=>
    /\ \A d \in Domains :
         cache[d] # NoEntry /\ cache[d].gate # NotFound => Owned(cache[d].gate, d)
    /\ \A q \in Resolvers :
         resolve[q].pc = "fill" /\ resolve[q].gate # NotFound
           => Owned(resolve[q].gate, resolve[q].domain)
BY DEF TenantWasProven, Owned

\* Deleting rows takes no ownership back, and no evidence of other rows.
LEMMA ForgetKeeps ==
  ASSUME TypeOK, NEW rows \in SUBSET Rows, Forget(rows)
  PROVE  /\ proven' \subseteq Evidence
         /\ \A g, d : Owned(g, d) => Owned(g, d)'
         /\ \A g, d : \A x \in Rows \ rows : <<g, d, x>> \in proven => <<g, d, x>> \in proven'
<1>1. \A p \in proven : \E g \in Gates, d \in Domains, y \in Rows \cup {None} : p = <<g, d, y>>
  BY DEF TypeOK
<1>2. ASSUME NEW p \in proven
      PROVE  (IF p[3] \in rows THEN <<p[1], p[2], None>> ELSE p) \in proven'
  BY DEF Forget
<1>3. proven' \subseteq Evidence
  BY <1>1 DEF Forget, Evidence
<1>4. ASSUME NEW g, NEW d, Owned(g, d) PROVE Owned(g, d)'
  <2>1. PICK p \in proven : p[1] = g /\ p[2] = d
    BY <1>4 DEF Owned
  <2>2. CASE p[3] \in rows
    BY <1>2, <2>1, <2>2 DEF Owned
  <2>3. CASE p[3] \notin rows
    BY <1>2, <2>1, <2>3 DEF Owned
  <2> QED BY <2>2, <2>3
<1>5. ASSUME NEW g, NEW d, NEW x \in Rows \ rows, <<g, d, x>> \in proven
      PROVE  <<g, d, x>> \in proven'
  BY <1>2, <1>5
<1> QED BY <1>3, <1>4, <1>5

\* GetByDomain and IsVerified answer with a gate whose row is proven.
LEMMA AnswerIsOwned ==
  ASSUME IInv, NEW d \in Domains
  PROVE  Answer(d) \in Gates \cup {NotFound} /\ (Answer(d) # NotFound => Owned(Answer(d), d))
<1>1. CASE \E x \in Registered(d) : table[x].verified
  <2>1. PICK x \in Registered(d) : table[x].verified
    BY <1>1
  <2>2. \A y \in Registered(d) : y \in Rows /\ table[y] # NoRow /\ table[y].domain = d
    BY Shapes DEF Registered
  <2>3. Registered(d) = {x}
    BY <2>1, <2>2 DEF IInv, OneRow
  <2>4. Answer(d) = table[x].gate
    BY <1>1, <2>3 DEF Answer
  <2>5. table[x] \in Row
    BY <2>1, <2>2 DEF IInv, TypeOK
  <2>6. <<table[x].gate, d, x>> \in proven
    BY <2>1, <2>2 DEF IInv, VerifiedWasProven
  <2> QED BY <2>4, <2>5, <2>6, Shapes DEF Owned
<1>2. CASE ~ \E x \in Registered(d) : table[x].verified
  BY <1>2 DEF Answer
<1> QED BY <1>1, <1>2

-----------------------------------------------------------------------------
(* The steps *)

\* Nothing is registered, cached or proven at start.
LEMMA InitInv == Init => IInv
BY Shapes DEF Init, IInv, TypeOK, OneRow, SeenWasProven, VerifiedWasProven, TenantWasProven

\* addDomain: the new row has an id no request refers to.
LEMMA AddInv ==
  ASSUME IInv, NEW x \in Rows, NEW g \in Gates, NEW d \in Domains, AddDomain(x, g, d)
  PROVE  IInv'
<1>1. [gate |-> g, domain |-> d, verified |-> FALSE] \in Row
  BY DEF Row
<1>2. TypeOK'
  BY <1>1 DEF IInv, TypeOK, AddDomain
<1>3. OneRow'
  BY DEF IInv, TypeOK, OneRow, AddDomain, Registered
<1>4. SeenWasProven'
  BY Shapes DEF IInv, TypeOK, SeenWasProven, AddDomain, Fresh
<1>5. VerifiedWasProven'
  BY DEF IInv, TypeOK, VerifiedWasProven, AddDomain
<1>6. TenantWasProven'
  BY DEF IInv, TenantWasProven, AddDomain
<1> QED BY <1>2, <1>3, <1>4, <1>5, <1>6 DEF IInv

\* Rows that are deleted, alone or with their gate.
LEMMA DeleteInv ==
  ASSUME IInv, NEW rows \in SUBSET Rows,
         table' = [x \in Rows |-> IF x \in rows THEN NoRow ELSE table[x]],
         Forget(rows), gates' \subseteq gates, UNCHANGED <<dns, verify, resolve, cache>>
  PROVE  IInv'
<1>1. TypeOK
  BY DEF IInv
<1>2. TypeOK'
  BY <1>1, ForgetKeeps DEF TypeOK, Evidence
<1>3. \A x \in Rows : table'[x] # NoRow => x \notin rows /\ table'[x] = table[x]
  OBVIOUS
<1>4. OneRow'
  BY <1>3 DEF IInv, OneRow
<1>5. SeenWasProven'
  <2>1. \A v \in Verifiers : verify[v].pc = "set" => verify[v].row \in Rows
    BY <1>1, Shapes DEF TypeOK
  <2> QED BY <1>1, <1>3, <2>1, ForgetKeeps DEF IInv, SeenWasProven
<1>6. VerifiedWasProven'
  BY <1>1, <1>3, ForgetKeeps DEF IInv, VerifiedWasProven
<1>7. TenantWasProven'
  <2>1. \A g, d : Owned(g, d) => Owned(g, d)'
    BY <1>1, ForgetKeeps
  <2>2. /\ \A d \in Domains :
             cache[d] # NoEntry /\ cache[d].gate # NotFound => Owned(cache[d].gate, d)'
        /\ \A q \in Resolvers :
             resolve[q].pc = "fill" /\ resolve[q].gate # NotFound
               => Owned(resolve[q].gate, resolve[q].domain)'
    BY <2>1, TenantFlat DEF IInv
  <2> QED BY <2>2 DEF TenantWasProven, Owned
<1> QED BY <1>2, <1>4, <1>5, <1>6, <1>7 DEF IInv

\* Publishing or removing a TXT record proves nothing by itself.
LEMMA ZoneInv ==
  ASSUME IInv, NEW x \in Rows, NEW d \in Domains, EditZone(d, x)
  PROVE  IInv'
BY DEF IInv, TypeOK, OneRow, SeenWasProven, VerifiedWasProven, TenantWasProven, EditZone

\* verifyDomain reads the row.
LEMMA VerifyInv ==
  ASSUME IInv, NEW v \in Verifiers, NEW x \in Rows, VerifyDomain(v, x)
  PROVE  IInv'
<1>1. table[x].domain \in Domains
  BY Shapes DEF IInv, TypeOK, VerifyDomain
<1>2. TypeOK'
  BY <1>1 DEF IInv, TypeOK, VerifyDomain
<1>3. SeenWasProven'
  BY DEF IInv, TypeOK, SeenWasProven, VerifyDomain
<1> QED BY <1>2, <1>3 DEF IInv, VerifyDomain, OneRow, VerifiedWasProven, TenantWasProven

\* LookupTXT: the token that was seen is that of a row that cannot have become
\* another one meanwhile.
LEMMA LookupInv ==
  ASSUME IInv, NEW v \in Verifiers, LookupTXT(v)
  PROVE  IInv'
<1> DEFINE x == verify[v].row
<1>1. verify[v] \in Looking /\ x \in Rows
  BY Shapes DEF IInv, TypeOK, LookupTXT, Looking
<1>2. proven \subseteq proven' /\ proven' \subseteq Evidence
  BY <1>1, Shapes DEF IInv, TypeOK, LookupTXT, Evidence
<1>3. /\ verify' \in [Verifiers -> {Idle} \cup Looking]
      /\ \A u \in Verifiers \ {v} : verify'[u] = verify[u]
      /\ verify'[v].row = x
  BY <1>1 DEF IInv, TypeOK, LookupTXT, Looking
<1>4. TypeOK'
  BY <1>2, <1>3 DEF IInv, TypeOK, LookupTXT, Looking, Evidence
<1>5. table[x] # NoRow => <<table[x].gate, table[x].domain, x>> \in proven'
  BY DEF LookupTXT
<1>6. SeenWasProven'
  BY <1>2, <1>3, <1>5 DEF IInv, SeenWasProven, LookupTXT
<1>7. VerifiedWasProven' /\ OneRow'
  BY <1>2 DEF IInv, VerifiedWasProven, OneRow, LookupTXT
<1>8. TenantWasProven'
  BY <1>2 DEF IInv, TenantWasProven, LookupTXT
<1> QED BY <1>4, <1>6, <1>7, <1>8 DEF IInv

\* A verification that ends without an update.
LEMMA VerifyFailsInv ==
  ASSUME IInv, NEW v \in Verifiers, VerifyFails(v)
  PROVE  IInv'
BY Shapes DEF IInv, TypeOK, OneRow, SeenWasProven, VerifiedWasProven, TenantWasProven, VerifyFails

\* UPDATE ... WHERE id: the row that is updated is the one whose token was seen.
LEMMA SetVerifiedInv ==
  ASSUME IInv, NEW v \in Verifiers, SetVerified(v)
  PROVE  IInv'
<1> DEFINE x == verify[v].row
<1>1. x \in Rows /\ table[x] \in Row
  BY Shapes DEF IInv, TypeOK, SetVerified
<1>2. <<table[x].gate, table[x].domain, x>> \in proven
  BY DEF IInv, SeenWasProven, SetVerified
<1>3. /\ table' = [table EXCEPT ![x] = table'[x]] /\ table'[x] \in Row
      /\ table'[x].gate = table[x].gate /\ table'[x].domain = table[x].domain
      /\ UNCHANGED <<gates, dns, resolve, cache, proven>>
      /\ verify' = [verify EXCEPT ![v] = Idle]
  BY <1>1 DEF IInv, TypeOK, SetVerified, Row
<1> HIDE DEF x
<1>4. TypeOK'
  BY <1>1, <1>3 DEF IInv, TypeOK
<1>5. OneRow'
  BY <1>1, <1>3, Shapes DEF IInv, TypeOK, OneRow
<1>6. SeenWasProven'
  BY <1>1, <1>3, Shapes DEF IInv, TypeOK, SeenWasProven
<1>7. VerifiedWasProven'
  BY <1>1, <1>2, <1>3 DEF IInv, TypeOK, VerifiedWasProven
<1>8. TenantWasProven'
  BY <1>3 DEF IInv, TenantWasProven
<1> QED BY <1>4, <1>5, <1>6, <1>7, <1>8 DEF IInv

\* TenantResolver: what it reads, and caches, is the answer of the database.
LEMMA ResolverInv ==
  ASSUME IInv, NEW q \in Resolvers,
         (\E d \in Domains : Miss(q, d)) \/ Respond(q)
  PROVE  IInv'
<1>1. ASSUME NEW d \in Domains, Miss(q, d) PROVE IInv'
  BY <1>1 DEF IInv, TypeOK, OneRow, SeenWasProven, VerifiedWasProven, TenantWasProven, Miss
<1>2. CASE ResolveFails(q)
  BY <1>2, Shapes DEF IInv, TypeOK, OneRow, SeenWasProven, VerifiedWasProven, TenantWasProven,
     ResolveFails
<1>3. CASE Query(q)
  <2> DEFINE d == resolve[q].domain
  <2>1. d \in Domains
    BY <1>3, Shapes DEF IInv, TypeOK, Query
  <2>2. Answer(d) \in Gates \cup {NotFound} /\ (Answer(d) # NotFound => Owned(Answer(d), d))
    BY <2>1, AnswerIsOwned
  <2>3. TypeOK'
    BY <1>3, <2>1, <2>2 DEF IInv, TypeOK, Query
  <2>4. TenantWasProven'
    BY <1>3, <2>2 DEF IInv, TypeOK, TenantWasProven, Query, Owned
  <2> QED BY <1>3, <2>3, <2>4 DEF IInv, OneRow, SeenWasProven, VerifiedWasProven, Query
<1>4. CASE Fill(q)
  <2>1. resolve[q] \in Filling
    BY <1>4, Shapes DEF IInv, TypeOK, Fill, Filling
  <2> DEFINE e == [gate |-> resolve[q].gate,
                   ttl  |-> IF resolve[q].gate = NotFound THEN MissTTL ELSE HitTTL]
  <2>2. e \in Entry
    BY <2>1, DomainAssumption DEF Filling, Entry
  <2>3. cache' = [cache EXCEPT ![resolve[q].domain] = e] /\ e.gate = resolve[q].gate
    BY <1>4 DEF Fill
  <2> HIDE DEF e
  <2>4. TypeOK'
    BY <1>4, <2>1, <2>2, <2>3 DEF IInv, TypeOK, Fill, Filling
  <2>5. TenantWasProven'
    BY <1>4, <2>1, <2>3, Shapes DEF IInv, TypeOK, TenantWasProven, Fill, Filling
  <2> QED BY <1>4, <2>4, <2>5 DEF IInv, OneRow, SeenWasProven, VerifiedWasProven, Fill
<1> QED BY <1>1, <1>2, <1>3, <1>4 DEF Respond

\* The expiry of cache entries invents none.
LEMMA TickInv ==
  ASSUME IInv, Tick
  PROVE  IInv'
<1>1. ASSUME NEW d \in Domains
      PROVE  /\ cache'[d] \in Entry \cup {NoEntry}
             /\ cache'[d] # NoEntry => cache[d] # NoEntry /\ cache'[d].gate = cache[d].gate
  <2>1. CASE cache[d] \in Entry
    BY <2>1, Shapes, DomainAssumption DEF Tick, Entry
  <2>2. CASE cache[d] = NoEntry
    BY <2>2, Shapes DEF Tick
  <2> QED BY <2>1, <2>2 DEF IInv, TypeOK
<1>2. TypeOK'
  BY <1>1 DEF IInv, TypeOK, Tick
<1>3. TenantWasProven'
  BY <1>1 DEF IInv, TenantWasProven, Tick
<1> QED BY <1>2, <1>3 DEF IInv, OneRow, SeenWasProven, VerifiedWasProven, Tick

\* Every step keeps the invariant.
LEMMA NextInv == IInv /\ [Next]_vars => IInv'
<1> SUFFICES ASSUME IInv, [Next]_vars PROVE IInv'
  OBVIOUS
<1>1. ASSUME NEW x \in Rows, DeleteDomain(x) PROVE IInv'
  <2>1. /\ table' = [y \in Rows |-> IF y \in {x} THEN NoRow ELSE table[y]]
        /\ {x} \in SUBSET Rows /\ Forget({x}) /\ gates' \subseteq gates
        /\ UNCHANGED <<dns, verify, resolve, cache>>
    BY <1>1 DEF DeleteDomain, IInv, TypeOK
  <2> QED BY <2>1, DeleteInv
<1>2. ASSUME NEW g \in Gates, DeleteGate(g) PROVE IInv'
  BY <1>2, DeleteInv DEF DeleteGate
<1>3. CASE UNCHANGED vars
  BY <1>3 DEF vars, IInv, TypeOK, OneRow, SeenWasProven, VerifiedWasProven, TenantWasProven
<1>4. ASSUME NEW d \in Domains, Hit(d) PROVE IInv'
  BY <1>3, <1>4 DEF Hit
<1> QED
  BY <1>1, <1>2, <1>3, <1>4, AddInv, ZoneInv, VerifyInv, LookupInv, VerifyFailsInv,
     SetVerifiedInv, ResolverInv, TickInv DEF Next, Verification

\* The invariant holds throughout.
LEMMA Invariance == Spec => []IInv
BY InitInv, NextInv, PTL DEF Spec

-----------------------------------------------------------------------------
(* Theorems *)

\* Rows, requests and cache entries keep their shape.
THEOREM TypeCorrect == Spec => []TypeOK
BY Invariance, PTL DEF IInv

\* verifyDomain never verifies a row whose own token was not seen, however its
\* three steps interleave with deletions and registrations.
THEOREM VerifiedProven == Spec => []VerifiedWasProven
BY Invariance, PTL DEF IInv

\* The tenant cache, which nobody invalidates, never sends a visitor to a gate
\* that did not prove the domain.
THEOREM TenantProven == Spec => []TenantWasProven
BY Invariance, PTL DEF IInv
=============================================================================
