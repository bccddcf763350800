--------------------------- MODULE PinAccessProofs ---------------------------
(***************************************************************************)
(* TLAPS proofs about PinAccess, for any gates, addresses, requests and    *)
(* codes, any limits, window, page size and quotas.                        *)
(***************************************************************************)
EXTENDS PinAccess, SequenceTheorems, TLAPS

-----------------------------------------------------------------------------
(* The inductive invariant *)

\* A pin id stands in one row of one gate.
UniqueIds ==
  \A g, h \in Gates : \A i \in 1 .. Len(codes[g]), j \in 1 .. Len(codes[h]) :
    codes[g][i].id = codes[h][j].id => g = h /\ i = j

\* The attempts let through in a window are among those its counter has counted.
TriesCounted == \A g \in Gates : tries[g] <= gateCount[g].n

\* A pin id that was not given out yet has no history.
UnusedIsNew == \A p \in Pins \ used : uses[p] = 0 /\ granted[p] = 0

IInv ==
  /\ TypeOK
  /\ UniqueIds
  /\ TriesCounted /\ GateBudget
  /\ UnusedIsNew /\ UsesAreGrants

-----------------------------------------------------------------------------
(* Lemmas *)

\* The codes that exist, row by row.
RowByRow ==
  /\ \A g \in Gates : /\ Len(codes[g]) \in Nat
                      /\ DOMAIN codes[g] = 1 .. Len(codes[g])
                      /\ \A i \in 1 .. Len(codes[g]) :
                           codes[g][i] \in PinRow /\ codes[g][i].id \in Live
  /\ \A p \in Live : \E g \in Gates : \E i \in 1 .. Len(codes[g]) : codes[g][i].id = p

\* The rows of a gate are a sequence of rows.
LEMMA LiveRows == codes \in [Gates -> Seq(PinRow)] => RowByRow
<1> SUFFICES ASSUME codes \in [Gates -> Seq(PinRow)] PROVE RowByRow
  OBVIOUS
<1>1. ASSUME NEW g \in Gates
      PROVE  /\ Len(codes[g]) \in Nat /\ DOMAIN codes[g] = 1 .. Len(codes[g])
             /\ \A i \in 1 .. Len(codes[g]) : codes[g][i] \in PinRow
  BY LenProperties, ElementOfSeq
<1>2. ASSUME NEW g \in Gates, NEW i \in 1 .. Len(codes[g]) PROVE codes[g][i].id \in Live
  BY <1>1 DEF Live, Rows
<1>3. ASSUME NEW p \in Live
      PROVE  \E g \in Gates : \E i \in 1 .. Len(codes[g]) : codes[g][i].id = p
  BY <1>1 DEF Live, Rows
<1>4. \A g \in Gates : /\ Len(codes[g]) \in Nat /\ DOMAIN codes[g] = 1 .. Len(codes[g])
                       /\ \A i \in 1 .. Len(codes[g]) :
                            codes[g][i] \in PinRow /\ codes[g][i].id \in Live
  BY <1>1, <1>2
<1> QED BY <1>3, <1>4 DEF RowByRow

\* The same after a step.
LEMMA LiveRowsNext == (codes \in [Gates -> Seq(PinRow)] => RowByRow)'
BY LiveRows, PTL

\* Removing a row keeps the others, in order.
LEMMA WithoutProperties ==
  ASSUME NEW S, NEW s \in Seq(S), NEW i \in 1 .. Len(s)
  PROVE  /\ Without(s, i) \in Seq(S)
         /\ Len(Without(s, i)) = Len(s) - 1
         /\ \A j \in 1 .. Len(s) - 1 :
              /\ Without(s, i)[j] = IF j < i THEN s[j] ELSE s[j + 1]
              /\ j \in 1 .. Len(s) /\ j + 1 \in 1 .. Len(s)
<1>1. Len(s) \in Nat /\ Len(s) - 1 \in Nat
  BY LenProperties
<1>2. \A j \in 1 .. Len(s) - 1 : j \in 1 .. Len(s) /\ j + 1 \in 1 .. Len(s)
  BY <1>1
<1>3. \A j \in 1 .. Len(s) : s[j] \in S
  BY ElementOfSeq
<1>4. Without(s, i) \in [1 .. Len(s) - 1 -> S]
  BY <1>2, <1>3 DEF Without
<1>5. Without(s, i) \in Seq(S)
  BY <1>1, <1>4, SeqDef
<1>6. DOMAIN Without(s, i) = 1 .. Len(s) - 1
  BY DEF Without
<1>7. Len(Without(s, i)) = Len(s) - 1
  BY <1>1, <1>5, <1>6, LenProperties
<1> QED BY <1>2, <1>5, <1>7 DEF Without

\* INCR; EXPIRE NX keeps a counter a counter, and counts.
LEMMA IncrProperties ==
  ASSUME NEW limit \in Nat \ {0}, NEW c \in Counter(limit)
  PROVE  /\ Incr(c, limit) \in Counter(limit)
         /\ c.n \in Nat /\ Incr(c, limit).n \in Nat /\ c.n <= Incr(c, limit).n
         /\ Incr(c, limit).n <= limit => Incr(c, limit).n = c.n + 1
<1>1. CASE c = Absent
  BY <1>1, PinAssumption DEF Incr, Counter, Absent, Cap
<1>2. CASE c # Absent
  BY <1>2, PinAssumption DEF Incr, Counter, Absent, Cap
<1> QED BY <1>1, <1>2

\* A counter that time passes over is as it was, or gone.
LEMMA AgeProperties ==
  ASSUME NEW limit \in Nat \ {0}, NEW c \in Counter(limit)
  PROVE  Age(c) \in Counter(limit) /\ (Age(c) # Absent => Age(c).n = c.n)
<1>1. CASE c = Absent
  BY <1>1 DEF Age, Counter, Absent
<1>2. CASE c # Absent
  BY <1>2, PinAssumption DEF Age, Counter, Absent, Cap
<1> QED BY <1>1, <1>2

\* Nothing is registered, counted or in progress at start.
LEMMA InitInv == Init => IInv
<1> SUFFICES ASSUME Init PROVE IInv
  OBVIOUS
<1>1. \A g \in Gates : codes[g] = <<>> /\ Len(codes[g]) = 0
  BY DEF Init
<1>2. codes \in [Gates -> Seq(PinRow)]
  BY DEF Init
<1>3. Live = {}
  BY <1>1, <1>2, LiveRows DEF RowByRow
<1>4. TypeOK
  <2>1. /\ ipCount \in [Gates -> [IPs -> Counter(MaxAttempts)]]
        /\ gateCount \in [Gates -> Counter(MaxGateAttempts)]
    BY DEF Init, Counter
  <2>2. uses \in [Pins -> Nat] /\ granted \in [Pins -> Nat] /\ tries \in [Gates -> Nat]
    BY DEF Init
  <2>3. \A p \in Pins : \E q \in Quotas \cup {0} : uses[p] <= q
    <3>1. 0 \in Quotas \cup {0} /\ \A p \in Pins : uses[p] <= 0
      BY DEF Init
    <3> QED BY <3>1
  <2>4. /\ req \in [Requests -> {Idle} \cup Busy]
        /\ \A r \in Requests : req[r].pc \notin {"idle", "counted"} => req[r].pin \in used
    BY DEF Init, Idle
  <2> QED BY <1>2, <1>3, <2>1, <2>2, <2>3, <2>4 DEF Init, TypeOK
<1>5. UniqueIds
  BY <1>1 DEF UniqueIds
<1>6. TriesCounted /\ GateBudget
  BY PinAssumption DEF Init, TriesCounted, GateBudget, Absent
<1> QED BY <1>3, <1>4, <1>5, <1>6 DEF Init, IInv, UnusedIsNew, UsesAreGrants

-----------------------------------------------------------------------------
(* Management *)

\* Create: a new row with a new id, first in its gate.
LEMMA CreateInv ==
  ASSUME IInv, NEW g \in Gates, NEW p \in Pins, NEW row \in PinRow, Create(g, p, row)
  PROVE  IInv'
<1> USE DEF IInv
<1>1. codes \in [Gates -> Seq(PinRow)] /\ p \notin Live /\ Len(codes[g]) \in Nat
  BY LenProperties DEF TypeOK, Create
<1>2. /\ <<row>> \o codes[g] \in Seq(PinRow)
      /\ Len(<<row>> \o codes[g]) = Len(codes[g]) + 1
      /\ \A i \in 1 .. Len(codes[g]) + 1 :
           (<<row>> \o codes[g])[i] = IF i = 1 THEN row ELSE codes[g][i - 1]
  <2>1. <<row>> \in Seq(PinRow) /\ Len(<<row>>) = 1 /\ <<row>>[1] = row
    OBVIOUS
  <2> QED BY <1>1, <2>1, ConcatProperties
<1>3. codes' \in [Gates -> Seq(PinRow)]
  BY <1>1, <1>2 DEF Create
<1>4. ASSUME NEW h \in Gates, NEW i \in 1 .. Len(codes'[h])
      PROVE  \/ h = g /\ i = 1 /\ codes'[h][i].id = p
             \/ h = g /\ i - 1 \in 1 .. Len(codes[h]) /\ codes'[h][i].id = codes[h][i - 1].id
             \/ h # g /\ i \in 1 .. Len(codes[h]) /\ codes'[h][i].id = codes[h][i].id
  <2>1. CASE h = g
    <3>1. codes'[h] = <<row>> \o codes[g]
      BY <1>1, <2>1 DEF Create
    <3>2. CASE i = 1
      BY <1>1, <1>2, <2>1, <3>1, <3>2 DEF Create
    <3>3. CASE i # 1
      BY <1>1, <1>2, <2>1, <3>1, <3>3
    <3> QED BY <3>2, <3>3
  <2>2. CASE h # g
    BY <1>1, <2>2 DEF Create
  <2> QED BY <2>1, <2>2
<1>5. ASSUME NEW q \in Live' PROVE q \in Live \cup {p}
  <2>0. PICK h \in Gates : \E i \in 1 .. Len(codes'[h]) : codes'[h][i].id = q
    BY <1>3, LiveRowsNext DEF RowByRow
  <2>1. PICK i \in 1 .. Len(codes'[h]) : codes'[h][i].id = q
    BY <2>0
  <2> QED BY <1>1, <1>4, <2>1, LiveRows DEF RowByRow
<1>6. UniqueIds'
  <2> SUFFICES ASSUME NEW h \in Gates, NEW k \in Gates,
                      NEW i \in 1 .. Len(codes'[h]), NEW j \in 1 .. Len(codes'[k]),
                      codes'[h][i].id = codes'[k][j].id
               PROVE  h = k /\ i = j
    BY DEF UniqueIds
  <2>1. \A m \in Gates : \A n \in 1 .. Len(codes[m]) : codes[m][n].id # p
    BY <1>1, LiveRows DEF RowByRow
  <2> DEFINE New(f, l) == f = g /\ l = 1
             Was(f, l) == IF f = g THEN l - 1 ELSE l
  <2>2. ASSUME NEW f \in Gates, NEW l \in 1 .. Len(codes'[f])
        PROVE  \/ New(f, l) /\ codes'[f][l].id = p
               \/ Was(f, l) \in 1 .. Len(codes[f]) /\ codes'[f][l].id = codes[f][Was(f, l)].id
    BY <1>4
  <2>3. i \in Int /\ j \in Int
    OBVIOUS
  <2>4. CASE codes'[h][i].id = p
    <3>1. New(h, i) /\ New(k, j)
      BY <2>1, <2>2, <2>4
    <3> QED BY <3>1
  <2>5. CASE codes'[h][i].id # p
    <3> DEFINE a == Was(h, i)
               b == Was(k, j)
    <3>1. /\ a \in 1 .. Len(codes[h]) /\ codes'[h][i].id = codes[h][a].id
          /\ b \in 1 .. Len(codes[k]) /\ codes'[k][j].id = codes[k][b].id
      BY <2>2, <2>5
    <3>2. a = b /\ h = k => i = j
      BY <2>3
    <3> HIDE DEF a, b
    <3>3. codes[h][a].id = codes[k][b].id
      BY <3>1
    <3>4. h = k /\ a = b
      BY <3>1, <3>3 DEF UniqueIds
    <3> QED BY <3>2, <3>4
  <2> QED BY <2>4, <2>5
<1>7. TypeOK'
  <2>1. used' \subseteq Pins /\ Live' \subseteq used' /\ dropping' \subseteq used' \ Live'
    BY <1>5 DEF TypeOK, Create
  <2>2. \A r \in Requests : req'[r].pc \notin {"idle", "counted"} => req'[r].pin \in used'
    BY DEF TypeOK, Create
  <2> QED BY <1>3, <2>1, <2>2 DEF TypeOK, Create, counters, observers
<1>8. TriesCounted' /\ GateBudget' /\ UnusedIsNew'
  BY DEF TriesCounted, GateBudget, UnusedIsNew, Create, counters, observers
<1>9. UsesAreGrants'
  BY <1>5 DEF UnusedIsNew, UsesAreGrants, Create, observers
<1> QED BY <1>6, <1>7, <1>8, <1>9

\* What a change of the rows keeps, if it adds no id: Update and Delete.
LEMMA FewerRows ==
  ASSUME IInv, codes' \in [Gates -> Seq(PinRow)], UniqueIds', Live' \subseteq Live,
         dropping' \subseteq used \ Live',
         UNCHANGED <<used, counters, uses, req, observers>>
  PROVE  IInv'
<1> USE DEF IInv, counters, observers
<1>1. TypeOK'
  BY DEF TypeOK
<1>2. TriesCounted' /\ GateBudget' /\ UnusedIsNew' /\ UsesAreGrants'
  BY DEF TriesCounted, GateBudget, UnusedIsNew, UsesAreGrants
<1> QED BY <1>1, <1>2

\* Update: quota and restriction change, the id does not.
LEMMA UpdateInv ==
  ASSUME IInv, NEW g \in Gates, NEW i \in DOMAIN codes[g], NEW quota \in Quotas,
         NEW restricted \in BOOLEAN, Update(g, i, quota, restricted)
  PROVE  IInv'
<1>1. codes \in [Gates -> Seq(PinRow)]
  BY DEF IInv, TypeOK
<1>2. i \in 1 .. Len(codes[g]) /\ codes[g][i] \in PinRow
  BY <1>1, LiveRows DEF RowByRow
<1> DEFINE row == [codes[g][i] EXCEPT !.quota = quota, !.restricted = restricted]
<1>3. row \in PinRow /\ row.id = codes[g][i].id
  BY <1>2 DEF PinRow
<1>4. codes' = [codes EXCEPT ![g] = [codes[g] EXCEPT ![i] = row]]
  BY <1>1, <1>2, LiveRows DEF RowByRow, Update
<1> HIDE DEF row
<1>5. /\ [codes[g] EXCEPT ![i] = row] \in Seq(PinRow)
      /\ Len([codes[g] EXCEPT ![i] = row]) = Len(codes[g])
      /\ \A j \in 1 .. Len(codes[g]) :
           [codes[g] EXCEPT ![i] = row][j].id = codes[g][j].id
  BY <1>1, <1>2, <1>3, ExceptSeq
<1>6. /\ codes' \in [Gates -> Seq(PinRow)]
      /\ \A h \in Gates : /\ Len(codes'[h]) = Len(codes[h])
                          /\ \A j \in 1 .. Len(codes[h]) : codes'[h][j].id = codes[h][j].id
  BY <1>1, <1>4, <1>5
<1>7. UniqueIds'
  BY <1>6 DEF IInv, UniqueIds
<1>8. ASSUME NEW q \in Live' PROVE q \in Live
  <2>0. PICK h \in Gates : \E j \in 1 .. Len(codes'[h]) : codes'[h][j].id = q
    BY <1>6, LiveRowsNext DEF RowByRow
  <2>1. PICK j \in 1 .. Len(codes'[h]) : codes'[h][j].id = q
    BY <2>0
  <2> QED BY <1>1, <1>6, <2>1, LiveRows DEF RowByRow
<1>9. dropping' \subseteq used \ Live'
  BY <1>8 DEF Update, IInv, TypeOK
<1> QED BY <1>6, <1>7, <1>8, <1>9, FewerRows DEF Update

\* Delete: the row goes, and its id with it.
LEMMA DeleteInv ==
  ASSUME IInv, NEW g \in Gates, NEW i \in DOMAIN codes[g], Delete(g, i)
  PROVE  IInv'
<1>1. codes \in [Gates -> Seq(PinRow)] /\ codes[g] \in Seq(PinRow)
  BY DEF IInv, TypeOK
<1>2. i \in 1 .. Len(codes[g]) /\ Len(codes[g]) \in Nat
  BY <1>1, LiveRows DEF RowByRow
<1>3. codes' = [codes EXCEPT ![g] = Without(codes[g], i)]
  BY DEF Delete
<1>4. codes' \in [Gates -> Seq(PinRow)]
  BY <1>1, <1>2, <1>3, WithoutProperties
<1>5. ASSUME NEW h \in Gates, NEW j \in 1 .. Len(codes'[h])
      PROVE  \/ h # g /\ j \in 1 .. Len(codes[h]) /\ codes'[h][j] = codes[h][j]
             \/ h = g /\ j < i /\ j \in 1 .. Len(codes[h]) /\ codes'[h][j] = codes[h][j]
             \/ h = g /\ j >= i /\ j + 1 \in 1 .. Len(codes[h]) /\ codes'[h][j] = codes[h][j + 1]
  <2>1. CASE h = g
    <3>1. codes'[h] = Without(codes[g], i)
      BY <1>1, <1>3, <2>1
    <3>2. j \in 1 .. Len(codes[g]) - 1
      BY <1>1, <1>2, <3>1, WithoutProperties
    <3>3. /\ codes'[h][j] = IF j < i THEN codes[g][j] ELSE codes[g][j + 1]
          /\ j \in 1 .. Len(codes[g]) /\ j + 1 \in 1 .. Len(codes[g])
      <4>1. j \in 1 .. Len(codes[g]) /\ j + 1 \in 1 .. Len(codes[g])
        BY <1>2, <3>2
      <4> QED BY <1>1, <1>2, <3>1, <3>2, <4>1, WithoutProperties
    <3>4. j \in Int /\ i \in Int
      BY <1>2, <3>2
    <3>5. CASE j < i
      BY <2>1, <3>3, <3>5
    <3>6. CASE j >= i
      BY <2>1, <3>3, <3>4, <3>6
    <3> QED BY <3>4, <3>5, <3>6
  <2>2. CASE h # g
    BY <1>1, <1>3, <2>2
  <2> QED BY <2>1, <2>2
<1>6. UniqueIds'
  <2> SUFFICES ASSUME NEW h \in Gates, NEW k \in Gates,
                      NEW m \in 1 .. Len(codes'[h]), NEW n \in 1 .. Len(codes'[k]),
                      codes'[h][m].id = codes'[k][n].id
               PROVE  h = k /\ m = n
    BY DEF UniqueIds
  <2>1. m \in Int /\ n \in Int /\ i \in Int
    BY <1>2
  <2> DEFINE Was(f, l) == IF f = g /\ l >= i THEN l + 1 ELSE l
  <2>2. /\ Was(h, m) \in 1 .. Len(codes[h]) /\ codes'[h][m] = codes[h][Was(h, m)]
        /\ Was(k, n) \in 1 .. Len(codes[k]) /\ codes'[k][n] = codes[k][Was(k, n)]
    <3>1. Was(h, m) \in 1 .. Len(codes[h]) /\ codes'[h][m] = codes[h][Was(h, m)]
      BY <1>5, <2>1
    <3>2. Was(k, n) \in 1 .. Len(codes[k]) /\ codes'[k][n] = codes[k][Was(k, n)]
      BY <1>5, <2>1
    <3> QED BY <3>1, <3>2
  <2> HIDE DEF Was
  <2>3. h = k /\ Was(h, m) = Was(k, n)
    BY <2>2 DEF IInv, UniqueIds
  <2> QED BY <2>1, <2>3 DEF Was
<1>7. ASSUME NEW q \in Live' PROVE q \in Live /\ q # codes[g][i].id
  <2>0. PICK h \in Gates : \E j \in 1 .. Len(codes'[h]) : codes'[h][j].id = q
    BY <1>4, LiveRowsNext DEF RowByRow
  <2>1. PICK j \in 1 .. Len(codes'[h]) : codes'[h][j].id = q
    BY <2>0
  <2>2. j \in Int /\ i \in Int
    BY <1>2
  <2>3. \E m \in 1 .. Len(codes[h]) : codes[h][m].id = q /\ (h = g => m # i)
    <3>1. CASE h = g /\ j >= i
      BY <1>5, <2>1, <2>2, <3>1
    <3>2. CASE ~ (h = g /\ j >= i)
      BY <1>5, <2>1, <2>2, <3>2
    <3> QED BY <3>1, <3>2
  <2> QED BY <1>1, <1>2, <2>3, LiveRows DEF RowByRow, IInv, UniqueIds
<1>8. dropping' \subseteq used \ Live'
  <2>1. codes[g][i].id \in Live
    BY <1>1, <1>2, LiveRows DEF RowByRow
  <2> QED BY <1>7, <2>1 DEF Delete, IInv, TypeOK
<1> QED BY <1>4, <1>6, <1>7, <1>8, FewerRows DEF Delete

\* DropUses: the counter that goes, or stays, is that of a deleted code.
LEMMA DropInv ==
  ASSUME IInv, NEW p \in Pins, DropUses(p)
  PROVE  IInv'
<1> USE DEF IInv, counters, observers
<1>1. p \in used /\ p \notin Live /\ Live' = Live
  BY DEF TypeOK, DropUses, Live, Rows
<1>2. uses' \in [Pins -> Nat] /\ \A q \in Pins : uses'[q] = uses[q] \/ (q = p /\ uses'[q] = 0)
  <2>1. uses \in [Pins -> Nat] /\ (uses' = uses \/ uses' = [uses EXCEPT ![p] = 0])
    BY DEF TypeOK, DropUses
  <2> QED BY <2>1
<1>3. ASSUME NEW q \in Pins PROVE \E k \in Quotas \cup {0} : uses'[q] <= k
  <2>1. PICK k \in Quotas \cup {0} : uses[q] <= k
    BY DEF TypeOK
  <2>2. CASE uses'[q] = uses[q]
    BY <2>1, <2>2
  <2>3. CASE uses'[q] = 0
    BY <2>3
  <2> QED BY <1>2, <2>2, <2>3
<1>4. TypeOK'
  BY <1>1, <1>2, <1>3 DEF TypeOK, DropUses
<1>5. UnusedIsNew' /\ UsesAreGrants'
  BY <1>1, <1>2 DEF TypeOK, DropUses, UnusedIsNew, UsesAreGrants
<1> QED BY <1>4, <1>5 DEF DropUses, UniqueIds, TriesCounted, GateBudget

-----------------------------------------------------------------------------
(* Requests *)

\* INCR of both counters; a request is let through only below the limits.
LEMMA AttemptInv ==
  ASSUME IInv, NEW r \in Requests, NEW g \in Gates, NEW ip \in IPs,
         \/ \E kind \in {"unlock", "open"}, code \in Codes : Attempt(r, kind, g, ip, code)
         \/ AttemptDenied(r, g, ip)
  PROVE  IInv'
<1> USE DEF IInv, observers
<1>1. /\ CountAttempt(g, ip) /\ UNCHANGED <<codes, used, dropping, uses, granted>>
      /\ Live' = Live
  BY DEF Attempt, AttemptDenied, Live, Rows
<1>2. ipCount' \in [Gates -> [IPs -> Counter(MaxAttempts)]]
  <2>1. ipCount[g][ip] \in Counter(MaxAttempts) /\ ipCount[g] \in [IPs -> Counter(MaxAttempts)]
    BY DEF TypeOK
  <2>2. Incr(ipCount[g][ip], MaxAttempts) \in Counter(MaxAttempts)
    BY <2>1, IncrProperties, PinAssumption
  <2> QED BY <1>1, <2>1, <2>2 DEF TypeOK, CountAttempt
<1>3. /\ gateCount' \in [Gates -> Counter(MaxGateAttempts)]
      /\ \A h \in Gates : gateCount[h].n \in Nat /\ gateCount'[h].n \in Nat
                          /\ gateCount[h].n <= gateCount'[h].n
      /\ gateCount'[g].n <= MaxGateAttempts => gateCount'[g].n = gateCount[g].n + 1
  <2>1. \A h \in Gates : gateCount[h] \in Counter(MaxGateAttempts)
    BY DEF TypeOK
  <2>2. \A h \in Gates :
          /\ Incr(gateCount[h], MaxGateAttempts) \in Counter(MaxGateAttempts)
          /\ gateCount[h].n \in Nat /\ Incr(gateCount[h], MaxGateAttempts).n \in Nat
          /\ gateCount[h].n <= Incr(gateCount[h], MaxGateAttempts).n
          /\ Incr(gateCount[h], MaxGateAttempts).n <= MaxGateAttempts =>
               Incr(gateCount[h], MaxGateAttempts).n = gateCount[h].n + 1
    BY <2>1, IncrProperties, PinAssumption
  <2>3. \A h \in Gates : gateCount'[h] = IF h = g THEN Incr(gateCount[h], MaxGateAttempts)
                                         ELSE gateCount[h]
    BY <1>1 DEF TypeOK, CountAttempt
  <2>4. gateCount' \in [Gates -> Counter(MaxGateAttempts)]
    BY <1>1, <2>2 DEF TypeOK, CountAttempt
  <2>5. ASSUME NEW h \in Gates
        PROVE  gateCount[h].n \in Nat /\ gateCount'[h].n \in Nat /\ gateCount[h].n <= gateCount'[h].n
    <3>1. gateCount[h].n \in Nat
      BY <2>2
    <3>2. CASE h = g
      BY <2>2, <2>3, <3>2
    <3>3. CASE h # g
      BY <2>3, <3>1, <3>3
    <3> QED BY <3>2, <3>3
  <2>6. gateCount'[g].n <= MaxGateAttempts => gateCount'[g].n = gateCount[g].n + 1
    BY <2>2, <2>3
  <2> QED BY <2>4, <2>5, <2>6
<1>4. UniqueIds' /\ UnusedIsNew' /\ UsesAreGrants'
  BY <1>1 DEF UniqueIds, UnusedIsNew, UsesAreGrants
<1>5. /\ used' \subseteq Pins /\ Live' \subseteq used' /\ dropping' \subseteq used' \ Live'
      /\ codes' \in [Gates -> Seq(PinRow)]
      /\ uses' \in [Pins -> Nat] /\ granted' \in [Pins -> Nat]
      /\ \A p \in Pins : \E q \in Quotas \cup {0} : uses'[p] <= q
  BY <1>1 DEF TypeOK
<1>6. CASE AttemptDenied(r, g, ip)
  <2>1. tries' = tries /\ req' = req
    BY <1>6 DEF AttemptDenied
  <2>2. TypeOK'
    BY <1>1, <1>2, <1>3, <1>5, <2>1 DEF TypeOK
  <2>3. ASSUME NEW h \in Gates PROVE tries'[h] <= gateCount'[h].n
    <3>1. tries[h] \in Nat /\ tries[h] <= gateCount[h].n
      BY DEF TypeOK, TriesCounted
    <3>2. /\ gateCount[h].n \in Nat /\ gateCount'[h].n \in Nat
          /\ gateCount[h].n <= gateCount'[h].n
      BY <1>3
    <3> QED BY <2>1, <3>1, <3>2
  <2>4. TriesCounted' /\ GateBudget'
    BY <2>1, <2>3 DEF TriesCounted, GateBudget
  <2> QED BY <1>4, <2>2, <2>4
<1>7. ASSUME NEW kind \in {"unlock", "open"}, NEW code \in Codes, Attempt(r, kind, g, ip, code)
      PROVE  IInv'
  <2>1. tries' \in [Gates -> Nat] /\ tries'[g] = tries[g] + 1
        /\ \A h \in Gates \ {g} : tries'[h] = tries[h]
    BY <1>7 DEF Attempt, TypeOK
  <2>2. gateCount'[g].n <= MaxGateAttempts
    BY <1>3, <1>7, PinAssumption DEF Attempt, Limited
  <2>3. /\ req' \in [Requests -> {Idle} \cup Busy]
        /\ \A q \in Requests : req'[q].pc \notin {"idle", "counted"} => req'[q].pin \in used'
    BY <1>1, <1>7 DEF Attempt, TypeOK, Busy
  <2>4. TypeOK'
    BY <1>2, <1>3, <1>5, <2>1, <2>3 DEF TypeOK
  <2>5. ASSUME NEW h \in Gates PROVE tries'[h] <= gateCount'[h].n /\ tries'[h] <= MaxGateAttempts
    <3>1. /\ tries[h] \in Nat /\ gateCount[h].n \in Nat /\ gateCount'[h].n \in Nat
          /\ tries[h] <= gateCount[h].n /\ tries[h] <= MaxGateAttempts /\ MaxGateAttempts \in Nat
      BY <1>3, PinAssumption DEF TypeOK, TriesCounted, GateBudget
    <3>2. CASE h = g
      BY <1>3, <2>1, <2>2, <3>1, <3>2
    <3>3. CASE h # g
      <4>1. tries'[h] = tries[h] /\ gateCount[h].n <= gateCount'[h].n
        BY <1>3, <2>1, <3>3
      <4> QED BY <3>1, <4>1
    <3> QED BY <3>2, <3>3
  <2>6. TriesCounted' /\ GateBudget'
    BY <2>5 DEF TriesCounted, GateBudget
  <2> QED BY <1>4, <2>4, <2>6
<1> QED BY <1>6, <1>7

\* What a request does to itself alone disturbs nothing else.
LEMMA RequestAlone ==
  ASSUME IInv, NEW r \in Requests, NEW s \in {Idle} \cup Busy,
         s.pc \notin {"idle", "counted"} => s.pin \in used,
         req' = [req EXCEPT ![r] = s],
         UNCHANGED <<codes, used, dropping, counters, uses, observers>>
  PROVE  IInv'
<1> USE DEF IInv, counters, observers
<1>1. Live' = Live
  BY DEF Live, Rows
<1>2. /\ req' \in [Requests -> {Idle} \cup Busy]
      /\ \A q \in Requests : req'[q].pc \notin {"idle", "counted"} => req'[q].pin \in used'
  BY DEF TypeOK
<1>3. TypeOK'
  BY <1>1, <1>2 DEF TypeOK
<1> QED BY <1>1, <1>3 DEF UniqueIds, TriesCounted, GateBudget, UnusedIsNew, UsesAreGrants

\* validatePIN reads the page, and either matches a code that exists or ends.
LEMMA ValidateInv ==
  ASSUME IInv, NEW r \in Requests, Match(r) \/ Reject(r) \/ ListFails(r)
  PROVE  IInv'
<1>1. Idle \in {Idle} \cup Busy /\ Idle.pc = "idle"
  BY DEF Idle
<1>2. CASE Reject(r) \/ ListFails(r)
  BY <1>1, <1>2, RequestAlone DEF Reject, ListFails
<1>3. CASE Match(r)
  <2>1. req[r] \in Busy
    <3>1. req[r].pc = "counted" /\ req[r] \in {Idle} \cup Busy
      BY <1>3 DEF IInv, TypeOK, Match
    <3> QED BY <1>1, <3>1
  <2> DEFINE g == req[r].gate
  <2>2. g \in Gates
    BY <2>1 DEF Busy
  <2>3. PICK i \in FirstHit(g, req[r].code) :
          req' = [req EXCEPT ![r].pc = "matched", ![r].pin = codes[g][i].id,
                             ![r].quota = codes[g][i].quota]
    BY <1>3 DEF Match
  <2>4. codes[g][i] \in PinRow /\ codes[g][i].id \in Live
    <3>1. i \in Page(g)
      BY <2>3 DEF FirstHit, Hits
    <3>2. codes \in [Gates -> Seq(PinRow)]
      BY DEF IInv, TypeOK
    <3>3. Len(codes[g]) \in Nat /\ MaxPageLimit \in Nat
      BY <2>2, <3>2, LiveRows, PinAssumption DEF RowByRow
    <3>4. i \in 1 .. Len(codes[g])
      BY <3>1, <3>3 DEF Page
    <3> QED BY <2>2, <3>2, <3>4, LiveRows DEF RowByRow
  <2> DEFINE s == [req[r] EXCEPT !.pc = "matched", !.pin = codes[g][i].id,
                                 !.quota = codes[g][i].quota]
  <2>5. codes[g][i].id \in Pins /\ codes[g][i].quota \in Quotas /\ codes[g][i].id \in used
    BY <2>4 DEF PinRow, IInv, TypeOK
  <2>6. s \in Busy /\ s.pin \in used
    BY <2>1, <2>5 DEF Busy
  <2>7. req' = [req EXCEPT ![r] = s]
    BY <2>1, <2>3 DEF IInv, TypeOK, Busy
  <2> HIDE DEF s
  <2>8. UNCHANGED <<codes, used, dropping, counters, uses, observers>>
    BY <1>3 DEF Match
  <2> QED BY <2>6, <2>7, <2>8, RequestAlone
<1> QED BY <1>2, <1>3

\* A request that moves on to the next stage keeps its pin.
LEMMA Staged ==
  ASSUME IInv, NEW r \in Requests, req[r].pc \notin {"idle", "counted"},
         NEW pc \in {"admitted", "granted", "issued"}
  PROVE  LET s == [req[r] EXCEPT !.pc = pc]
         IN  /\ s \in {Idle} \cup Busy /\ s.pin \in used /\ req[r] \in Busy
             /\ [req EXCEPT ![r].pc = pc] = [req EXCEPT ![r] = s]
<1>1. req[r] \in Busy /\ req[r].pin \in used
  BY DEF IInv, TypeOK, Idle
<1> QED BY <1>1 DEF Busy, IInv, TypeOK

\* Free uses, sessions and triggers leave codes and counters alone.
LEMMA FinishInv ==
  ASSUME IInv, NEW r \in Requests, FreeUse(r) \/ IssueSession(r) \/ TriggerGate(r)
  PROVE  IInv'
<1>1. Idle \in {Idle} \cup Busy /\ Idle.pc = "idle"
  BY DEF Idle
<1>2. CASE FreeUse(r)
  BY <1>2, Staged, RequestAlone DEF FreeUse
<1>3. CASE IssueSession(r)
  <2>1. /\ req[r].pc = "granted" /\ UNCHANGED <<codes, used, dropping, counters, uses, observers>>
        /\ \/ req' = [req EXCEPT ![r].pc = "issued"]
           \/ req' = [req EXCEPT ![r] = Idle]
    BY <1>3 DEF IssueSession
  <2>2. CASE req' = [req EXCEPT ![r].pc = "issued"]
    BY <2>1, <2>2, Staged, RequestAlone
  <2>3. CASE req' = [req EXCEPT ![r] = Idle]
    BY <1>1, <2>1, <2>3, RequestAlone
  <2> QED BY <2>1, <2>2, <2>3
<1>4. CASE TriggerGate(r)
  BY <1>1, <1>4, RequestAlone DEF TriggerGate
<1> QED BY <1>2, <1>3, <1>4

\* A success deletes the counter of its IP; that of the gate goes on.
LEMMA ClearInv ==
  ASSUME IInv, NEW r \in Requests, ClearAttempts(r)
  PROVE  IInv'
<1> USE DEF IInv, observers
<1>1. req[r] \in Busy /\ req[r].gate \in Gates /\ req[r].ip \in IPs
  BY DEF TypeOK, ClearAttempts, Idle, Busy
<1>2. /\ req' \in [Requests -> {Idle} \cup Busy]
      /\ \A q \in Requests : req'[q].pc \notin {"idle", "counted"} => req'[q].pin \in used
  BY <1>1 DEF TypeOK, ClearAttempts, Busy
<1>3. ipCount' \in [Gates -> [IPs -> Counter(MaxAttempts)]]
  <2>1. \/ ipCount' = ipCount
        \/ ipCount' = [ipCount EXCEPT ![req[r].gate][req[r].ip] = Absent]
    BY DEF ClearAttempts
  <2>2. ipCount \in [Gates -> [IPs -> Counter(MaxAttempts)]] /\ Absent \in Counter(MaxAttempts)
    BY DEF TypeOK, Counter
  <2> QED BY <1>1, <2>1, <2>2
<1>4. Live' = Live
  BY DEF ClearAttempts, Live, Rows
<1>5. TypeOK'
  BY <1>2, <1>3, <1>4 DEF TypeOK, ClearAttempts
<1> QED BY <1>4, <1>5 DEF ClearAttempts, UniqueIds, TriesCounted, GateBudget, UnusedIsNew, UsesAreGrants

-----------------------------------------------------------------------------
(* Uses *)

\* The script adds one use, within the quota, or none.
LEMMA ScriptPays ==
  ASSUME IInv, NEW r \in Requests, RunScript(r)
  PROVE  LET p == req[r].pin
         IN  /\ req[r] \in Busy /\ p \in used /\ p \in Pins /\ req[r].quota \in Nat
             /\ uses[p] \in Nat /\ granted[p] \in Nat
             /\ \/ uses' = uses /\ granted' = granted
                \/ /\ uses' = [uses EXCEPT ![p] = uses[p] + 1]
                   /\ granted' = [granted EXCEPT ![p] = granted[p] + 1]
                   /\ uses[p] + 1 <= req[r].quota
<1> DEFINE p == req[r].pin
<1>1. req[r] \in Busy /\ p \in used /\ p \in Pins
  BY DEF IInv, TypeOK, RunScript, Idle
<1>2. req[r].quota \in Nat /\ uses[p] \in Nat /\ granted[p] \in Nat
  <2>1. req[r].quota \in Quotas \cup {0}
    BY <1>1 DEF Busy
  <2>2. req[r].quota \in Nat
    <3>1. \A k \in Quotas \cup {0} : k \in Nat
      BY PinAssumption
    <3> QED BY <2>1, <3>1
  <2>3. uses \in [Pins -> Nat] /\ granted \in [Pins -> Nat]
    BY DEF IInv, TypeOK
  <2> QED BY <1>1, <2>2, <2>3
<1>3. CASE Exceeded(p, req[r].quota)
  <2>1. uses' = uses /\ granted' = granted
    BY <1>1, <1>3 DEF RunScript, useScript, IInv, TypeOK
  <2> QED BY <1>1, <1>2, <2>1
<1>4. CASE ~ Exceeded(p, req[r].quota)
  BY <1>1, <1>2, <1>4 DEF RunScript, useScript, Exceeded
<1> QED BY <1>3, <1>4

\* IncrementPinUses, answered or not: use counter and grants move together.
LEMMA PayInv ==
  ASSUME IInv, NEW r \in Requests, PayUse(r) \/ UseUnconfirmed(r)
  PROVE  IInv'
<1> USE DEF IInv, counters
<1> DEFINE p == req[r].pin
<1>1. RunScript(r)
  BY DEF PayUse, UseUnconfirmed
<1>2. /\ req[r] \in Busy /\ p \in used /\ p \in Pins /\ req[r].quota \in Nat
      /\ uses[p] \in Nat /\ granted[p] \in Nat
      /\ \/ uses' = uses /\ granted' = granted
         \/ /\ uses' = [uses EXCEPT ![p] = uses[p] + 1]
            /\ granted' = [granted EXCEPT ![p] = granted[p] + 1]
            /\ uses[p] + 1 <= req[r].quota
  BY <1>1, ScriptPays
<1>3. UNCHANGED <<codes, used, dropping, ipCount, gateCount, tries>> /\ Live' = Live
  BY <1>1 DEF RunScript, Live, Rows
<1>4. req' \in {[req EXCEPT ![r] = Idle], [req EXCEPT ![r].pc = "granted"]}
  BY DEF PayUse, UseUnconfirmed
<1>5. /\ req' \in [Requests -> {Idle} \cup Busy]
      /\ \A q \in Requests : req'[q].pc \notin {"idle", "counted"} => req'[q].pin \in used
  <2>1. CASE req' = [req EXCEPT ![r] = Idle]
    BY <2>1 DEF TypeOK, Idle
  <2>2. CASE req' = [req EXCEPT ![r].pc = "granted"]
    BY <1>2, <2>2 DEF TypeOK, Busy
  <2> QED BY <1>4, <2>1, <2>2
<1>6. uses' \in [Pins -> Nat] /\ granted' \in [Pins -> Nat]
  <2>1. uses \in [Pins -> Nat] /\ granted \in [Pins -> Nat]
    BY DEF TypeOK
  <2>2. uses[p] + 1 \in Nat /\ granted[p] + 1 \in Nat
    BY <1>2
  <2> HIDE DEF p
  <2> QED BY <1>2, <2>1, <2>2
<1>7. ASSUME NEW q \in Pins PROVE \E k \in Quotas \cup {0} : uses'[q] <= k
  <2>1. \E k \in Quotas \cup {0} : uses[q] <= k
    BY DEF TypeOK
  <2>2. CASE uses'[q] = uses[q]
    BY <2>1, <2>2
  <2>3. CASE uses'[q] # uses[q]
    <3>1. q = p /\ uses'[q] = uses[p] + 1 /\ uses[p] + 1 <= req[r].quota
      BY <1>2, <2>3 DEF TypeOK
    <3>2. req[r].quota \in Quotas \cup {0}
      BY <1>2 DEF Busy
    <3> QED BY <3>1, <3>2
  <2> QED BY <2>2, <2>3
<1>8. TypeOK'
  BY <1>3, <1>5, <1>6, <1>7 DEF TypeOK
<1>9. UnusedIsNew'
  BY <1>2, <1>3 DEF TypeOK, UnusedIsNew
<1>10. UsesAreGrants'
  <2>1. \A q \in Live : q \in Pins /\ uses[q] = granted[q]
    BY DEF TypeOK, UsesAreGrants
  <2> QED BY <1>2, <1>3, <2>1 DEF TypeOK, UsesAreGrants
<1>11. UniqueIds' /\ TriesCounted' /\ GateBudget'
  BY <1>3 DEF UniqueIds, TriesCounted, GateBudget
<1> QED BY <1>8, <1>9, <1>10, <1>11

\* Windows that close forget their attempts, the others keep them.
LEMMA TickInv ==
  ASSUME IInv, Tick
  PROVE  IInv'
<1> USE DEF IInv
<1>1. ipCount' \in [Gates -> [IPs -> Counter(MaxAttempts)]]
  <2>1. \A g \in Gates : \A ip \in IPs : Age(ipCount[g][ip]) \in Counter(MaxAttempts)
    BY AgeProperties, PinAssumption DEF TypeOK
  <2> QED BY <2>1 DEF Tick
<1>2. \A g \in Gates : /\ gateCount'[g] \in Counter(MaxGateAttempts)
                       /\ gateCount'[g] # Absent => gateCount'[g].n = gateCount[g].n
  BY AgeProperties, PinAssumption DEF TypeOK, Tick
<1>3. gateCount' \in [Gates -> Counter(MaxGateAttempts)] /\ tries' \in [Gates -> Nat]
  BY <1>2 DEF TypeOK, Tick
<1>4. Live' = Live
  BY DEF Tick, Live, Rows
<1>5. TypeOK'
  BY <1>1, <1>3, <1>4 DEF TypeOK, Tick
<1>6. ASSUME NEW g \in Gates PROVE tries'[g] <= gateCount'[g].n /\ tries'[g] <= MaxGateAttempts
  <2>1. CASE gateCount'[g] = Absent
    BY <2>1, PinAssumption DEF Tick, Absent
  <2>2. CASE gateCount'[g] # Absent
    BY <1>2, <2>2 DEF Tick, TriesCounted, GateBudget
  <2> QED BY <2>1, <2>2
<1> QED BY <1>4, <1>5, <1>6 DEF Tick, UniqueIds, TriesCounted, GateBudget, UnusedIsNew, UsesAreGrants

\* Every step of managers, requests and time keeps the invariant.
LEMMA NextInv == IInv /\ [Next]_vars => IInv'
<1> SUFFICES ASSUME IInv, [Next]_vars PROVE IInv'
  OBVIOUS
<1>1. CASE Manage
  BY <1>1, CreateInv, UpdateInv, DeleteInv, DropInv DEF Manage
<1>2. ASSUME NEW r \in Requests, Arrive(r) PROVE IInv'
  BY <1>2, AttemptInv DEF Arrive
<1>3. ASSUME NEW r \in Requests, Proceed(r) PROVE IInv'
  BY <1>3, ValidateInv, ClearInv, PayInv, FinishInv DEF Proceed
<1>4. CASE UNCHANGED vars
  BY <1>4 DEF vars, counters, observers, IInv, TypeOK, Live, Rows, UniqueIds, TriesCounted,
     GateBudget, UnusedIsNew, UsesAreGrants
<1> QED BY <1>1, <1>2, <1>3, <1>4, TickInv DEF Next

\* The invariant holds throughout.
LEMMA Invariance == Spec => []IInv
BY InitInv, NextInv, PTL DEF Spec

-----------------------------------------------------------------------------
(* Theorems *)

\* Rows, counters and requests keep their shape: no counter outlives its
\* window, no deleted code keeps a row, no request pays for an unknown one.
THEOREM TypeCorrect == Spec => []TypeOK
BY Invariance, PTL DEF IInv

\* However requests interleave and whatever successes forgive their IPs,
\* validatePIN lets at most MaxGateAttempts attempts of a window through.
THEOREM GateBudgetHolds == Spec => []GateBudget
BY Invariance, PTL DEF IInv

\* The use counter of a code that exists is exactly the uses paid for.
THEOREM UsesAreGrantsHolds == Spec => []UsesAreGrants
BY Invariance, PTL DEF IInv
=============================================================================
