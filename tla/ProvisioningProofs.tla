------------------------- MODULE ProvisioningProofs -------------------------
(***************************************************************************)
(* TLAPS proofs about Provisioning, for any requests, members, subjects,   *)
(* names and one-time codes.                                               *)
(***************************************************************************)
EXTENDS Provisioning, FiniteSetTheorems, TLAPS

-----------------------------------------------------------------------------
(* The inductive invariant *)

Critical  == SetupSteps \ {"lock"}                        \* under initMu
Unnamed   == {"lock", "hasAny", "getByUsername", "register", "create"}
Unclaimed == {"find", "provision", "provisionSuffixed"}
Resolved  == {"getMember", "identity", "issue"}           \* the member is known
Placed    == Resolved \cup {"registerPassword", "registerTokens", "createPassword",
                            "updatePassword", "insertPassword"}
First     == {"provision", "provisionSuffixed", "identity"}

\* What a request carries at the statement it is at.
Shape(s) ==
  /\ s.pc \in Unnamed => s.name \in Names
  /\ s.pc \in Unclaimed => s.name \in Bases
  /\ s.pc \in Placed => s.id \in Ids
  /\ s.pc \in SsoSteps => s.state \in States
  /\ s.pc \in SsoSteps \ {"exchange"} => s.sub \in Subjects

TypeInv == TypeOK /\ \A r \in Requests : Shape(req[r])

OfSetup(i) == Live(i) /\ members[i].origin = "setup"

\* One setup request at a time is past the mutex, and none has made a member
\* between the check of HasAny and its own INSERT.
SetupInv ==
  /\ \A r \in Requests : req[r].pc \in Critical => initMu = r
  /\ \A r \in Requests, i \in Ids : req[r].pc \in {"getByUsername", "register"} => ~ OfSetup(i)
  /\ \A i, j \in Ids : OfSetup(i) /\ OfSetup(j) => i = j

\* A member that setup is about to confirm has its password, if it still exists.
PasswordInv ==
  /\ confirmed \subseteq password
  /\ \A r \in Requests : req[r].pc = "registerTokens" /\ Live(req[r].id) => req[r].id \in password

\* Identities, logins and codes are those of the subject the member was made for.
OwnerInv ==
  /\ \A s \in Subjects, i \in Ids : <<s, i>> \in identities => Live(i) /\ members[i].origin = s
  /\ \A r \in Requests : req[r].pc \in Resolved /\ Live(req[r].id) =>
       members[req[r].id].origin = req[r].sub
  /\ \A c \in Codes : codes[c] # NoCode /\ Live(codes[c].id) =>
       members[codes[c].id].origin = codes[c].sub

\* An authorization is not used, or it is in one request, or in one code, or
\* delivered.
Running(r) == req[r].pc \in SsoSteps
Issued(c)  == codes[c] # NoCode
Spent(t)   == states[t] = "gone" /\ delivered[t] = None

StateInv ==
  /\ \A q, r \in Requests : Running(q) /\ Running(r) /\ req[q].state = req[r].state => q = r
  /\ \A c, d \in Codes : Issued(c) /\ Issued(d) /\ codes[c].state = codes[d].state => c = d
  /\ \A r \in Requests, c \in Codes : Running(r) /\ Issued(c) => req[r].state # codes[c].state
  /\ \A r \in Requests : Running(r) => Spent(req[r].state)
  /\ \A c \in Codes : Issued(c) => Spent(codes[c].state)
  /\ \A t \in States : states[t] # "gone" => delivered[t] = None

\* A subject whose first logins did not overlap has one first login, or one
\* identity, or neither.
RaceInv ==
  \A s \in Subjects \ excused :
    /\ \A q, r \in Requests :
         (req[q].pc \in First /\ req[q].sub = s /\ req[r].pc \in First /\ req[r].sub = s) => q = r
    /\ \A r \in Requests, i \in Ids : req[r].pc \in First /\ req[r].sub = s =>
         <<s, i>> \notin identities
    /\ \A i, j \in Ids : <<s, i>> \in identities /\ <<s, j>> \in identities => i = j

IInv == TypeInv /\ SetupInv /\ PasswordInv /\ OwnerInv /\ StateInv /\ RaceInv

-----------------------------------------------------------------------------
(* Lemmas *)

Steps == SetupSteps \cup AdminSteps \cup SsoSteps

\* Absent rows, absent codes and idle requests are not mistaken for others.
LEMMA Shapes ==
  /\ \A w \in Row : w # NoRow /\ w.name \in Names /\ w.role \in Roles /\ w.origin \in Origins
  /\ \A k \in Payload : /\ k # NoCode /\ k.state \in States /\ k.sub \in Subjects
                        /\ k.id \in Ids /\ k.role \in Roles
  /\ Idle.pc = "idle" /\ "idle" \notin Steps /\ NoCode.state = None
  /\ None \notin States /\ None \notin Ids /\ None \notin Subjects
<1>1. \A w \in Row : w # NoRow /\ w.name \in Names /\ w.role \in Roles /\ w.origin \in Origins
  BY DEF Row, NoRow
<1>2. None \notin States /\ None \notin Ids /\ None \notin Subjects
  BY ProvisioningAssumption DEF States
<1>3. \A k \in Payload : /\ k # NoCode /\ k.state \in States /\ k.sub \in Subjects
                         /\ k.id \in Ids /\ k.role \in Roles
  BY <1>2 DEF Payload, NoCode
<1> QED BY <1>1, <1>2, <1>3 DEF Idle, Steps, SetupSteps, AdminSteps, SsoSteps, NoCode

\* A request that is not idle carries all its fields.
LEMMA BusyRequest ==
  ASSUME TypeOK, NEW r \in Requests, req[r].pc # "idle"
  PROVE  /\ req[r] \in Busy /\ req[r].pc \in Steps
         /\ req[r].role \in Roles /\ req[r].name \in Names \cup {None}
BY Shapes DEF TypeOK, Busy, Steps

\* Nobody exists, logs in or is confirmed at start.
LEMMA InitInv == Init => IInv
<1> SUFFICES ASSUME Init PROVE IInv
  OBVIOUS
<1>1. TypeOK
  BY DEF Init, TypeOK
<1>2. \A r \in Requests : req[r].pc = "idle"
  BY Shapes DEF Init
<1>3. TypeInv
  BY <1>1, <1>2 DEF TypeInv, Shape, Unnamed, Unclaimed, Placed, Resolved, SsoSteps
<1>4. \A i \in Ids : ~ Live(i)
  BY DEF Init, Live
<1>5. SetupInv /\ PasswordInv /\ OwnerInv /\ RaceInv
  BY <1>2, <1>4 DEF Init, SetupInv, PasswordInv, OwnerInv, RaceInv, OfSetup, Critical, SetupSteps,
     Resolved, First
<1>6. StateInv
  BY <1>2 DEF Init, StateInv, Running, Issued, SsoSteps
<1> QED BY <1>3, <1>5, <1>6 DEF IInv

-----------------------------------------------------------------------------
(* Steps of a request on itself *)

\* What a request in state s, of r, must respect of the rest.
Fits(r, s) ==
  /\ s \in {Idle} \cup Busy /\ Shape(s)
  /\ s.pc \in {"getByUsername", "register"} => \A i \in Ids : ~ OfSetup(i)
  /\ s.pc = "registerTokens" /\ Live(s.id) => s.id \in password
  /\ s.pc \in Resolved /\ Live(s.id) => members[s.id].origin = s.sub
  /\ s.pc \in SsoSteps => Running(r) /\ req[r].state = s.state
  /\ s.pc \in First => req[r].pc \in First /\ req[r].sub = s.sub

\* A request that only changes its own state, and fits, disturbs nothing.
LEMMA Alone ==
  ASSUME IInv, NEW r \in Requests, NEW s, Fits(r, s), req' = [req EXCEPT ![r] = s],
         initMu' \in Requests \cup {None},
         \A q \in Requests : req'[q].pc \in Critical => initMu' = q,
         UNCHANGED <<db, sso, admin, confirmed>>, excused \subseteq excused', excused' \subseteq Subjects
  PROVE  IInv'
<1> USE DEF IInv, TypeInv, db, sso
<1>1. req'[r] = s /\ \A q \in Requests \ {r} : req'[q] = req[q]
  BY DEF TypeOK
<1>2. TypeInv'
  BY <1>1 DEF TypeOK, Fits, Shape
<1>3. SetupInv'
  BY <1>1 DEF SetupInv, Fits, OfSetup, Live
<1>4. PasswordInv'
  BY <1>1 DEF PasswordInv, Fits, Live
<1>5. OwnerInv'
  BY <1>1 DEF OwnerInv, Fits, Live
<1>6. StateInv'
  BY <1>1 DEF StateInv, Fits, Running, Issued, Spent
<1>7. RaceInv'
  BY <1>1 DEF RaceInv, Fits
<1> QED BY <1>2, <1>3, <1>4, <1>5, <1>6, <1>7

\* Where initMu does not change, holding it is a matter of the request alone.
LEMMA AloneUnlocked ==
  ASSUME IInv, NEW r \in Requests, NEW s, Fits(r, s), req' = [req EXCEPT ![r] = s],
         s.pc \in Critical => req[r].pc \in Critical,
         UNCHANGED <<db, sso, initMu, admin, confirmed, excused>>
  PROVE  IInv'
<1>1. req'[r] = s /\ \A q \in Requests \ {r} : req'[q] = req[q]
  BY DEF IInv, TypeInv, TypeOK
<1>2. \A q \in Requests : req'[q].pc \in Critical => initMu' = q
  BY <1>1 DEF IInv, SetupInv
<1>3. initMu' \in Requests \cup {None} /\ excused' \subseteq Subjects
  BY DEF IInv, TypeInv, TypeOK
<1> QED BY <1>2, <1>3, Alone

\* An idle request fits anywhere.
LEMMA IdleFits == \A r : Fits(r, Idle)
BY Shapes DEF Fits, Shape, Unnamed, Unclaimed, Placed, Resolved, SsoSteps, First

\* The steps of a request, by name.
LEMMA StepNames ==
  /\ Critical \cap (SsoSteps \cup AdminSteps \cup {"idle", "lock"}) = {}
  /\ SsoSteps \cap (SetupSteps \cup AdminSteps) = {}
  /\ {"getByUsername", "register", "registerTokens", "hasAny", "registerPassword"} \subseteq Critical
  /\ First \subseteq SsoSteps /\ Resolved \subseteq SsoSteps
  /\ SsoSteps \cup AdminSteps \cup SetupSteps = Steps
BY DEF Critical, SetupSteps, SsoSteps, AdminSteps, First, Resolved, Steps

\* Setup, CreateMember and SetPassword begin with a name or a member.
LEMMA BeginInv ==
  ASSUME IInv, NEW r \in Requests,
         \/ \E n \in SetupNames : Setup(r, n)
         \/ \E n \in AdminNames, role \in Roles : CreateMember(r, n, role)
         \/ \E i \in Ids : SetPassword(r, i)
  PROVE  IInv'
<1>1. ASSUME NEW s \in Busy, s.pc \in {"lock", "create", "updatePassword"},
             s.pc \in {"lock", "create"} => s.name \in Names, s.pc = "updatePassword" => s.id \in Ids
      PROVE  Fits(r, s) /\ s.pc \notin Critical
  BY <1>1 DEF Fits, Shape, Unnamed, Unclaimed, Placed, Resolved, SsoSteps, First, Critical,
     SetupSteps
<1>2. ASSUME NEW n \in SetupNames, Setup(r, n) PROVE IInv'
  <2> DEFINE s == [Blank EXCEPT !.pc = "lock", !.name = n, !.role = "MEMBER"]
  <2>1. s \in Busy /\ s.pc = "lock" /\ s.name \in Names
    BY DEF Blank, Busy, SetupSteps, Roles, Names
  <2>2. req' = [req EXCEPT ![r] = s] /\ UNCHANGED <<db, sso, initMu, admin, confirmed, excused>>
    BY <1>2 DEF Setup, Start, db, sso
  <2> HIDE DEF s
  <2> QED BY <1>1, <2>1, <2>2, AloneUnlocked
<1>3. ASSUME NEW n \in AdminNames, NEW role \in Roles, CreateMember(r, n, role) PROVE IInv'
  <2> DEFINE s == [Blank EXCEPT !.pc = "create", !.name = n, !.role = role]
  <2>1. s \in Busy /\ s.pc = "create" /\ s.name \in Names
    BY DEF Blank, Busy, AdminSteps, Names
  <2>2. req' = [req EXCEPT ![r] = s] /\ UNCHANGED <<db, sso, initMu, admin, confirmed, excused>>
    BY <1>3 DEF CreateMember, Start, db, sso
  <2> HIDE DEF s
  <2> QED BY <1>1, <2>1, <2>2, AloneUnlocked
<1>4. ASSUME NEW i \in Ids, SetPassword(r, i) PROVE IInv'
  <2> DEFINE s == [Blank EXCEPT !.pc = "updatePassword", !.id = i]
  <2>1. s \in Busy /\ s.pc = "updatePassword" /\ s.id \in Ids
    BY DEF Blank, Busy, AdminSteps, Roles
  <2>2. req' = [req EXCEPT ![r] = s] /\ UNCHANGED <<db, sso, initMu, admin, confirmed, excused>>
    BY <1>4 DEF SetPassword, Start, db, sso
  <2> HIDE DEF s
  <2> QED BY <1>1, <2>1, <2>2, AloneUnlocked
<1> QED BY <1>2, <1>3, <1>4

\* A request that goes on to another statement keeps the rest.
LEMMA Moved ==
  ASSUME TypeOK, NEW r \in Requests, req[r].pc # "idle", NEW to \in Steps
  PROVE  LET s == [req[r] EXCEPT !.pc = to]
         IN  /\ s \in Busy /\ s.pc = to /\ s.name = req[r].name /\ s.role = req[r].role
             /\ s.id = req[r].id /\ s.sub = req[r].sub /\ s.state = req[r].state
             /\ [req EXCEPT ![r].pc = to] = [req EXCEPT ![r] = s]
<1>1. req[r] \in Busy
  BY BusyRequest
<1> QED BY <1>1 DEF Busy, Steps, TypeOK

\* A statement that fails ends the request; the deferred Unlock runs.
LEMMA FailInv ==
  ASSUME IInv, NEW r \in Requests, Fail(r)
  PROVE  IInv'
<1>1. req' = [req EXCEPT ![r] = Idle] /\ UNCHANGED <<db, sso, admin, confirmed>>
  BY DEF Fail, db, sso
<1>2. initMu' \in Requests \cup {None} /\ excused \subseteq excused' /\ excused' \subseteq Subjects
  BY DEF Fail, IInv, TypeInv, TypeOK
<1>3. ASSUME NEW q \in Requests, req'[q].pc \in Critical PROVE initMu' = q
  <2>1. q # r /\ req'[q] = req[q]
    BY <1>1, <1>3, Shapes, StepNames DEF IInv, TypeInv, TypeOK
  <2> QED BY <1>3, <2>1 DEF Fail, IInv, SetupInv
<1> QED BY <1>1, <1>2, <1>3, IdleFits, Alone

\* Lock: nobody else is past it.
LEMMA LockInv ==
  ASSUME IInv, NEW r \in Requests, Lock(r)
  PROVE  IInv'
<1> DEFINE s == [req[r] EXCEPT !.pc = "hasAny"]
<1>1. req[r].pc = "lock"
  BY DEF Lock, Goto
<1>2. s \in Busy /\ s.pc = "hasAny" /\ s.name = req[r].name /\ req' = [req EXCEPT ![r] = s]
  BY <1>1, Moved DEF Lock, Goto, IInv, TypeInv, Steps, SetupSteps
<1>3. req[r].name \in Names
  BY <1>1 DEF IInv, TypeInv, Shape, Unnamed
<1> HIDE DEF s
<1>4. Fits(r, s)
  BY <1>2, <1>3 DEF Fits, Shape, Unnamed, Unclaimed, Placed, Resolved, SsoSteps, First
<1>5. initMu' = r /\ UNCHANGED <<db, sso, admin, confirmed, excused>>
  BY DEF Lock, db, sso
<1>6. ASSUME NEW q \in Requests, req'[q].pc \in Critical PROVE initMu' = q
  <2>1. CASE q # r
    <3>1. initMu = q /\ initMu = None
      BY <1>2, <1>6, <2>1 DEF IInv, TypeInv, TypeOK, SetupInv, Lock
    <3> QED BY <3>1, ProvisioningAssumption
  <2> QED BY <1>5, <2>1
<1>7. initMu' \in Requests \cup {None} /\ excused' \subseteq Subjects
  BY <1>5 DEF IInv, TypeInv, TypeOK
<1> QED BY <1>2, <1>4, <1>5, <1>6, <1>7, Alone

\* HasAny and GetByUsername: setup sees that nobody exists yet, under initMu.
LEMMA SetupChecksInv ==
  ASSUME IInv, NEW r \in Requests, HasAny(r) \/ GetByUsername(r)
  PROVE  IInv'
<1>1. PICK to \in {"getByUsername", "register"} :
        /\ req' = [req EXCEPT ![r].pc = to]
        /\ req[r].pc \in {"hasAny", "getByUsername"}
        /\ UNCHANGED <<db, sso, initMu, admin, confirmed, excused>>
  BY DEF HasAny, GetByUsername, Goto, db, sso
<1> DEFINE s == [req[r] EXCEPT !.pc = to]
<1>2. s \in Busy /\ s.pc = to /\ s.name = req[r].name /\ req' = [req EXCEPT ![r] = s]
  BY <1>1, Moved DEF IInv, TypeInv, Steps, SetupSteps
<1>3. req[r].name \in Names
  BY <1>1 DEF IInv, TypeInv, Shape, Unnamed
<1>4. \A i \in Ids : ~ OfSetup(i)
  <2>1. CASE HasAny(r)
    BY <2>1 DEF HasAny, OfSetup
  <2>2. CASE GetByUsername(r)
    BY <2>2 DEF GetByUsername, Goto, IInv, SetupInv
  <2> QED BY <2>1, <2>2
<1> HIDE DEF s
<1>5. Fits(r, s)
  BY <1>2, <1>3, <1>4 DEF Fits, Shape, Unnamed, Unclaimed, Placed, Resolved, SsoSteps, First
<1>6. req[r].pc \in Critical
  BY <1>1, StepNames
<1> QED BY <1>1, <1>2, <1>5, <1>6, AloneUnlocked

\* AdminSetMemberPassword: after the UPDATE, the request ends or inserts.
LEMMA UpdatePasswordInv ==
  ASSUME IInv, NEW r \in Requests, UpdatePassword(r)
  PROVE  IInv'
<1>1. req[r].pc = "updatePassword" /\ UNCHANGED <<db, sso, initMu, admin, confirmed, excused>>
  BY DEF UpdatePassword, db, sso
<1>2. CASE req[r].id \in password
  <2>1. req' = [req EXCEPT ![r] = Idle]
    BY <1>2 DEF UpdatePassword
  <2> QED BY <1>1, <2>1, IdleFits, AloneUnlocked, Shapes, StepNames
<1>3. CASE req[r].id \notin password
  <2> DEFINE s == [req[r] EXCEPT !.pc = "insertPassword"]
  <2>1. s \in Busy /\ s.pc = "insertPassword" /\ s.id = req[r].id
    BY <1>1, Moved DEF IInv, TypeInv, Steps, AdminSteps
  <2>2. req[r].id \in Ids
    BY <1>1 DEF IInv, TypeInv, Shape, Placed
  <2>3. req' = [req EXCEPT ![r] = s]
    BY <1>3 DEF UpdatePassword
  <2> HIDE DEF s
  <2>4. Fits(r, s) /\ s.pc \notin Critical
    BY <2>1, <2>2 DEF Fits, Shape, Unnamed, Unclaimed, Placed, Resolved, SsoSteps, First, Critical,
       SetupSteps
  <2> QED BY <1>1, <2>3, <2>4, AloneUnlocked
<1> QED BY <1>2, <1>3

\* What the provider tells: a subject, a name to give it and a role.
LEMMA ProviderInv ==
  ASSUME IInv, NEW r \in Requests, NEW u \in Subjects, NEW email \in Emails \cup {None},
         NEW role \in Roles, ProviderExchange(r, u, email, role)
  PROVE  IInv'
<1> DEFINE s == [req[r] EXCEPT !.pc = "find", !.sub = u, !.role = role,
                               !.name = BaseName(u, email)]
<1>1. BaseName(u, email) \in Bases /\ Bases \subseteq Names
  BY DEF BaseName, Bases, Names
<1>2. req[r] \in Busy /\ Running(r) /\ req[r].state \in States
  BY BusyRequest DEF ProviderExchange, IInv, TypeInv, Running, SsoSteps, Shape
<1>3. s \in Busy /\ s.pc = "find" /\ s.sub = u /\ s.name \in Bases /\ s.state = req[r].state
  BY <1>1, <1>2 DEF Busy, SsoSteps
<1>4. req' = [req EXCEPT ![r] = s] /\ UNCHANGED <<db, sso, initMu, admin, confirmed, excused>>
  BY DEF ProviderExchange, db, sso
<1> HIDE DEF s
<1>5. Fits(r, s) /\ s.pc \notin Critical
  BY <1>2, <1>3 DEF Fits, Shape, Unnamed, Unclaimed, Placed, Resolved, SsoSteps, First, Critical,
     SetupSteps
<1> QED BY <1>4, <1>5, AloneUnlocked

\* resolveOrProvision, the subject is known: the member is the one its identity
\* names.
LEMMA FoundInv ==
  ASSUME IInv, NEW r \in Requests, NEW i \in Known(req[r].sub), req[r].pc = "find",
         req' = [req EXCEPT ![r].pc = "getMember", ![r].id = i, ![r].name = None],
         UNCHANGED <<db, sso, initMu, admin, confirmed, excused>>
  PROVE  IInv'
<1> DEFINE s == [req[r] EXCEPT !.pc = "getMember", !.id = i, !.name = None]
<1>1. req[r] \in Busy /\ Running(r) /\ req[r].state \in States /\ req[r].sub \in Subjects
  BY BusyRequest DEF IInv, TypeInv, Running, SsoSteps, Shape
<1>2. i \in Ids /\ members[i].origin = req[r].sub
  BY <1>1 DEF IInv, OwnerInv, Known
<1>3. /\ s \in Busy /\ s.pc = "getMember" /\ s.id = i /\ s.sub = req[r].sub
      /\ s.state = req[r].state
  BY <1>1, <1>2 DEF Busy, SsoSteps
<1>4. req' = [req EXCEPT ![r] = s]
  BY <1>1 DEF IInv, TypeInv, TypeOK, Busy
<1> HIDE DEF s
<1>5. Fits(r, s) /\ s.pc \notin Critical
  BY <1>1, <1>2, <1>3 DEF Fits, Shape, Unnamed, Unclaimed, Placed, Resolved, SsoSteps, First,
     Critical, SetupSteps
<1> QED BY <1>4, <1>5, AloneUnlocked

\* GetMember takes the role of the row, NameTaken another name: the subject, the
\* member and the authorization stay.
LEMMA SsoStepInv ==
  ASSUME IInv, NEW r \in Requests, GetMember(r) \/ NameTaken(r)
  PROVE  IInv'
<1>1. req[r] \in Busy /\ Running(r) /\ req[r].state \in States /\ req[r].sub \in Subjects
  BY BusyRequest DEF IInv, TypeInv, Running, SsoSteps, Shape, GetMember, NameTaken, Goto
<1>2. CASE GetMember(r)
  <2> DEFINE s == [req[r] EXCEPT !.pc = "issue", !.role = members[req[r].id].role]
  <2>1. req[r].id \in Ids /\ members[req[r].id] \in Row /\ req[r].pc = "getMember"
    BY <1>2 DEF IInv, TypeInv, TypeOK, Shape, Placed, Resolved, GetMember, Live
  <2>2. members[req[r].id].origin = req[r].sub
    BY <1>2 DEF IInv, OwnerInv, GetMember, Resolved
  <2>3. /\ s \in Busy /\ s.pc = "issue" /\ s.id = req[r].id /\ s.sub = req[r].sub
        /\ s.state = req[r].state
    BY <1>1, <2>1, Shapes DEF Busy, SsoSteps
  <2>4. req' = [req EXCEPT ![r] = s] /\ UNCHANGED <<db, sso, initMu, admin, confirmed, excused>>
    BY <1>1, <1>2 DEF IInv, TypeInv, TypeOK, Busy, GetMember, db, sso
  <2> HIDE DEF s
  <2>5. Fits(r, s) /\ s.pc \notin Critical
    BY <1>1, <2>1, <2>2, <2>3 DEF Fits, Shape, Unnamed, Unclaimed, Placed, Resolved, SsoSteps,
       First, Critical, SetupSteps
  <2> QED BY <2>4, <2>5, AloneUnlocked
<1>3. CASE NameTaken(r)
  <2> DEFINE s == [req[r] EXCEPT !.pc = "provisionSuffixed"]
  <2>1. req[r].pc = "provision" /\ req[r].name \in Bases
    BY <1>3 DEF IInv, TypeInv, Shape, Unclaimed, NameTaken, Goto
  <2>2. /\ s \in Busy /\ s.pc = "provisionSuffixed" /\ s.name = req[r].name
        /\ s.sub = req[r].sub /\ s.state = req[r].state
        /\ req' = [req EXCEPT ![r] = s]
    BY <1>3, <2>1, Moved DEF IInv, TypeInv, Steps, SsoSteps, NameTaken, Goto
  <2>3. UNCHANGED <<db, sso, initMu, admin, confirmed, excused>>
    BY <1>3 DEF NameTaken, db, sso
  <2> HIDE DEF s
  <2>4. Fits(r, s) /\ s.pc \notin Critical
    BY <1>1, <2>1, <2>2 DEF Fits, Shape, Unnamed, Unclaimed, Placed, Resolved, SsoSteps, First,
       Critical, SetupSteps
  <2> QED BY <2>2, <2>3, <2>4, AloneUnlocked
<1> QED BY <1>2, <1>3

-----------------------------------------------------------------------------
(* Members *)

\* INSERT INTO members, by setup, an administrator or an SSO login: nothing
\* mentions the new member, except the request that made it.
LEMMA InsertInv ==
  ASSUME IInv, NEW r \in Requests, NEW i \in Ids, NEW from, NEW to, NEW n \in Names,
         NEW o, InsertMember(r, from, to, i, n, o),
         \/ from = "register" /\ to = "registerPassword" /\ o = "setup"
         \/ from = "create" /\ to = "createPassword" /\ o = "admin"
         \/ /\ from \in {"provision", "provisionSuffixed"} /\ to = "identity"
            /\ o = req[r].sub
  PROVE  IInv'
<1>1. req[r] \in Busy /\ req[r].pc = from /\ req[r].role \in Roles /\ Shape(req[r])
  BY BusyRequest DEF IInv, TypeInv, InsertMember
<1>2. /\ to \in Steps /\ to # "registerTokens"
      /\ (to \in SsoSteps <=> from \in SsoSteps) /\ (to \in First <=> from \in First)
      /\ to \in Critical => from \in Critical
      /\ to \notin {"getByUsername", "register"} /\ to \notin Unnamed /\ to \notin Unclaimed
      /\ to \in SsoSteps \ {"exchange"} => from \in SsoSteps \ {"exchange"}
  BY DEF Steps, SetupSteps, AdminSteps, SsoSteps, First, Critical, Unnamed, Unclaimed
<1>3. o \in Origins /\ (o = "setup" => from = "register")
  BY <1>1, ProvisioningAssumption DEF Origins, Shape, SsoSteps
<1>4. /\ members' \in [Ids -> Row \cup {NoRow}] /\ ~ Live(i) /\ Live(i)' /\ members'[i].origin = o
      /\ \A j \in Ids \ {i} : members'[j] = members[j]
  <2>1. [name |-> n, role |-> req[r].role, origin |-> o] \in Row
    BY <1>1, <1>3 DEF Row
  <2> QED BY <2>1, Shapes DEF InsertMember, Fresh, Live, IInv, TypeInv, TypeOK
<1>5. \A j \in Ids \ {i} : Live(j)' <=> Live(j)
  BY <1>4 DEF Live
<1>6. /\ req' \in [Requests -> {Idle} \cup Busy]
      /\ req'[r].pc = to /\ req'[r].id = i /\ req'[r].sub = req[r].sub
      /\ req'[r].state = req[r].state
      /\ \A q \in Requests \ {r} : req'[q] = req[q]
  BY <1>1, <1>2 DEF InsertMember, IInv, TypeInv, TypeOK, Busy, Steps
<1>7. UNCHANGED <<password, identities, initMu, states, codes, delivered, admin, confirmed, excused>>
  BY DEF InsertMember, sso
<1>8. /\ \A q \in Requests \ {r} : req[q].pc # "idle" => req[q].id # i
      /\ \A c \in Codes : codes[c] # NoCode => codes[c].id # i
  BY DEF InsertMember, Fresh
<1>9. TypeInv'
  <2>1. Shape(req'[r])
    BY <1>1, <1>2, <1>6 DEF Shape
  <2>2. \A q \in Requests : Shape(req'[q])
    BY <1>6, <2>1 DEF IInv, TypeInv
  <2>3. TypeOK'
    BY <1>4, <1>6, <1>7 DEF IInv, TypeInv, TypeOK
  <2> QED BY <2>2, <2>3 DEF TypeInv, Shape
<1>10. SetupInv'
  <2>1. \A q \in Requests : req'[q].pc \in Critical => initMu' = q
    BY <1>1, <1>2, <1>6, <1>7 DEF IInv, SetupInv
  <2>2. \A j \in Ids \ {i} : OfSetup(j)' <=> OfSetup(j)
    BY <1>4, <1>5 DEF OfSetup
  <2>3. OfSetup(i)' => o = "setup"
    BY <1>4 DEF OfSetup
  <2>4. CASE o = "setup"
    <3>1. from = "register" /\ initMu = r /\ \A j \in Ids : ~ OfSetup(j)
      BY <1>1, <1>3, <2>4, StepNames DEF IInv, SetupInv
    <3>2. \A q \in Requests : req'[q].pc \notin {"getByUsername", "register"}
      BY <1>2, <1>6, <3>1, StepNames DEF IInv, SetupInv
    <3> QED BY <2>1, <2>2, <3>1, <3>2 DEF SetupInv
  <2>5. CASE o # "setup"
    BY <1>2, <1>6, <2>1, <2>2, <2>3, <2>5 DEF IInv, SetupInv
  <2> QED BY <2>4, <2>5
<1>11. PasswordInv'
  <2>1. ASSUME NEW q \in Requests, req'[q].pc = "registerTokens", Live(req[q].id)'
        PROVE  req'[q].id \in password
    <3>1. q # r /\ req'[q] = req[q] /\ req[q].id \in Ids /\ req[q].id # i
      BY <1>2, <1>6, <1>8, <2>1 DEF IInv, TypeInv, Shape, Placed
    <3> QED BY <1>5, <2>1, <3>1 DEF IInv, PasswordInv
  <2>2. \A q \in Requests : req'[q].pc = "registerTokens" => req'[q] = req[q]
    BY <1>2, <1>6
  <2> QED BY <1>7, <2>1, <2>2 DEF IInv, PasswordInv, Live
<1>12. OwnerInv'
  <2>1. ASSUME NEW u \in Subjects, NEW j \in Ids, <<u, j>> \in identities'
        PROVE  Live(j)' /\ members'[j].origin = u
    <3>1. Live(j) /\ members[j].origin = u /\ j # i
      BY <1>4, <1>7, <2>1 DEF IInv, OwnerInv
    <3> QED BY <1>4, <1>5, <3>1
  <2>2. ASSUME NEW q \in Requests, req'[q].pc \in Resolved, members'[req'[q].id] # NoRow
        PROVE  members'[req'[q].id].origin = req'[q].sub
    <3>1. CASE q = r
      BY <1>1, <1>2, <1>4, <1>6, <2>2, <3>1, StepNames DEF Resolved
    <3>2. CASE q # r
      <4>1. req'[q] = req[q] /\ req[q].id \in Ids /\ req[q].id # i
        BY <1>6, <1>8, <2>2, <3>2 DEF IInv, TypeInv, Shape, Placed, Resolved
      <4> QED BY <1>4, <2>2, <4>1 DEF IInv, OwnerInv, Live
    <3> QED BY <3>1, <3>2
  <2>3. ASSUME NEW c \in Codes, codes'[c] # NoCode, members'[codes'[c].id] # NoRow
        PROVE  members'[codes'[c].id].origin = codes'[c].sub
    <3>1. codes[c].id \in Ids /\ codes[c].id # i
      BY <1>7, <1>8, <2>3, Shapes DEF IInv, TypeInv, TypeOK
    <3> QED BY <1>4, <1>7, <2>3, <3>1 DEF IInv, OwnerInv, Live
  <2> QED BY <2>1, <2>2, <2>3 DEF OwnerInv, Live
<1>13. StateInv'
  BY <1>1, <1>2, <1>6, <1>7 DEF IInv, StateInv, Running, Issued, Spent
<1>14. RaceInv'
  BY <1>1, <1>2, <1>6, <1>7 DEF IInv, RaceInv
<1> QED BY <1>9, <1>10, <1>11, <1>12, <1>13, <1>14 DEF IInv

\* The four INSERTs of members.
LEMMA InsertsInv ==
  ASSUME IInv, NEW r \in Requests, NEW i \in Ids,
         Register(r, i) \/ CreateInsert(r, i) \/ Provision(r, i) \/ ProvisionSuffixed(r, i)
  PROVE  IInv'
<1>1. Shape(req[r])
  BY DEF IInv, TypeInv
<1>2. CASE Register(r, i)
  <2>1. req[r].name \in Names
    BY <1>1, <1>2 DEF Register, InsertMember, Shape, Unnamed
  <2> QED BY <1>2, <2>1, InsertInv DEF Register
<1>3. CASE CreateInsert(r, i)
  <2>1. req[r].name \in Names
    BY <1>1, <1>3 DEF CreateInsert, InsertMember, Shape, Unnamed
  <2> QED BY <1>3, <2>1, InsertInv DEF CreateInsert
<1>4. CASE Provision(r, i)
  <2>1. req[r].name \in Names
    BY <1>1, <1>4 DEF Provision, InsertMember, Shape, Unclaimed, Names
  <2> QED BY <1>4, <2>1, InsertInv DEF Provision
<1>5. CASE ProvisionSuffixed(r, i)
  <2>1. req[r].name \in Bases /\ req[r].sub \in Subjects
    BY <1>1, <1>5 DEF ProvisionSuffixed, InsertMember, Shape, Unclaimed, SsoSteps
  <2>2. <<req[r].name, Suffix[req[r].sub]>> \in Names
    BY <2>1 DEF Names
  <2> QED BY <1>5, <2>2, InsertInv DEF ProvisionSuffixed
<1> QED BY <1>2, <1>3, <1>4, <1>5

\* INSERT of a password, by setup or an administrator.
LEMMA PasswordsInv ==
  ASSUME IInv, NEW r \in Requests, RegisterPassword(r) \/ CreatePassword(r) \/ InsertPassword(r)
  PROVE  IInv'
<1>1. /\ req[r].pc \in {"registerPassword", "createPassword", "insertPassword"}
      /\ req[r] \in Busy /\ req[r].id \in Ids
  BY BusyRequest DEF RegisterPassword, CreatePassword, InsertPassword, Goto, IInv, TypeInv, Shape,
     Placed
<1>2. /\ password' = password \cup {req[r].id}
      /\ UNCHANGED <<members, identities, initMu, states, codes, delivered, admin, excused>>
  BY DEF RegisterPassword, CreatePassword, InsertPassword, AddPassword, sso
<1>3. /\ req' \in [Requests -> {Idle} \cup Busy]
      /\ \/ req'[r] = Idle
         \/ /\ req[r].pc = "registerPassword" /\ req'[r].pc = "registerTokens"
            /\ req'[r].id = req[r].id
      /\ \A q \in Requests \ {r} : req'[q] = req[q]
      /\ confirmed' \subseteq confirmed \cup {req[r].id}
  <2>1. CASE RegisterPassword(r)
    <3>1. "registerTokens" \in Steps
      BY DEF Steps, SetupSteps
    <3> QED BY <1>1, <2>1, <3>1 DEF RegisterPassword, Goto, IInv, TypeInv, TypeOK, Busy, Steps
  <2>2. CASE CreatePassword(r) \/ InsertPassword(r)
    BY <2>2 DEF CreatePassword, InsertPassword, IInv, TypeInv, TypeOK
  <2> QED BY <2>1, <2>2
<1>4. TypeInv'
  <2>1. Shape(req'[r])
    <3>1. CASE req'[r] = Idle
      BY <3>1, IdleFits DEF Fits
    <3>2. CASE req'[r].pc = "registerTokens" /\ req'[r].id = req[r].id
      BY <1>1, <3>2 DEF Shape, Unnamed, Unclaimed, Placed, Resolved, SsoSteps
    <3> QED BY <1>3, <3>1, <3>2
  <2>2. \A q \in Requests : Shape(req'[q])
    BY <1>3, <2>1 DEF IInv, TypeInv
  <2>3. TypeOK'
    BY <1>1, <1>2, <1>3 DEF IInv, TypeInv, TypeOK
  <2> QED BY <2>2, <2>3 DEF TypeInv, Shape
<1>5. SetupInv'
  <2>1. \A q \in Requests : req'[q].pc \in Critical => req[q].pc \in Critical
    BY <1>3, Shapes, StepNames
  <2>2. \A q \in Requests : req'[q].pc \in {"getByUsername", "register"} => req'[q] = req[q]
    BY <1>3, Shapes
  <2> QED BY <1>2, <2>1, <2>2 DEF IInv, SetupInv, OfSetup, Live
<1>6. PasswordInv'
  BY <1>2, <1>3, Shapes DEF IInv, PasswordInv, Live
<1>7. OwnerInv'
  <2>1. \A q \in Requests : req'[q].pc \in Resolved => req'[q] = req[q]
    BY <1>3, Shapes DEF Resolved
  <2> QED BY <1>2, <2>1 DEF IInv, OwnerInv, Live
<1>8. \A q \in Requests : req'[q].pc \in SsoSteps => req'[q] = req[q]
  BY <1>3, Shapes DEF SsoSteps
<1>9. StateInv'
  BY <1>2, <1>8 DEF IInv, StateInv, Running, Issued, Spent
<1>10. RaceInv'
  BY <1>2, <1>8, StepNames DEF IInv, RaceInv
<1> QED BY <1>4, <1>5, <1>6, <1>7, <1>9, <1>10 DEF IInv

\* The end of setup: the mutex is released, the member confirmed if it exists.
LEMMA RegisterTokensInv ==
  ASSUME IInv, NEW r \in Requests, RegisterTokens(r)
  PROVE  IInv'
<1>1. /\ req[r].pc = "registerTokens" /\ initMu = r /\ req[r].id \in Ids
      /\ Live(req[r].id) => req[r].id \in password
  BY StepNames DEF RegisterTokens, IInv, TypeInv, SetupInv, PasswordInv, Shape, Placed
<1>2. /\ req' = [req EXCEPT ![r] = Idle] /\ initMu' = None
      /\ confirmed' \subseteq password /\ admin' \in BOOLEAN
      /\ UNCHANGED <<members, password, identities, states, codes, delivered, excused>>
  BY <1>1 DEF RegisterTokens, Granted, db, sso, IInv, PasswordInv
<1>3. req'[r] = Idle /\ \A q \in Requests \ {r} : req'[q] = req[q]
  BY <1>2 DEF IInv, TypeInv, TypeOK
<1>4. TypeInv'
  <2>1. \A q \in Requests : Shape(req'[q])
    BY <1>3, IdleFits DEF Fits, IInv, TypeInv
  <2>2. TypeOK'
    BY <1>2 DEF IInv, TypeInv, TypeOK
  <2> QED BY <2>1, <2>2 DEF TypeInv, Shape
<1>5. SetupInv'
  <2>1. \A q \in Requests : req'[q].pc \notin Critical
    BY <1>1, <1>3, Shapes, StepNames DEF IInv, SetupInv
  <2> QED BY <1>2, <2>1, StepNames DEF IInv, SetupInv, OfSetup, Live
<1>6. PasswordInv'
  BY <1>2, <1>3, Shapes DEF IInv, PasswordInv, Live
<1>7. \A q \in Requests : req'[q].pc \in SsoSteps => req'[q] = req[q]
  BY <1>3, Shapes DEF SsoSteps
<1>8. OwnerInv' /\ RaceInv'
  BY <1>2, <1>7, StepNames DEF IInv, OwnerInv, RaceInv, Live
<1>9. StateInv'
  BY <1>2, <1>7 DEF IInv, StateInv, Running, Issued, Spent
<1> QED BY <1>4, <1>5, <1>6, <1>8, <1>9 DEF IInv

\* Login hands out a token and changes no row.
LEMMA PasswordLoginInv ==
  ASSUME IInv, NEW i \in Ids, PasswordLogin(i)
  PROVE  IInv'
<1>1. /\ admin' \in BOOLEAN
      /\ UNCHANGED <<members, password, identities, initMu, req, states, codes, delivered,
                     confirmed, excused>>
  BY DEF PasswordLogin, Granted, db, sso
<1> QED
  BY <1>1 DEF IInv, TypeInv, TypeOK, Shape, SetupInv, OfSetup, PasswordInv, OwnerInv, StateInv,
     RaceInv, Live, Running, Issued, Spent

\* UpdateMember: a row keeps its origin, whatever its name and role become.
LEMMA UpdateMemberInv ==
  ASSUME IInv, NEW i \in Ids, NEW role \in Roles, NEW n \in AdminNames \cup {members[i].name},
         UpdateMember(i, n, role)
  PROVE  IInv'
<1>1. members[i] \in Row /\ n \in Names
  BY Shapes DEF UpdateMember, Live, IInv, TypeInv, TypeOK, Names
<1>2. /\ members' \in [Ids -> Row \cup {NoRow}]
      /\ \A j \in Ids : members'[j] # NoRow <=> members[j] # NoRow
      /\ \A j \in Ids : members[j] # NoRow => members'[j].origin = members[j].origin
  <2> DEFINE w == [members[i] EXCEPT !.name = n, !.role = role]
  <2>1. w \in Row /\ w.origin = members[i].origin
    BY <1>1 DEF Row
  <2>2. members' = [members EXCEPT ![i] = w]
    BY DEF UpdateMember
  <2> HIDE DEF w
  <2> QED BY <1>1, <2>1, <2>2, Shapes DEF IInv, TypeInv, TypeOK
<1>3. UNCHANGED <<password, identities, initMu, req, states, codes, delivered, admin, confirmed, excused>>
  BY DEF UpdateMember, sso
<1>4. TypeInv'
  BY <1>2, <1>3 DEF IInv, TypeInv, TypeOK, Shape
<1>5. SetupInv'
  BY <1>2, <1>3 DEF IInv, SetupInv, OfSetup, Live
<1>6. \A r \in Requests : req[r].pc = "registerTokens" \/ req[r].pc \in Resolved => req[r].id \in Ids
  BY DEF IInv, TypeInv, Shape, Placed, Resolved
<1>7. \A c \in Codes : codes[c] # NoCode => codes[c].id \in Ids
  BY Shapes DEF IInv, TypeInv, TypeOK
<1>8. PasswordInv'
  BY <1>2, <1>3, <1>6 DEF IInv, PasswordInv, Live
<1>9. OwnerInv'
  BY <1>2, <1>3, <1>6, <1>7 DEF IInv, OwnerInv, Live
<1>10. StateInv' /\ RaceInv'
  BY <1>3 DEF IInv, StateInv, RaceInv, Running, Issued, Spent
<1> QED BY <1>4, <1>5, <1>8, <1>9, <1>10 DEF IInv

\* DeleteMember: password and identities go with the row.
LEMMA DeleteMemberInv ==
  ASSUME IInv, NEW i \in Ids, DeleteMember(i)
  PROVE  IInv'
<1>1. /\ members'[i] = NoRow /\ \A j \in Ids \ {i} : members'[j] = members[j]
      /\ members' \in [Ids -> Row \cup {NoRow}]
  BY DEF DeleteMember, IInv, TypeInv, TypeOK
<1>2. /\ password' = password \ {i} /\ confirmed' = confirmed \ {i}
      /\ UNCHANGED <<initMu, req, states, codes, admin, excused>>
  BY DEF DeleteMember
<1>3. /\ identities' \subseteq identities
      /\ \A u \in Subjects : <<u, i>> \notin identities'
  BY DEF DeleteMember
<1>4. /\ delivered' \in [States -> Ids \cup {None, "deleted"}]
      /\ \A t \in States : delivered[t] = None => delivered'[t] = None
  BY Shapes DEF DeleteMember, IInv, TypeInv, TypeOK
<1>5. TypeInv'
  BY <1>1, <1>2, <1>3, <1>4 DEF IInv, TypeInv, TypeOK, Shape
<1>6. SetupInv'
  BY <1>1, <1>2 DEF IInv, SetupInv, OfSetup, Live
<1>7. \A r \in Requests : /\ req[r].pc = "registerTokens" \/ req[r].pc \in Resolved => req[r].id \in Ids
                          /\ Running(r) => req[r].state \in States
  BY DEF IInv, TypeInv, Shape, Placed, Resolved, Running
<1>8. \A c \in Codes : codes[c] # NoCode => codes[c].id \in Ids /\ codes[c].state \in States
  BY Shapes DEF IInv, TypeInv, TypeOK
<1>9. PasswordInv'
  BY <1>1, <1>2, <1>7 DEF IInv, PasswordInv, Live
<1>10. OwnerInv'
  BY <1>1, <1>2, <1>3, <1>7, <1>8 DEF IInv, OwnerInv, Live
<1>11. StateInv'
  BY <1>2, <1>4, <1>7, <1>8 DEF IInv, StateInv, Running, Issued, Spent
<1>12. RaceInv'
  BY <1>2, <1>3 DEF IInv, RaceInv
<1> QED BY <1>5, <1>6, <1>9, <1>10, <1>11, <1>12 DEF IInv

\* DeleteCredential takes an identity away, never a password.
LEMMA DeleteCredentialInv ==
  ASSUME IInv, NEW i \in Ids, DeleteCredential(i)
  PROVE  IInv'
<1>1. /\ identities' \subseteq identities
      /\ UNCHANGED <<members, password, initMu, req, states, codes, delivered, admin, confirmed>>
      /\ excused \subseteq excused' /\ (excused \subseteq Subjects => excused' \subseteq Subjects)
  BY DEF DeleteCredential, sso
<1>2. TypeInv' /\ SetupInv' /\ PasswordInv'
  BY <1>1 DEF IInv, TypeInv, TypeOK, Shape, SetupInv, OfSetup, PasswordInv, Live
<1>3. OwnerInv' /\ RaceInv'
  BY <1>1 DEF IInv, OwnerInv, RaceInv, Live
<1>4. StateInv'
  BY <1>1 DEF IInv, StateInv, Running, Issued, Spent
<1> QED BY <1>2, <1>3, <1>4 DEF IInv

-----------------------------------------------------------------------------
(* SSO logins *)

\* States are issued, and expire or are rejected.
LEMMA StatesInv ==
  ASSUME IInv, NEW t \in States, Authorize(t) \/ StateGone(t)
  PROVE  IInv'
<1>1. /\ states[t] # "gone" /\ states' \in [States -> {"unused", "issued", "gone"}]
      /\ \A u \in States \ {t} : states'[u] = states[u]
      /\ UNCHANGED <<members, password, identities, initMu, req, codes, delivered, admin,
                     confirmed, excused>>
  BY DEF Authorize, StateGone, db, IInv, TypeInv, TypeOK
<1>2. TypeInv' /\ SetupInv' /\ PasswordInv' /\ OwnerInv' /\ RaceInv'
  BY <1>1 DEF IInv, TypeInv, TypeOK, Shape, SetupInv, OfSetup, PasswordInv, OwnerInv, RaceInv, Live
<1>3. /\ \A r \in Requests : Running(r) => req[r].state \in States
      /\ \A c \in Codes : Issued(c) => codes[c].state \in States
  BY Shapes DEF IInv, TypeInv, TypeOK, Shape, Running, Issued
<1>4. StateInv'
  BY <1>1, <1>3 DEF IInv, StateInv, Running, Issued, Spent
<1> QED BY <1>2, <1>4 DEF IInv

\* GETDEL of the state: the authorization is this request's alone.
LEMMA CallbackInv ==
  ASSUME IInv, NEW r \in Requests, NEW t \in States, Callback(r, t)
  PROVE  IInv'
<1> DEFINE s == [Blank EXCEPT !.pc = "exchange", !.state = t]
<1>1. s \in Busy /\ s.pc = "exchange" /\ s.state = t
  BY DEF Blank, Busy, SsoSteps, Roles
<1>2. /\ req' = [req EXCEPT ![r] = s] /\ req[r] = Idle
      /\ states[t] = "issued" /\ states' = [states EXCEPT ![t] = "gone"]
      /\ UNCHANGED <<members, password, identities, initMu, codes, delivered, admin, confirmed, excused>>
  BY DEF Callback, Start, db
<1> HIDE DEF s
<1>3. /\ req'[r] = s /\ \A q \in Requests \ {r} : req'[q] = req[q]
      /\ req' \in [Requests -> {Idle} \cup Busy]
      /\ states' \in [States -> {"unused", "issued", "gone"}]
      /\ states'[t] = "gone" /\ \A u \in States \ {t} : states'[u] = states[u]
  BY <1>1, <1>2 DEF IInv, TypeInv, TypeOK
<1>4. TypeInv'
  <2>1. \A q \in Requests : Shape(req'[q])
    BY <1>1, <1>3 DEF IInv, TypeInv, Shape, Unnamed, Unclaimed, Placed, Resolved, SsoSteps
  <2>2. TypeOK'
    BY <1>2, <1>3 DEF IInv, TypeInv, TypeOK
  <2> QED BY <2>1, <2>2 DEF TypeInv, Shape
<1>5. s.pc \notin Critical \cup Resolved \cup First \cup {"getByUsername", "register", "registerTokens"}
  BY <1>1 DEF Critical, SetupSteps, Resolved, First
<1>6. SetupInv' /\ PasswordInv'
  BY <1>2, <1>3, <1>5 DEF IInv, SetupInv, OfSetup, PasswordInv, Live
<1>7. OwnerInv' /\ RaceInv'
  BY <1>2, <1>3, <1>5 DEF IInv, OwnerInv, RaceInv, Live
<1>8. StateInv'
  <2>1. /\ \A q \in Requests : Running(q) => req[q].state \in States \ {t}
        /\ \A c \in Codes : Issued(c) => codes[c].state \in States \ {t}
        /\ delivered[t] = None
    BY <1>2, Shapes DEF IInv, TypeInv, TypeOK, StateInv, Shape, Running, Issued, Spent
  <2>2. ~ Running(r)
    BY <1>2, Shapes DEF Running, SsoSteps
  <2> QED BY <1>1, <1>2, <1>3, <2>1, <2>2 DEF IInv, StateInv, Running, Issued, Spent
<1> QED BY <1>4, <1>6, <1>7, <1>8 DEF IInv

\* resolveOrProvision, the subject is unknown: a first login, or one more.
LEMMA NotFoundInv ==
  ASSUME IInv, NEW r \in Requests, req[r].pc = "find", Known(req[r].sub) = {}, NotFound(r),
         UNCHANGED <<db, initMu, sso, admin, confirmed>>
  PROVE  IInv'
<1>1. /\ req[r] \in Busy /\ req[r].sub \in Subjects /\ req[r].state \in States
      /\ req[r].name \in Bases
  BY BusyRequest DEF IInv, TypeInv, Shape, SsoSteps, Unclaimed
<1>2. /\ req'[r].pc = "provision" /\ req'[r].sub = req[r].sub /\ req'[r].state = req[r].state
      /\ req'[r].name = req[r].name
      /\ \A q \in Requests \ {r} : req'[q] = req[q]
      /\ req' \in [Requests -> {Idle} \cup Busy]
  BY <1>1 DEF NotFound, IInv, TypeInv, TypeOK, Busy, SsoSteps
<1>3. UNCHANGED <<members, password, identities, initMu, states, codes, delivered, admin, confirmed>>
  BY DEF db, sso
<1>4. excused' = IF Creating(req[r].sub) = {} THEN excused ELSE excused \cup {req[r].sub}
  BY DEF NotFound
<1>5. TypeInv'
  <2>1. Shape(req'[r])
    BY <1>1, <1>2 DEF Shape, Unnamed, Unclaimed, Placed, Resolved, SsoSteps
  <2>2. \A q \in Requests : Shape(req'[q])
    BY <1>2, <2>1 DEF IInv, TypeInv
  <2>3. TypeOK'
    BY <1>1, <1>2, <1>3, <1>4 DEF IInv, TypeInv, TypeOK
  <2> QED BY <2>2, <2>3 DEF TypeInv, Shape
<1>6. SetupInv' /\ PasswordInv'
  <2>1. \A q \in Requests :
          req'[q].pc \in Critical \cup {"getByUsername", "register", "registerTokens"} => q # r
    BY <1>2 DEF Critical, SetupSteps
  <2> QED BY <1>2, <1>3, <2>1 DEF IInv, SetupInv, OfSetup, PasswordInv, Live
<1>7. OwnerInv'
  BY <1>2, <1>3 DEF IInv, OwnerInv, Live, Resolved
<1>8. StateInv'
  BY <1>2, <1>3 DEF IInv, StateInv, Running, Issued, Spent, SsoSteps
<1>9. RaceInv'
  <2> SUFFICES ASSUME NEW u \in Subjects \ excused'
               PROVE  /\ \A p, q \in Requests :
                           (req'[p].pc \in First /\ req'[p].sub = u
                              /\ req'[q].pc \in First /\ req'[q].sub = u) => p = q
                      /\ \A q \in Requests, i \in Ids :
                           req'[q].pc \in First /\ req'[q].sub = u => <<u, i>> \notin identities
                      /\ \A i, j \in Ids : <<u, i>> \in identities /\ <<u, j>> \in identities => i = j
    BY <1>3 DEF RaceInv
  <2>1. u \in Subjects \ excused
    BY <1>4
  <2>2. CASE u # req[r].sub
    BY <1>2, <2>1, <2>2 DEF IInv, RaceInv
  <2>3. CASE u = req[r].sub
    <3>1. \A i \in Ids : <<u, i>> \notin identities
      BY <2>3 DEF Known
    <3>2. Creating(u) = {}
      BY <1>1, <1>4, <2>3
    <3>3. \A q \in Requests \ {r} : ~ (req'[q].pc \in First /\ req'[q].sub = u)
      BY <1>2, <3>2 DEF Creating, First
    <3> QED BY <3>1, <3>3
  <2> QED BY <2>2, <2>3
<1> QED BY <1>5, <1>6, <1>7, <1>8, <1>9 DEF IInv

\* INSERT of the identity: it names the member made for the subject.
LEMMA InsertIdentityInv ==
  ASSUME IInv, NEW r \in Requests, InsertIdentity(r)
  PROVE  IInv'
<1> DEFINE u == req[r].sub
           i == req[r].id
<1>1. /\ req[r].pc = "identity" /\ req[r] \in Busy /\ u \in Subjects /\ i \in Ids
      /\ req[r].state \in States /\ Live(i) /\ members[i].origin = u
  BY BusyRequest DEF InsertIdentity, Goto, IInv, TypeInv, Shape, SsoSteps, Placed, Resolved, OwnerInv
<1>2. /\ req'[r].pc = "issue" /\ req'[r].sub = u /\ req'[r].id = i
      /\ req'[r].state = req[r].state
      /\ \A q \in Requests \ {r} : req'[q] = req[q]
      /\ req' \in [Requests -> {Idle} \cup Busy]
  BY <1>1 DEF InsertIdentity, Goto, IInv, TypeInv, TypeOK, Busy, SsoSteps
<1>3. /\ identities' = identities \cup {<<u, i>>}
      /\ UNCHANGED <<members, password, initMu, states, codes, delivered, admin, confirmed, excused>>
  BY DEF InsertIdentity, sso
<1> HIDE DEF u, i
<1>4. TypeInv'
  <2>1. Shape(req'[r])
    BY <1>1, <1>2 DEF Shape, Unnamed, Unclaimed, Placed, Resolved, SsoSteps
  <2>2. \A q \in Requests : Shape(req'[q])
    BY <1>2, <2>1 DEF IInv, TypeInv
  <2>3. TypeOK'
    BY <1>1, <1>2, <1>3 DEF IInv, TypeInv, TypeOK
  <2> QED BY <2>2, <2>3 DEF TypeInv, Shape
<1>5. SetupInv' /\ PasswordInv'
  <2>1. \A q \in Requests :
          req'[q].pc \in Critical \cup {"getByUsername", "register", "registerTokens"} => q # r
    BY <1>2 DEF Critical, SetupSteps
  <2> QED BY <1>2, <1>3, <2>1 DEF IInv, SetupInv, OfSetup, PasswordInv, Live
<1>6. OwnerInv'
  <2>1. \A v \in Subjects, j \in Ids : <<v, j>> \in identities' =>
          members[j] # NoRow /\ members[j].origin = v
    BY <1>1, <1>3 DEF IInv, OwnerInv, Live
  <2>2. \A q \in Requests : req'[q].pc \in Resolved /\ members[req'[q].id] # NoRow =>
          members[req'[q].id].origin = req'[q].sub
    BY <1>1, <1>2 DEF IInv, OwnerInv, Live
  <2> QED BY <1>3, <2>1, <2>2 DEF IInv, OwnerInv, Live
<1>7. StateInv'
  BY <1>1, <1>2, <1>3 DEF IInv, StateInv, Running, Issued, Spent, SsoSteps
<1>8. RaceInv'
  <2>1. \A v \in Subjects, j \in Ids : <<v, j>> \in identities' =>
          <<v, j>> \in identities \/ (v = u /\ j = i)
    BY <1>3
  <2>2. req[r].pc \in First /\ req[r].sub = u /\ req'[r].pc \notin First
    BY <1>1, <1>2 DEF First, u
  <2> QED BY <1>1, <1>2, <1>3, <2>1, <2>2 DEF IInv, RaceInv
<1> QED BY <1>4, <1>5, <1>6, <1>7, <1>8 DEF IInv

\* IssueTokenPair and storeSSOCode: the authorization moves from the request to
\* its code.
LEMMA StoreCodeInv ==
  ASSUME IInv, NEW r \in Requests, NEW c \in Codes, StoreCode(r, c)
  PROVE  IInv'
<1>1. /\ req[r].pc = "issue" /\ req[r] \in Busy /\ req[r].sub \in Subjects /\ req[r].id \in Ids
      /\ req[r].state \in States /\ req[r].role \in Roles /\ Running(r)
  BY BusyRequest DEF StoreCode, IInv, TypeInv, Shape, SsoSteps, Placed, Resolved, Running
<1> DEFINE k == [state |-> req[r].state, sub |-> req[r].sub, id |-> req[r].id, role |-> req[r].role]
<1>2. /\ k \in Payload /\ k # NoCode
      /\ k.state = req[r].state /\ k.sub = req[r].sub /\ k.id = req[r].id
  BY <1>1, Shapes DEF Payload
<1>3. /\ codes' = [codes EXCEPT ![c] = k] /\ codes[c] = NoCode
      /\ req' = [req EXCEPT ![r] = Idle]
      /\ UNCHANGED <<members, password, identities, initMu, states, delivered, admin, confirmed, excused>>
  BY DEF StoreCode, db
<1> HIDE DEF k
<1>4. /\ codes' \in [Codes -> Payload \cup {NoCode}]
      /\ codes'[c] = k /\ \A d \in Codes \ {c} : codes'[d] = codes[d]
      /\ req' \in [Requests -> {Idle} \cup Busy]
      /\ req'[r].pc = "idle" /\ \A q \in Requests \ {r} : req'[q] = req[q]
  BY <1>2, <1>3, Shapes DEF IInv, TypeInv, TypeOK
<1>5. TypeInv'
  <2>1. \A q \in Requests : Shape(req'[q])
    BY <1>3, <1>4, IdleFits DEF Fits, IInv, TypeInv, TypeOK
  <2>2. TypeOK'
    BY <1>3, <1>4 DEF IInv, TypeInv, TypeOK
  <2> QED BY <2>1, <2>2 DEF TypeInv, Shape
<1>6. SetupInv' /\ PasswordInv'
  BY <1>3, <1>4, StepNames DEF IInv, SetupInv, OfSetup, PasswordInv, Live
<1>7. OwnerInv'
  <2>1. members[req[r].id] # NoRow => members[req[r].id].origin = req[r].sub
    BY <1>1 DEF IInv, OwnerInv, Live, Resolved
  <2> QED BY <1>2, <1>3, <1>4, <2>1 DEF IInv, OwnerInv, Live, Resolved
<1>8. \A q \in Requests : req'[q].pc \in SsoSteps => q # r /\ req'[q] = req[q]
  BY <1>4 DEF SsoSteps
<1>9. StateInv'
  BY <1>1, <1>2, <1>3, <1>4, <1>8 DEF IInv, StateInv, Running, Issued, Spent
<1>10. RaceInv'
  BY <1>3, <1>8, StepNames DEF IInv, RaceInv
<1> QED BY <1>5, <1>6, <1>7, <1>9, <1>10 DEF IInv

\* The code is exchanged, once, or expires.
LEMMA CodesInv ==
  ASSUME IInv, NEW c \in Codes, Exchange(c) \/ CodeExpires(c)
  PROVE  IInv'
<1>1. codes[c] \in Payload /\ codes[c].state \in States /\ codes[c].id \in Ids /\ Issued(c)
  BY Shapes DEF Exchange, CodeExpires, IInv, TypeInv, TypeOK, Issued
<1>2. /\ codes' = [codes EXCEPT ![c] = NoCode]
      /\ UNCHANGED <<members, password, identities, initMu, req, states, confirmed, excused>>
  BY DEF Exchange, CodeExpires, db
<1>3. /\ delivered' \in [States -> Ids \cup {None, "deleted"}]
      /\ \A t \in States : delivered'[t] # delivered[t] => t = codes[c].state
      /\ admin' \in BOOLEAN
  <2>1. CASE Exchange(c)
    BY <1>1, <2>1 DEF Exchange, Granted, IInv, TypeInv, TypeOK
  <2>2. CASE CodeExpires(c)
    BY <2>2 DEF CodeExpires, IInv, TypeInv, TypeOK
  <2> QED BY <2>1, <2>2
<1>4. /\ codes' \in [Codes -> Payload \cup {NoCode}] /\ codes'[c] = NoCode
      /\ \A d \in Codes \ {c} : codes'[d] = codes[d]
  BY <1>2 DEF IInv, TypeInv, TypeOK
<1>5. TypeInv'
  BY <1>2, <1>3, <1>4 DEF IInv, TypeInv, TypeOK, Shape
<1>6. SetupInv' /\ PasswordInv' /\ RaceInv'
  BY <1>2 DEF IInv, SetupInv, OfSetup, PasswordInv, RaceInv, Live
<1>7. OwnerInv'
  BY <1>2, <1>4 DEF IInv, OwnerInv, Live
<1>8. StateInv'
  <2>1. /\ \A r \in Requests : Running(r) => req[r].state \in States
        /\ \A d \in Codes : Issued(d) => codes[d].state \in States
    BY Shapes DEF IInv, TypeInv, TypeOK, Shape, Running, Issued
  <2> QED BY <1>1, <1>2, <1>3, <1>4, <2>1 DEF IInv, StateInv, Running, Issued, Spent
<1> QED BY <1>5, <1>6, <1>7, <1>8 DEF IInv

-----------------------------------------------------------------------------
(* The whole system *)

\* Every statement of every request keeps the invariant.
LEMMA NextInv == IInv /\ [Next]_vars => IInv'
<1> SUFFICES ASSUME IInv, [Next]_vars PROVE IInv'
  OBVIOUS
<1>1. ASSUME NEW r \in Requests, Begin(r) PROVE IInv'
  BY <1>1, BeginInv, CallbackInv DEF Begin
<1>2. ASSUME NEW r \in Requests, FindIdentity(r) PROVE IInv'
  <2>1. UNCHANGED <<db, initMu, sso, admin, confirmed>> /\ req[r].pc = "find"
    BY <1>2 DEF FindIdentity
  <2>2. CASE Known(req[r].sub) = {} /\ NotFound(r)
    BY <2>1, <2>2, NotFoundInv
  <2>3. ASSUME NEW i \in Known(req[r].sub),
               req' = [req EXCEPT ![r].pc = "getMember", ![r].id = i, ![r].name = None],
               UNCHANGED excused
        PROVE  IInv'
    <3>1. UNCHANGED <<db, sso, initMu, admin, confirmed, excused>>
      BY <2>1, <2>3 DEF db, sso
    <3> QED BY <2>1, <2>3, <3>1, FoundInv
  <2> QED BY <1>2, <2>2, <2>3 DEF FindIdentity
<1>3. ASSUME NEW r \in Requests, Proceed(r) PROVE IInv'
  BY <1>2, <1>3, FailInv, SetupChecksInv, PasswordsInv, RegisterTokensInv, UpdatePasswordInv,
     ProviderInv, SsoStepInv, InsertIdentityInv, InsertsInv, StoreCodeInv DEF Proceed
<1>4. CASE UNCHANGED vars
  BY <1>4 DEF vars, db, sso, IInv, TypeInv, TypeOK, Shape, SetupInv, OfSetup, PasswordInv, OwnerInv,
     StateInv, RaceInv, Live, Running, Issued, Spent
<1> QED
  BY <1>1, <1>3, <1>4, LockInv, PasswordLoginInv, DeleteMemberInv, DeleteCredentialInv,
     UpdateMemberInv, StatesInv, CodesInv DEF Next

\* The invariant holds throughout.
LEMMA Invariance == Spec => []IInv
BY InitInv, NextInv, PTL DEF Spec

-----------------------------------------------------------------------------
(* Theorems *)

\* Rows, requests, states and codes keep their shape: in particular a request
\* has a member, a subject or an authorization wherever it uses one.
THEOREM TypeCorrect == Spec => []TypeOK
BY Invariance, PTL DEF IInv, TypeInv

\* A set whose elements are all equal has at most one.
LEMMA AtMostOne ==
  ASSUME NEW S, \A x, y \in S : x = y
  PROVE  Cardinality(S) \in {0, 1} /\ (S = {} => Cardinality(S) = 0)
<1>1. CASE S = {}
  BY <1>1, FS_EmptySet
<1>2. CASE S # {}
  <2>1. PICK x \in S : S = {x}
    BY <1>2
  <2> QED BY <1>2, <2>1, FS_Singleton
<1> QED BY <1>1, <1>2

\* initMu and HasAny: setup never leaves two members of its own making.
THEOREM SetupHappensOnce == Spec => []SetupOnce
<1>1. IInv => SetupOnce
  <2> SUFFICES ASSUME IInv PROVE SetupOnce
    OBVIOUS
  <2> DEFINE S == {i \in Ids : Live(i) /\ members[i].origin = "setup"}
  <2>1. \A x, y \in S : x = y
    BY DEF IInv, SetupInv, OfSetup
  <2>2. Cardinality(S) \in {0, 1}
    BY <2>1, AtMostOne
  <2> QED BY <2>2 DEF SetupOnce
<1> QED BY <1>1, Invariance, PTL

\* resolveOrProvision: a login never ends with a member made for somebody else.
THEOREM NobodyIsTakenOver == Spec => []NoTakeover
<1>1. IInv => NoTakeover
  BY DEF IInv, TypeInv, TypeOK, OwnerInv, NoTakeover
<1> QED BY <1>1, Invariance, PTL

-----------------------------------------------------------------------------
(* The members of a subject *)

\* A member made for a subject has its identity, or is about to get it from the
\* request that made it, unless the observer has noted that it was left without.
OrphanInv ==
  \A s \in Subjects \ excused, i \in Ids : Live(i) /\ members[i].origin = s =>
    \/ <<s, i>> \in identities
    \/ \E r \in Requests : req[r].pc = "identity" /\ req[r].sub = s /\ req[r].id = i

\* No member of a subject comes, and none loses the identity or the request that
\* it has.
LEMMA OrphanFrame ==
  ASSUME OrphanInv, excused \subseteq excused',
         \A i \in Ids : members'[i] # NoRow /\ members'[i].origin \in Subjects =>
           members[i] # NoRow /\ members[i].origin = members'[i].origin,
         \A s \in Subjects \ excused', i \in Ids :
           <<s, i>> \in identities /\ members'[i] # NoRow => <<s, i>> \in identities',
         \A r \in Requests : req[r].pc = "identity" =>
           \/ req'[r] = req[r]
           \/ req[r].sub \in excused' \/ members'[req[r].id] = NoRow
           \/ <<req[r].sub, req[r].id>> \in identities'
  PROVE  OrphanInv'
<1> SUFFICES ASSUME NEW s \in Subjects \ excused', NEW i \in Ids,
                    members'[i] # NoRow, members'[i].origin = s
             PROVE  \/ <<s, i>> \in identities'
                    \/ \E r \in Requests : req'[r].pc = "identity" /\ req'[r].sub = s /\ req'[r].id = i
  BY DEF OrphanInv, Live
<1>1. s \in Subjects \ excused /\ Live(i) /\ members[i].origin = s
  BY DEF Live
<1>2. CASE <<s, i>> \in identities
  BY <1>2
<1>3. ASSUME NEW r \in Requests, req[r].pc = "identity", req[r].sub = s, req[r].id = i
      PROVE  \/ <<s, i>> \in identities'
             \/ req'[r].pc = "identity" /\ req'[r].sub = s /\ req'[r].id = i
  BY <1>3
<1> QED BY <1>1, <1>2, <1>3 DEF OrphanInv

LEMMA OrphanNext == ASSUME IInv, OrphanInv, [Next]_vars PROVE OrphanInv'
<1> DEFINE Aside == /\ UNCHANGED <<members, identities>> /\ excused \subseteq excused'
                    /\ \A q \in Requests : req[q].pc = "identity" => req'[q] = req[q]
<1>0. ASSUME Aside PROVE OrphanInv'
  BY <1>0, OrphanFrame
<1>t. /\ req \in [Requests -> {Idle} \cup Busy] /\ members \in [Ids -> Row \cup {NoRow}]
      /\ Idle.pc = "idle"
  BY Shapes DEF IInv, TypeInv, TypeOK
<1>1. ASSUME NEW r \in Requests, Begin(r) \/ Lock(r) PROVE Aside
  BY <1>t, <1>1 DEF Begin, Setup, CreateMember, SetPassword, Callback, Lock, Start, Goto, db
<1>2. ASSUME NEW r \in Requests,
             \/ HasAny(r) \/ GetByUsername(r) \/ RegisterPassword(r) \/ RegisterTokens(r)
             \/ CreatePassword(r) \/ UpdatePassword(r) \/ InsertPassword(r)
      PROVE  Aside
  BY <1>t, <1>2 DEF HasAny, GetByUsername, RegisterPassword, RegisterTokens, CreatePassword,
     UpdatePassword, InsertPassword, AddPassword, Goto, db
<1>3. ASSUME NEW r \in Requests,
             \/ \E s \in Subjects, email \in Emails \cup {None}, role \in Roles :
                  ProviderExchange(r, s, email, role)
             \/ FindIdentity(r) \/ GetMember(r) \/ NameTaken(r) \/ \E c \in Codes : StoreCode(r, c)
      PROVE  Aside
  BY <1>t, <1>3 DEF ProviderExchange, FindIdentity, NotFound, GetMember, NameTaken, StoreCode, Goto, db
<1>4. ASSUME NEW i \in Ids, PasswordLogin(i) PROVE Aside
  BY <1>4 DEF PasswordLogin, db
<1>5. ASSUME NEW t \in States, Authorize(t) \/ StateGone(t) PROVE Aside
  BY <1>5 DEF Authorize, StateGone, db
<1>6. ASSUME NEW c \in Codes, Exchange(c) \/ CodeExpires(c) PROVE Aside
  BY <1>6 DEF Exchange, CodeExpires, db
<1>7. ASSUME UNCHANGED vars PROVE Aside
  BY <1>7 DEF vars, db
<1> HIDE DEF Aside
<1>8. ASSUME NEW r \in Requests, Fail(r) PROVE OrphanInv'
  <2>1. /\ UNCHANGED <<members, identities>> /\ excused \subseteq excused'
        /\ \A q \in Requests \ {r} : req'[q] = req[q]
    BY <1>t, <1>8 DEF Fail, db
  <2>2. req[r].pc = "identity" => req[r].sub \in excused' \/ members'[req[r].id] = NoRow
    <3>1. req[r].pc = "identity" => req[r].sub \in Subjects
      BY DEF IInv, TypeInv, Shape, SsoSteps
    <3> QED BY <1>8, <2>1, <3>1 DEF Fail, Live
  <2> QED BY <2>1, <2>2, OrphanFrame
<1>9. ASSUME NEW r \in Requests, InsertIdentity(r) PROVE OrphanInv'
  <2>1. /\ UNCHANGED <<members, excused>> /\ \A q \in Requests \ {r} : req'[q] = req[q]
        /\ identities' = identities \cup {<<req[r].sub, req[r].id>>}
    BY <1>t, <1>9 DEF InsertIdentity, Goto
  <2> QED BY <2>1, OrphanFrame
<1>10. ASSUME NEW i \in Ids, DeleteMember(i) PROVE OrphanInv'
  <2>1. /\ members'[i] = NoRow /\ \A j \in Ids \ {i} : members'[j] = members[j]
        /\ \A x \in identities : x[2] # i => x \in identities'
        /\ UNCHANGED <<req, excused>>
    BY <1>t, <1>10 DEF DeleteMember
  <2>2. \A s \in Subjects, j \in Ids : <<s, j>> \in identities /\ j # i => <<s, j>> \in identities'
    BY <2>1
  <2> QED BY <2>1, <2>2, OrphanFrame
<1>11. ASSUME NEW i \in Ids, DeleteCredential(i) PROVE OrphanInv'
  <2>1. PICK s \in Subjects : identities' = identities \ {<<s, i>>} /\ excused' = excused \cup {s}
    BY <1>11 DEF DeleteCredential
  <2>2. UNCHANGED <<members, req>>
    BY <1>11 DEF DeleteCredential
  <2>3. \A u \in Subjects \ excused', j \in Ids : <<u, j>> \in identities => <<u, j>> \in identities'
    BY <2>1
  <2> QED BY <2>1, <2>2, <2>3, OrphanFrame
<1>12. ASSUME NEW i \in Ids, NEW role \in Roles, NEW n, UpdateMember(i, n, role) PROVE OrphanInv'
  <2>1. members[i] \in Row
    BY <1>t, <1>12 DEF UpdateMember, Live
  <2>2. /\ members'[i] # NoRow /\ members'[i].origin = members[i].origin /\ members[i] # NoRow
        /\ \A j \in Ids \ {i} : members'[j] = members[j]
    <3>1. members'[i] = [members[i] EXCEPT !.name = n, !.role = role]
          /\ \A j \in Ids \ {i} : members'[j] = members[j]
      BY <1>t, <1>12 DEF UpdateMember
    <3>2. members'[i].origin = members[i].origin /\ members'[i].role = role
      BY <2>1, <3>1 DEF Row
    <3>3. DOMAIN members'[i] = {"name", "role", "origin"} /\ DOMAIN NoRow = {"name"}
      BY <2>1, <3>1 DEF Row, NoRow
    <3> QED BY <1>12, <3>1, <3>2, <3>3 DEF UpdateMember, Live
  <2>3. UNCHANGED <<req, identities, excused>>
    BY <1>12 DEF UpdateMember
  <2> QED BY <2>2, <2>3, OrphanFrame
<1>13. ASSUME NEW r \in Requests, NEW i \in Ids,
              Register(r, i) \/ CreateInsert(r, i) \/ Provision(r, i) \/ ProvisionSuffixed(r, i)
       PROVE  OrphanInv'
  <2>1. PICK from, to, n, o :
          /\ InsertMember(r, from, to, i, n, o) /\ from # "identity"
          /\ o \in {"setup", "admin"} \/ (o = req[r].sub /\ to = "identity")
    BY <1>13 DEF Register, CreateInsert, Provision, ProvisionSuffixed
  <2>2. req[r] \in Busy /\ req[r].pc # "identity"
    BY <1>13, <2>1, BusyRequest DEF IInv, TypeInv, InsertMember, Register, CreateInsert, Provision,
       ProvisionSuffixed
  <2>3. /\ members'[i].origin = o /\ \A j \in Ids \ {i} : members'[j] = members[j]
        /\ req'[r].pc = to /\ req'[r].id = i /\ req'[r].sub = req[r].sub
        /\ \A q \in Requests \ {r} : req'[q] = req[q]
        /\ UNCHANGED <<identities, excused>>
    BY <1>t, <2>1, <2>2 DEF InsertMember, Busy
  <2> SUFFICES ASSUME NEW s \in Subjects \ excused, NEW j \in Ids, Live(j)', members'[j].origin = s
               PROVE  \/ <<s, j>> \in identities
                      \/ \E q \in Requests : req'[q].pc = "identity" /\ req'[q].sub = s /\ req'[q].id = j
    BY <2>3 DEF OrphanInv
  <2>4. CASE j = i
    BY <2>1, <2>3, <2>4, ProvisioningAssumption
  <2>5. CASE j # i
    <3>1. Live(j) /\ members[j].origin = s
      BY <2>3, <2>5 DEF Live
    <3> QED BY <2>2, <2>3, <3>1 DEF OrphanInv
  <2> QED BY <2>4, <2>5
<1>14. ASSUME NEW r \in Requests, Proceed(r) PROVE OrphanInv'
  BY <1>0, <1>2, <1>3, <1>8, <1>9, <1>13, <1>14 DEF Proceed
<1> QED BY <1>0, <1>1, <1>4, <1>5, <1>6, <1>7, <1>10, <1>11, <1>12, <1>14 DEF Next

\* A subject has at most one live member made for it, unless two of its first
\* logins overlapped, or a member was left without the identity that leads back
\* to it (a failed INSERT, or an identity deleted without its member).
THEOREM OneMember == Spec => []OneMemberPerSubject
<1>1. ASSUME IInv, OrphanInv PROVE OneMemberPerSubject
  <2> SUFFICES ASSUME NEW s \in Subjects \ excused
               PROVE  Cardinality({i \in Ids : Live(i) /\ members[i].origin = s}) <= 1
    BY DEF OneMemberPerSubject
  <2> DEFINE S == {i \in Ids : Live(i) /\ members[i].origin = s}
  <2>1. \A x \in S : \/ <<s, x>> \in identities
                     \/ \E r \in Requests : req[r].pc = "identity" /\ req[r].sub = s /\ req[r].id = x
    BY <1>1 DEF OrphanInv
  <2>2. \A x, y \in S : x = y
    BY <1>1, <2>1 DEF IInv, RaceInv, First
  <2>3. Cardinality(S) \in {0, 1}
    BY <2>2, AtMostOne
  <2> QED BY <2>3
<1>2. Init => OrphanInv
  BY DEF Init, OrphanInv, Live
<1> QED BY <1>1, <1>2, OrphanNext, Invariance, PTL DEF Spec

\* GETDEL of states and codes: one authorization never becomes two sessions.
THEOREM OneLogin == Spec => []OneLoginPerState
<1>1. IInv => OneLoginPerState
  <2> SUFFICES ASSUME IInv, NEW t \in States
               PROVE  Cardinality({r \in Requests : req[r].pc \in SsoSteps /\ req[r].state = t})
                        + Cardinality({c \in Codes : codes[c].state = t})
                        + (IF delivered[t] = None THEN 0 ELSE 1) <= 1
    BY DEF OneLoginPerState
  <2> DEFINE R == {r \in Requests : req[r].pc \in SsoSteps /\ req[r].state = t}
             C == {c \in Codes : codes[c].state = t}
  <2>1. \A c \in C : Issued(c)
    BY Shapes DEF Issued
  <2>2. (\A x, y \in R : x = y) /\ (\A x, y \in C : x = y) /\ (R = {} \/ C = {})
    BY <2>1 DEF IInv, StateInv, Running
  <2>3. R # {} \/ C # {} => delivered[t] = None
    BY <2>1 DEF IInv, StateInv, Running, Spent
  <2>4. /\ Cardinality(R) \in {0, 1} /\ (R = {} => Cardinality(R) = 0)
        /\ Cardinality(C) \in {0, 1} /\ (C = {} => Cardinality(C) = 0)
    BY <2>2, AtMostOne
  <2> HIDE DEF R, C
  <2>5. Cardinality(R) + Cardinality(C) + (IF delivered[t] = None THEN 0 ELSE 1) <= 1
    BY <2>2, <2>3, <2>4
  <2> QED BY <2>5 DEF R, C
<1> QED BY <1>1, Invariance, PTL

\* A member whose creation was confirmed keeps a password as long as it exists.
THEOREM ConfirmedLogsIn == Spec => []ConfirmedCanLogin
BY Invariance, PTL DEF IInv, PasswordInv, ConfirmedCanLogin
=============================================================================
