------------------------- MODULE AccessControlProofs -------------------------
(***************************************************************************)
(* TLAPS proofs about AccessControl, for any members, gates, schedules,    *)
(* tokens, permissions and requests.                                       *)
(***************************************************************************)
EXTENDS AccessControl, TLAPS

-----------------------------------------------------------------------------
(* The inductive invariant *)

\* The owner of a usable token exists: deleting a member deletes its tokens.
OwnerInv ==
  \A c \in Creds : cred[c].phase = "live" =>
    cred[c].owner \in Members /\ role[cred[c].owner] # "none"

\* What a trigger carries at the query it is at.
TokenSteps == {"tokenLink", "tokenSchedule", "tokenPolicies", "tokenPerm"}
CallerInv ==
  \A r \in Callers :
    /\ req[r].pc \in TokenSteps => req[r].cred # None
    /\ req[r] # Idle => req[r].cred \in known \cup {None}

TypeInv ==
  /\ TypeOK /\ OwnerInv /\ CallerInv
  /\ req \in [Requests -> {Idle} \cup Trigger \cup Making \cup Deletes]

\* A token in the making is in one request only and was handed to nobody; what
\* is not to do any more is stored.  A token somebody deletes is marked.
Stored(c, todo) ==
  \A a \in cred[c].scope \ todo : a[1] \in gates => <<c, a[1], a[2]>> \in policies

MakingInv ==
  /\ \A r \in Editors : req[r].pc = "grant" =>
       /\ cred[req[r].cred].phase # "absent" /\ req[r].cred \notin known
       /\ req[r].todo \subseteq cred[req[r].cred].scope
       /\ req[r].cred \notin shaken => Stored(req[r].cred, req[r].todo)
  /\ \A q, r \in Editors :
       req[q].pc = "grant" /\ req[r].pc = "grant" /\ req[q].cred = req[r].cred => q = r
  /\ \A r \in Editors : req[r].pc \in {"revoke", "unlink", "drop"} => req[r].cred \in shaken

\* Tokens have no policies but those they were created with, and a token whose
\* secret was handed out has them all, expired or not.
ScopeInv ==
  /\ \A c \in Creds : cred[c].phase = "absent" =>
       cred[c] = NoCred /\ c \notin known /\ c \notin shaken
  /\ \A p \in policies : p[1] \in Creds => <<p[2], p[3]>> \in cred[p[1]].scope
  /\ \A c \in known \ shaken : Stored(c, {})

\* The request that makes a token carries the schedule asked for; a token whose
\* secret was handed out is bound by it, while it exists.
LinkInv ==
  /\ \A r \in Editors : req[r].pc = "grant" => req[r].sid = cred[req[r].cred].sid
  /\ \A c \in known \ shaken : tokenLink[c] = Asked(c)

\* What the observer has of a trigger in state q.
PastToken == {"tokenPolicies", "tokenPerm", "memberPerm", "memberLink", "memberSchedule",
              "load", "fire"}
PastPerm  == {"memberLink", "memberSchedule", "load", "fire"}
Bound(q)  == q.cred # None \/ q.role = "MEMBER"

Kept(S, kind) ==
  \/ <<kind, None>> \in S
  \/ \E s \in Schedules : {<<kind, s>>, <<"allows", s>>} \subseteq S

Progress(q, S) ==
  /\ q.pc = "tokenSchedule" => q.sid \in Schedules /\ <<"tokenLink", q.sid>> \in S
  /\ q.pc \in PastToken /\ q.cred # None => Kept(S, "tokenLink")
  /\ q.pc \in PastPerm /\ Bound(q) => <<"permitted", None>> \in S
  /\ q.pc = "memberSchedule" => q.sid \in Schedules /\ <<"memberLink", q.sid>> \in S
  /\ q.pc \in {"load", "fire"} /\ Bound(q) => Kept(S, "memberLink")

\* The observer has seen the present state, and what each query so far has
\* found; a token that had no policies when it was asked never gets any.
SeenInv ==
  \A r \in Callers : req[r] # Idle =>
    /\ Facts(req[r]) \subseteq seen[r]
    /\ Progress(req[r], seen[r])
    /\ req[r].pc = "memberPerm" /\ req[r].cred # None => Of(req[r].cred) = {}

IInv == TypeInv /\ MakingInv /\ ScopeInv /\ LinkInv /\ SeenInv
-----------------------------------------------------------------------------
(* Types *)

\* A request that is not idle carries the fields of its kind.
LEMMA Shapes ==
  ASSUME TypeInv
  PROVE  /\ Idle.pc = "idle"
         /\ \A r \in Callers : req[r] # Idle =>
              /\ req[r] \in Trigger /\ req[r].pc \in Checks \cup {"fire"} /\ req[r].pc # "idle"
              /\ req[r].member \in Members /\ req[r].role \in Roles
              /\ req[r].cred \in Creds \cup {None} /\ req[r].gate \in Gates
              /\ req[r].perm \in Perms /\ req[r].sid \in Link
         /\ \A r \in Editors : req[r].pc = "grant" =>
              /\ req[r] \in Making /\ req[r].cred \in Creds
              /\ req[r].todo \in SUBSET Scope /\ req[r].sid \in Link
         /\ \A r \in Editors : req[r].pc \in {"revoke", "unlink", "drop"} =>
              req[r] \in Deletes /\ req[r].cred \in Creds
<1>1. Idle.pc = "idle"
  BY DEF Idle
<1>2. \A r \in Callers : req[r] # Idle => req[r] \in Trigger
  BY DEF TypeInv, TypeOK
<1>3. \A q \in Making : q.pc = "grant"
  BY DEF Making
<1>4. \A q \in Deletes : q.pc \in {"revoke", "unlink", "drop"}
  BY DEF Deletes
<1>5. \A r \in Editors : req[r].pc = "grant" => req[r] \in Making
  BY <1>1, <1>4 DEF TypeInv, TypeOK
<1>6. \A r \in Editors : req[r].pc \in {"revoke", "unlink", "drop"} => req[r] \in Deletes
  BY <1>1, <1>3 DEF TypeInv, TypeOK
<1>7. \A r \in Callers : req[r] # Idle =>
        /\ req[r].pc \in Checks \cup {"fire"} /\ req[r].pc # "idle"
        /\ req[r].member \in Members /\ req[r].role \in Roles
        /\ req[r].cred \in Creds \cup {None} /\ req[r].gate \in Gates
        /\ req[r].perm \in Perms /\ req[r].sid \in Link
  BY <1>2 DEF Trigger, Checks
<1>8. \A q \in Making : q.cred \in Creds /\ q.todo \in SUBSET Scope /\ q.sid \in Link
  BY DEF Making
<1>9. \A q \in Deletes : q.cred \in Creds
  BY DEF Deletes
<1> QED BY <1>1, <1>2, <1>5, <1>6, <1>7, <1>8, <1>9

\* An editor's step keeps the requests' types; it takes no secret away.
LEMMA EditorType ==
  ASSUME TypeInv, NEW r \in Editors, NEW s \in {Idle} \cup Making \cup Deletes,
         req' = [req EXCEPT ![r] = s], known \subseteq known'
  PROVE  /\ req' \in [Requests -> {Idle} \cup Trigger \cup Making \cup Deletes]
         /\ req'[r] = s /\ \A q \in Requests \ {r} : req'[q] = req[q]
         /\ \A q \in Callers : req'[q] = req[q] /\ req'[q] \in {Idle} \cup Trigger
         /\ \A q \in Editors : req'[q] \in {Idle} \cup Making \cup Deletes
         /\ CallerInv'
<1>0. r \in Requests /\ r \notin Callers /\ Callers \subseteq Requests /\ Editors \subseteq Requests
  BY AccessAssumption DEF Requests
<1>1. /\ req' \in [Requests -> {Idle} \cup Trigger \cup Making \cup Deletes]
      /\ req'[r] = s /\ \A q \in Requests \ {r} : req'[q] = req[q]
  BY <1>0 DEF TypeInv
<1>2. \A q \in Callers : req'[q] = req[q]
  BY <1>0, <1>1
<1> QED BY <1>0, <1>1, <1>2 DEF TypeInv, TypeOK, CallerInv

LEMMA InitType == Init => TypeInv
BY AccessAssumption DEF Init, TypeInv, TypeOK, OwnerInv, CallerInv, TokenSteps, Idle, NoCred, Requests, Link

\* A statement on the tables of policies, links and schedules.
LEMMA TablesType ==
  ASSUME TypeInv, UNCHANGED <<role, claims, cred, known, shaken, req>>,
         gates' \subseteq Gates, schedules' \subseteq Schedules, allows' \subseteq schedules',
         policies' \subseteq Policy, \A p \in policies' : p[2] \in gates',
         memberLink' \in [Members -> [Gates -> schedules' \cup {None}]],
         tokenLink' \in [Creds -> schedules' \cup {None}]
  PROVE  TypeInv'
BY DEF TypeInv, TypeOK, OwnerInv, CallerInv

LEMMA ManageType == ASSUME TypeInv, Manage PROVE TypeInv'
<1>1. ASSUME NEW m \in Members, NEW g \in Gates, NEW p \in Perms, Grant(m, g, p) PROVE TypeInv'
  BY <1>1, TablesType DEF TypeInv, TypeOK, Grant, Policy, Subjects
<1>2. ASSUME NEW m \in Members, NEW g \in Gates, NEW p \in Perms, RevokePermission(m, g, p) PROVE TypeInv'
  BY <1>2, TablesType DEF TypeInv, TypeOK, RevokePermission
<1>3. ASSUME NEW m \in Members, NEW g \in Gates, Revoke(m, g) PROVE TypeInv'
  BY <1>3, TablesType DEF TypeInv, TypeOK, Revoke
<1>4. ASSUME NEW m \in Members, NEW g \in Gates, NEW s \in Link, LinkMember(m, g, s) PROVE TypeInv'
  <2>1. memberLink' \in [Members -> [Gates -> schedules \cup {None}]]
    BY <1>4 DEF TypeInv, TypeOK, LinkMember, Link
  <2> QED BY <1>4, <2>1, TablesType DEF TypeInv, TypeOK, LinkMember
<1>5. ASSUME NEW s \in Schedules, DeleteSchedule(s) PROVE TypeInv'
  <2>1. memberLink' \in [Members -> [Gates -> schedules' \cup {None}]]
    BY <1>5 DEF TypeInv, TypeOK, DeleteSchedule
  <2>2. tokenLink' \in [Creds -> schedules' \cup {None}]
    BY <1>5 DEF TypeInv, TypeOK, DeleteSchedule
  <2> QED BY <1>5, <2>1, <2>2, TablesType DEF TypeInv, TypeOK, DeleteSchedule
<1>6. ASSUME NEW s \in Schedules, TurnSchedule(s) PROVE TypeInv'
  BY <1>6, TablesType DEF TypeInv, TypeOK, TurnSchedule, dbVars
<1>7. ASSUME NEW g \in Gates, DeleteGate(g) PROVE TypeInv'
  <2>1. memberLink' \in [Members -> [Gates -> schedules \cup {None}]]
    BY <1>7 DEF TypeInv, TypeOK, DeleteGate
  <2> QED BY <1>7, <2>1, TablesType DEF TypeInv, TypeOK, DeleteGate
<1>8. ASSUME NEW m \in Members, DeleteMember(m) PROVE TypeInv'
  <2>1. /\ cred' \in [Creds -> [phase: {"absent", "live", "expired", "deleted"},
                                 owner: Members \cup {None}, scope: SUBSET Scope, sid: Link]]
        /\ \A c \in Creds : cred'[c].owner = cred[c].owner /\
             cred'[c].phase = IF cred[c].owner = m THEN "deleted" ELSE cred[c].phase
    BY <1>8 DEF TypeInv, TypeOK, DeleteMember
  <2>2. role' \in [Members -> Roles \cup {"none"}]
        /\ \A n \in Members : n # m => role'[n] = role[n]
    BY <1>8 DEF TypeInv, TypeOK, DeleteMember
  <2>3. OwnerInv'
    BY <2>1, <2>2, AccessAssumption DEF TypeInv, OwnerInv
  <2> QED BY <1>8, <2>1, <2>2, <2>3 DEF TypeInv, TypeOK, CallerInv, DeleteMember
<1>9. ASSUME NEW m \in Members, ExpireClaims(m) PROVE TypeInv'
  BY <1>9 DEF TypeInv, TypeOK, OwnerInv, CallerInv, ExpireClaims, dbVars
<1>10. ASSUME NEW m \in Members, NEW new \in Roles, SetRole(m, new) PROVE TypeInv'
  BY <1>10 DEF TypeInv, TypeOK, OwnerInv, CallerInv, SetRole, Roles
<1>11. ASSUME NEW c \in Creds, ExpireToken(c) PROVE TypeInv'
  BY <1>11 DEF TypeInv, TypeOK, OwnerInv, CallerInv, ExpireToken
<1> QED BY <1>1, <1>2, <1>3, <1>4, <1>5, <1>6, <1>7, <1>8, <1>9, <1>10, <1>11 DEF Manage

LEMMA TokensType == ASSUME TypeInv, NEW r \in Editors, Tokens(r) PROVE TypeInv'
<1> USE DEF TypeInv
<1>0. r \in Requests
  BY DEF Requests
<1>1. ASSUME NEW m \in Members, NEW c \in Creds, NEW scope \in SUBSET Scope, NEW s \in Link,
             InsertToken(r, m, c, scope, s)
      PROVE  TypeInv'
  <2>1. [pc |-> "grant", cred |-> c, todo |-> scope, sid |-> s] \in Making
    BY DEF Making
  <2>2. /\ cred' \in [Creds -> [phase: {"absent", "live", "expired", "deleted"},
                                 owner: Members \cup {None}, scope: SUBSET Scope, sid: Link]]
        /\ OwnerInv'
    BY <1>1 DEF TypeOK, OwnerInv, InsertToken
  <2> QED BY <1>1, <2>1, <2>2, EditorType DEF TypeOK, InsertToken
<1>2. ASSUME NEW m \in Members, NEW c \in Creds, AdminCreateToken(r, m, c) PROVE TypeInv'
  BY <1>1, <1>2 DEF AdminCreateToken, Link
<1>3. ASSUME GrantToken(r) PROVE TypeInv'
  <2>1. PICK a \in req[r].todo : /\ a[1] \in gates
                                 /\ policies' = policies \cup {<<req[r].cred, a[1], a[2]>>}
                                 /\ req' = [req EXCEPT ![r].todo = @ \ {a}]
    BY <1>3 DEF GrantToken
  <2>2. req[r] \in Making /\ a \in Scope /\ req[r].cred \in Creds
    BY <1>3, Shapes DEF GrantToken
  <2>3. [req[r] EXCEPT !.todo = @ \ {a}] \in Making
    BY <2>2 DEF Making
  <2>4. req' = [req EXCEPT ![r] = [req[r] EXCEPT !.todo = @ \ {a}]]
    BY <1>0, <2>1
  <2>5. <<req[r].cred, a[1], a[2]>> \in Policy
    BY <2>2 DEF Scope, Policy, Subjects
  <2>6. policies' \subseteq Policy /\ \A p \in policies' : p[2] \in gates
    <3>1. policies \subseteq Policy /\ \A p \in policies : p[2] \in gates
      BY DEF TypeOK
    <3> QED BY <2>1, <2>5, <3>1
  <2>7. UNCHANGED <<gates, role, claims, cred, schedules, memberLink, tokenLink, allows, known, shaken>>
    BY <1>3 DEF GrantToken
  <2> QED BY <2>3, <2>4, <2>6, <2>7, EditorType DEF TypeOK, OwnerInv
<1>4. ASSUME CreateFails(r) PROVE TypeInv'
  BY <1>4, EditorType DEF TypeOK, OwnerInv, CreateFails, dbVars
<1>5. ASSUME ReturnToken(r) PROVE TypeInv'
  <2>1. req[r].cred \in Creds
    BY <1>5, Shapes DEF ReturnToken
  <2> QED BY <1>5, <2>1, EditorType DEF TypeOK, OwnerInv, ReturnToken
<1>6. ASSUME NEW c \in Creds, BeginDelete(r, c) PROVE TypeInv'
  <2>1. [pc |-> "revoke", cred |-> c] \in Deletes
    BY DEF Deletes
  <2> QED BY <1>6, <2>1, EditorType DEF TypeOK, OwnerInv, BeginDelete, dbVars
<1>7. ASSUME RevokeAll(r) PROVE TypeInv'
  <2>1. req[r] \in Deletes
    BY <1>7, Shapes DEF RevokeAll
  <2>2. [req[r] EXCEPT !.pc = "unlink"] \in Deletes
    BY <2>1 DEF Deletes
  <2>3. req' = [req EXCEPT ![r] = [req[r] EXCEPT !.pc = "unlink"]]
    BY <1>0, <1>7 DEF RevokeAll
  <2>4. policies' \subseteq policies
    BY <1>7 DEF RevokeAll
  <2> QED BY <1>7, <2>2, <2>3, <2>4, EditorType DEF TypeOK, OwnerInv, RevokeAll
<1>8. ASSUME RemoveSchedule(r) PROVE TypeInv'
  <2>1. req[r] \in Deletes
    BY <1>8, Shapes DEF RemoveSchedule
  <2>2. [req[r] EXCEPT !.pc = "drop"] \in Deletes
    BY <2>1 DEF Deletes
  <2>3. req' = [req EXCEPT ![r] = [req[r] EXCEPT !.pc = "drop"]]
    BY <1>0, <1>8 DEF RemoveSchedule
  <2>4. tokenLink' \in [Creds -> schedules \cup {None}]
    BY <1>8 DEF RemoveSchedule, TypeOK
  <2> QED BY <1>8, <2>2, <2>3, <2>4, EditorType DEF TypeOK, OwnerInv, RemoveSchedule
<1>9. ASSUME DropToken(r) PROVE TypeInv'
  <2>1. req[r].cred \in Creds
    BY <1>9, Shapes DEF DropToken
  <2>2. /\ cred' \in [Creds -> [phase: {"absent", "live", "expired", "deleted"},
                                 owner: Members \cup {None}, scope: SUBSET Scope, sid: Link]]
        /\ \A c \in Creds : cred'[c].owner = cred[c].owner /\
                            cred'[c].phase \in {cred[c].phase, "deleted"}
    <3>1. CASE cred' = cred
      BY <3>1 DEF TypeOK
    <3>2. CASE cred' = [cred EXCEPT ![req[r].cred].phase = "deleted"]
      <4>1. /\ cred' = [cred EXCEPT ![req[r].cred] = [cred[req[r].cred] EXCEPT !.phase = "deleted"]]
            /\ cred[req[r].cred] \in [phase: {"absent", "live", "expired", "deleted"},
                                     owner: Members \cup {None}, scope: SUBSET Scope, sid: Link]
        BY <2>1, <3>2 DEF TypeOK
      <4>2. /\ [cred[req[r].cred] EXCEPT !.phase = "deleted"] \in
                 [phase: {"absent", "live", "expired", "deleted"},
                  owner: Members \cup {None}, scope: SUBSET Scope, sid: Link]
            /\ [cred[req[r].cred] EXCEPT !.phase = "deleted"].owner = cred[req[r].cred].owner
            /\ [cred[req[r].cred] EXCEPT !.phase = "deleted"].phase = "deleted"
        BY <4>1
      <4> QED BY <2>1, <4>1, <4>2 DEF TypeOK
    <3> QED BY <1>9, <3>1, <3>2 DEF DropToken
  <2>3. OwnerInv'
    BY <1>9, <2>2 DEF OwnerInv, DropToken
  <2> QED BY <1>9, <2>2, <2>3, EditorType DEF TypeOK, DropToken
<1> QED BY <1>1, <1>2, <1>3, <1>4, <1>5, <1>6, <1>7, <1>8, <1>9 DEF Tokens

\* A trigger's step changes its request only.
LEMMA CallerType ==
  ASSUME TypeInv, NEW r \in Callers, NEW s \in {Idle} \cup Trigger, req' = [req EXCEPT ![r] = s],
         s.pc \in TokenSteps => s.cred # None, s # Idle => s.cred \in known \cup {None},
         UNCHANGED <<dbVars, claims, allows, known, shaken>>
  PROVE  /\ TypeInv'
         /\ req'[r] = s /\ \A q \in Requests \ {r} : req'[q] = req[q]
<1>0. r \in Requests /\ r \notin Editors /\ Callers \subseteq Requests /\ Editors \subseteq Requests
  BY AccessAssumption DEF Requests
<1>1. /\ req' \in [Requests -> {Idle} \cup Trigger \cup Making \cup Deletes]
      /\ req'[r] = s /\ \A q \in Requests \ {r} : req'[q] = req[q]
  BY <1>0 DEF TypeInv
<1>2. \A q \in Editors : req'[q] = req[q]
  BY <1>0, <1>1
<1>3. CallerInv'
  BY <1>0, <1>1 DEF TypeInv, CallerInv
<1>4. \A q \in Callers : req'[q] \in {Idle} \cup Trigger
  BY <1>0, <1>1 DEF TypeInv, TypeOK
<1> QED BY <1>0, <1>1, <1>2, <1>3, <1>4 DEF TypeInv, TypeOK, OwnerInv, dbVars

\* A query that is answered.
Answered(q, pc, s) == [q EXCEPT !.pc = pc, !.sid = s]

LEMMA StepType ==
  ASSUME TypeInv, NEW r \in Callers, NEW from \in Checks, NEW ok,
         NEW pc \in Checks \cup {"fire"}, NEW s \in Link, Step(r, from, ok, pc, s),
         pc \in TokenSteps => req[r].cred # None
  PROVE  /\ TypeInv' /\ req[r] \in Trigger
         /\ req'[r] = Answered(req[r], pc, s) /\ Answered(req[r], pc, s) \in Trigger
         /\ \A q \in Requests \ {r} : req'[q] = req[q]
<1>0. r \in Requests
  BY DEF Requests
<1>1. req[r] # Idle
  BY DEF Step, Checks, Idle
<1>2. req[r] \in Trigger /\ req[r].cred \in known \cup {None}
  BY <1>1, Shapes DEF TypeInv, CallerInv
<1>3. /\ Answered(req[r], pc, s) \in Trigger /\ Answered(req[r], pc, s).pc = pc
      /\ Answered(req[r], pc, s).cred = req[r].cred
  BY <1>2 DEF Answered, Trigger
<1>5. s \in Link /\ UNCHANGED <<dbVars, claims, allows, known, shaken>>
  BY DEF Step
<1>4. req' = [req EXCEPT ![r] = Answered(req[r], pc, s)]
  BY <1>0 DEF Step, Answered, TypeInv
<1>6. Answered(req[r], pc, s) # Idle
  BY <1>3 DEF Checks, Idle
<1> QED BY <1>2, <1>3, <1>4, <1>5, <1>6, CallerType

\* A trigger that begins.
Begun(pc, m, asRole, c, g, p) ==
  [pc |-> pc, member |-> m, role |-> asRole, cred |-> c, gate |-> g, perm |-> p, sid |-> None]

LEMMA BeginType ==
  ASSUME TypeInv, NEW r \in Callers, NEW pc \in Checks, NEW m \in Members, NEW asRole \in Roles,
         NEW c \in known \cup {None}, NEW g \in Gates, NEW p \in Perms,
         Begin(r, pc, m, asRole, c, g, p), pc \in TokenSteps => c # None
  PROVE  /\ TypeInv' /\ Begun(pc, m, asRole, c, g, p) \in Trigger
         /\ req'[r] = Begun(pc, m, asRole, c, g, p)
         /\ \A q \in Requests \ {r} : req'[q] = req[q]
<1>1. /\ Begun(pc, m, asRole, c, g, p) \in Trigger /\ Begun(pc, m, asRole, c, g, p).pc = pc
      /\ Begun(pc, m, asRole, c, g, p).cred = c
  BY DEF Begun, Trigger, Link, TypeInv, TypeOK
<1>2. req' = [req EXCEPT ![r] = Begun(pc, m, asRole, c, g, p)]
  BY DEF Begin, Begun
<1>3. UNCHANGED <<dbVars, claims, allows, known, shaken>>
  BY DEF Begin
<1> QED BY <1>1, <1>2, <1>3, CallerType

LEMMA EndType ==
  ASSUME TypeInv, NEW r \in Callers, Deny(r) \/ Fire(r)
  PROVE  TypeInv' /\ req'[r] = Idle /\ \A q \in Requests \ {r} : req'[q] = req[q]
<1>1. Idle.pc \notin TokenSteps
  BY DEF Idle, TokenSteps
<1> QED BY <1>1, CallerType DEF Deny, Fire

-----------------------------------------------------------------------------
(* The policies of tokens *)

LEMMA InitScope == Init => MakingInv /\ ScopeInv
BY DEF Init, MakingInv, ScopeInv, Idle, NoCred, Requests

\* Gates may go, with their policies; the policies and scopes of tokens stay.
LEMMA ScopeFrame ==
  ASSUME TypeInv, MakingInv, ScopeInv, UNCHANGED <<known, shaken>>,
         \A r \in Editors : req'[r] = req[r], gates' \subseteq gates,
         \A c \in Creds : /\ cred'[c].scope = cred[c].scope
                          /\ cred'[c].phase = "absent" <=> cred[c].phase = "absent"
                          /\ cred'[c].phase = "absent" => cred'[c] = cred[c],
         policies' \subseteq Policy,
         \A p \in Policy : p[1] \in Creds => (p \in policies' <=> p \in policies /\ p[2] \in gates')
  PROVE  MakingInv' /\ ScopeInv'
<1>1. ASSUME NEW c \in Creds, NEW todo, Stored(c, todo) PROVE Stored(c, todo)'
  <2>1. SUFFICES ASSUME NEW a \in cred'[c].scope \ todo, a[1] \in gates'
                 PROVE  <<c, a[1], a[2]>> \in policies'
    BY DEF Stored
  <2>2. a \in Scope /\ a \in cred[c].scope \ todo /\ <<c, a[1], a[2]>> \in policies
    BY <1>1, <2>1 DEF TypeInv, TypeOK, Stored
  <2>3. <<c, a[1], a[2]>> \in Policy
    BY <2>2 DEF Policy, Scope, Subjects
  <2> QED BY <2>1, <2>2, <2>3
<1>2. \A r \in Editors : req[r].pc = "grant" => req[r].cred \in Creds
  BY Shapes
<1>3. MakingInv'
  BY <1>1, <1>2 DEF MakingInv
<1>4. ScopeInv'
  BY <1>1 DEF ScopeInv, TypeInv, TypeOK
<1> QED BY <1>3, <1>4

LEMMA ManageScope ==
  ASSUME TypeInv, TypeInv', MakingInv, ScopeInv, Manage
  PROVE  MakingInv' /\ ScopeInv'
<1> USE DEF TypeInv, TypeOK
<1>0. \A m \in Members : m \notin Creds
  BY AccessAssumption
<1>1. ASSUME NEW m \in Members, NEW g \in Gates, NEW p \in Perms, Grant(m, g, p)
      PROVE  MakingInv' /\ ScopeInv'
  BY <1>0, <1>1, ScopeFrame DEF Grant
<1>2. ASSUME NEW m \in Members, NEW g \in Gates, NEW p \in Perms, RevokePermission(m, g, p)
      PROVE  MakingInv' /\ ScopeInv'
  BY <1>0, <1>2, ScopeFrame DEF RevokePermission
<1>3. ASSUME NEW m \in Members, NEW g \in Gates, Revoke(m, g) PROVE MakingInv' /\ ScopeInv'
  BY <1>0, <1>3, ScopeFrame DEF Revoke
<1>4. ASSUME NEW m \in Members, NEW g \in Gates, NEW s \in Link, LinkMember(m, g, s)
      PROVE  MakingInv' /\ ScopeInv'
  BY <1>4, ScopeFrame DEF LinkMember
<1>5. ASSUME NEW s \in Schedules, DeleteSchedule(s) PROVE MakingInv' /\ ScopeInv'
  BY <1>5, ScopeFrame DEF DeleteSchedule
<1>6. ASSUME NEW s \in Schedules, TurnSchedule(s) PROVE MakingInv' /\ ScopeInv'
  BY <1>6, ScopeFrame DEF TurnSchedule, dbVars
<1>7. ASSUME NEW g \in Gates, DeleteGate(g) PROVE MakingInv' /\ ScopeInv'
  BY <1>7, ScopeFrame DEF DeleteGate
<1>8. ASSUME NEW m \in Members, DeleteMember(m) PROVE MakingInv' /\ ScopeInv'
  <2>1. \A c \in Creds : cred[c].phase = "absent" => cred[c].owner # m
    BY AccessAssumption DEF ScopeInv, NoCred
  <2>2. \A c \in Creds : /\ cred'[c].scope = cred[c].scope
                         /\ cred'[c].phase = "absent" <=> cred[c].phase = "absent"
                         /\ cred'[c].phase = "absent" => cred'[c] = cred[c]
    BY <1>8, <2>1 DEF DeleteMember
  <2> QED BY <1>8, <2>2, ScopeFrame DEF DeleteMember
<1>9. ASSUME NEW m \in Members, ExpireClaims(m) PROVE MakingInv' /\ ScopeInv'
  BY <1>9, ScopeFrame DEF ExpireClaims, dbVars
<1>10. ASSUME NEW m \in Members, NEW new \in Roles, SetRole(m, new) PROVE MakingInv' /\ ScopeInv'
  BY <1>10, ScopeFrame DEF SetRole
<1>11. ASSUME NEW c \in Creds, ExpireToken(c) PROVE MakingInv' /\ ScopeInv'
  <2>1. \A d \in Creds : /\ cred'[d].scope = cred[d].scope
                         /\ cred'[d].phase = "absent" <=> cred[d].phase = "absent"
                         /\ cred'[d].phase = "absent" => cred'[d] = cred[d]
    BY <1>11 DEF ExpireToken
  <2> QED BY <1>11, <2>1, ScopeFrame DEF ExpireToken
<1> QED BY <1>1, <1>2, <1>3, <1>4, <1>5, <1>6, <1>7, <1>8, <1>9, <1>10, <1>11 DEF Manage

\* A request that makes no token (any more) may mark one, and leaves the rest.
LEMMA Unmade ==
  ASSUME TypeInv, MakingInv, ScopeInv, NEW r \in Editors,
         req'[r].pc \in {"idle", "revoke", "unlink", "drop"},
         req'[r].pc # "idle" => req'[r].cred \in shaken',
         \A q \in Editors \ {r} : req'[q] = req[q],
         UNCHANGED <<gates, policies, cred, known>>, shaken \subseteq shaken',
         \A c \in shaken' \ shaken : cred[c].phase # "absent",
         \A c \in Creds, todo \in SUBSET Scope : Stored(c, todo) => Stored(c, todo)'
  PROVE  MakingInv' /\ ScopeInv'
<1>1. \A q \in Editors : req[q].pc = "grant" => req[q].cred \in Creds /\ req[q].todo \in SUBSET Scope
  BY Shapes
<1>2. MakingInv'
  BY <1>1 DEF MakingInv
<1>3. {} \in SUBSET Scope /\ known \subseteq Creds
  BY DEF TypeInv, TypeOK
<1>4. ScopeInv'
  BY <1>3 DEF ScopeInv
<1> QED BY <1>2, <1>4

LEMMA TokensScope ==
  ASSUME TypeInv, TypeInv', MakingInv, ScopeInv, NEW r \in Editors, Tokens(r)
  PROVE  MakingInv' /\ ScopeInv'
<1> USE DEF TypeInv
<1>0. r \in Requests /\ Editors \subseteq Requests
  BY DEF Requests
<1>1. ASSUME NEW m \in Members, NEW c \in Creds, NEW scope \in SUBSET Scope, NEW s \in Link,
             InsertToken(r, m, c, scope, s)
      PROVE  MakingInv' /\ ScopeInv'
  <2>1. /\ req'[r].pc = "grant" /\ req'[r].cred = c /\ req'[r].todo = scope
        /\ \A q \in Editors \ {r} : req'[q] = req[q]
    BY <1>0, <1>1 DEF InsertToken
  <2>2. /\ cred'[c].phase = "live" /\ cred'[c].scope = scope
        /\ \A d \in Creds \ {c} : cred'[d] = cred[d]
    BY <1>1 DEF InsertToken, TypeOK
  <2>3. cred[c].phase = "absent" /\ UNCHANGED <<gates, policies, known, shaken>>
    BY <1>1 DEF InsertToken
  <2>4. \A q \in Editors : req[q].pc = "grant" => req[q].cred \in Creds \ {c}
    BY <2>3, Shapes DEF MakingInv
  <2>5. MakingInv'
    <3>1. Stored(c, scope)'
      BY <2>2 DEF Stored
    <3>2. \A d \in Creds \ {c}, todo \in SUBSET Scope : Stored(d, todo) => Stored(d, todo)'
      BY <2>2, <2>3 DEF Stored
    <3>3. \A q \in Editors : req[q].pc = "grant" => req[q].todo \in SUBSET Scope
      BY Shapes
    <3>4. c \notin known
      BY <2>3 DEF ScopeInv
    <3>5. ASSUME NEW q \in Editors, req'[q].pc = "grant"
          PROVE  /\ cred'[req'[q].cred].phase # "absent" /\ req'[q].cred \notin known'
                 /\ req'[q].todo \subseteq cred'[req'[q].cred].scope
                 /\ req'[q].cred \notin shaken' => Stored(req[q].cred, req[q].todo)'
      <4>1. CASE q = r
        BY <2>1, <2>2, <2>3, <3>1, <3>4, <4>1
      <4>2. CASE q # r
        BY <2>1, <2>2, <2>3, <2>4, <3>2, <3>3, <3>5, <4>2 DEF MakingInv
      <4> QED BY <4>1, <4>2
    <3>6. \A q, t \in Editors :
            req'[q].pc = "grant" /\ req'[t].pc = "grant" /\ req'[q].cred = req'[t].cred => q = t
      BY <2>1, <2>4 DEF MakingInv
    <3>7. \A q \in Editors : req'[q].pc \in {"revoke", "unlink", "drop"} => req'[q].cred \in shaken'
      BY <2>1, <2>3 DEF MakingInv
    <3> QED BY <3>5, <3>6, <3>7 DEF MakingInv
  <2>6. c \notin known /\ \A p \in policies : p[1] # c
    <3>1. cred[c].scope = {} /\ c \notin known
      BY <2>3 DEF ScopeInv, NoCred
    <3> QED BY <3>1 DEF ScopeInv
  <2>7. ScopeInv'
    BY <2>2, <2>3, <2>6 DEF ScopeInv, Stored, TypeOK
  <2> QED BY <2>5, <2>7
<1>2. ASSUME NEW m \in Members, NEW c \in Creds, AdminCreateToken(r, m, c)
      PROVE  MakingInv' /\ ScopeInv'
  BY <1>1, <1>2 DEF AdminCreateToken, Link
<1>3. ASSUME GrantToken(r) PROVE MakingInv' /\ ScopeInv'
  <2>0. PICK a \in req[r].todo : /\ a[1] \in gates
                                 /\ policies' = policies \cup {<<req[r].cred, a[1], a[2]>>}
                                 /\ req' = [req EXCEPT ![r].todo = @ \ {a}]
    BY <1>3 DEF GrantToken
  <2>1. req[r].pc = "grant" /\ req[r] \in Making /\ req[r].cred \in Creds /\ a \in Scope
    BY <1>3, <2>0, Shapes DEF GrantToken
  <2>2. /\ req'[r].pc = "grant" /\ req'[r].cred = req[r].cred /\ req'[r].todo = req[r].todo \ {a}
        /\ \A q \in Editors \ {r} : req'[q] = req[q]
    BY <1>0, <2>0, <2>1 DEF Making
  <2>3. UNCHANGED <<gates, cred, known, shaken>>
    BY <1>3 DEF GrantToken
  <2>4. MakingInv'
    BY <2>0, <2>1, <2>2, <2>3 DEF MakingInv, Stored
  <2>5. a = <<a[1], a[2]>> /\ a \in cred[req[r].cred].scope
    BY <2>0, <2>1 DEF Scope, MakingInv
  <2>6. ScopeInv'
    BY <2>0, <2>3, <2>5 DEF ScopeInv, Stored
  <2> QED BY <2>4, <2>6
<1>4. ASSUME CreateFails(r) PROVE MakingInv' /\ ScopeInv'
  <2>1. req'[r].pc = "idle" /\ \A q \in Editors \ {r} : req'[q] = req[q]
    BY <1>0, <1>4 DEF CreateFails, Idle
  <2>2. UNCHANGED <<gates, policies, cred, known, shaken>>
    BY <1>4 DEF CreateFails, dbVars
  <2>3. \A c \in Creds, todo \in SUBSET Scope : Stored(c, todo) => Stored(c, todo)'
    BY <2>2 DEF Stored
  <2> QED BY <2>1, <2>2, <2>3, Unmade
<1>5. ASSUME ReturnToken(r) PROVE MakingInv' /\ ScopeInv'
  <2>1. req'[r].pc = "idle" /\ \A q \in Editors \ {r} : req'[q] = req[q]
    BY <1>0, <1>5 DEF ReturnToken, Idle
  <2>2. /\ req[r].pc = "grant" /\ req[r].todo = {} /\ known' = known \cup {req[r].cred}
        /\ UNCHANGED <<gates, policies, cred, shaken>>
    BY <1>5 DEF ReturnToken
  <2>3. MakingInv'
    BY <2>1, <2>2 DEF MakingInv, Stored
  <2>4. /\ req[r].cred \in Creds /\ cred[req[r].cred].phase # "absent"
        /\ req[r].cred \notin shaken => Stored(req[r].cred, {})
    BY <2>2, Shapes DEF MakingInv
  <2>5. \A c \in Creds : Stored(c, {}) => Stored(c, {})'
    BY <2>2 DEF Stored
  <2>6. ScopeInv'
    BY <2>2, <2>4, <2>5 DEF ScopeInv, TypeOK
  <2> QED BY <2>3, <2>6
<1>6. ASSUME NEW c \in Creds, BeginDelete(r, c) PROVE MakingInv' /\ ScopeInv'
  <2>1. /\ req'[r].pc = "revoke" /\ req'[r].cred = c
        /\ \A q \in Editors \ {r} : req'[q] = req[q]
    BY <1>0, <1>6 DEF BeginDelete
  <2>2. /\ cred[c].phase # "absent" /\ shaken' = shaken \cup {c}
        /\ UNCHANGED <<gates, policies, cred, known>>
    BY <1>6 DEF BeginDelete, dbVars
  <2>3. \A d \in Creds, todo \in SUBSET Scope : Stored(d, todo) => Stored(d, todo)'
    BY <2>2 DEF Stored
  <2> QED BY <2>1, <2>2, <2>3, Unmade
<1>7. ASSUME RevokeAll(r) PROVE MakingInv' /\ ScopeInv'
  <2>1. req[r].pc = "revoke" /\ req[r] \in Deletes /\ req[r].cred \in Creds
    BY <1>7, Shapes DEF RevokeAll
  <2>2. /\ req'[r].pc = "unlink" /\ req'[r].cred = req[r].cred
        /\ \A q \in Editors \ {r} : req'[q] = req[q]
    BY <1>0, <1>7, <2>1 DEF RevokeAll, Deletes
  <2>3. UNCHANGED <<gates, cred, known, shaken>> /\ policies' \subseteq policies
    BY <1>7 DEF RevokeAll
  <2>4. \A p \in policies : p[1] # req[r].cred => p \in policies'
    BY <1>7 DEF RevokeAll, Of
  <2>5. req[r].cred \in shaken
    BY <2>1 DEF MakingInv
  <2>6. \A c \in Creds \ shaken, todo \in SUBSET Scope : Stored(c, todo) => Stored(c, todo)'
    BY <2>3, <2>4, <2>5 DEF Stored
  <2>7. \A q \in Editors : req[q].pc = "grant" => req[q].cred \in Creds /\ req[q].todo \in SUBSET Scope
    BY Shapes
  <2>8. MakingInv'
    BY <2>2, <2>3, <2>5, <2>6, <2>7 DEF MakingInv
  <2>9. {} \in SUBSET Scope /\ known \subseteq Creds
    BY DEF TypeOK
  <2>10. ScopeInv'
    BY <2>3, <2>6, <2>9 DEF ScopeInv
  <2> QED BY <2>8, <2>10
<1>8. ASSUME RemoveSchedule(r) PROVE MakingInv' /\ ScopeInv'
  <2>1. req[r].pc = "unlink" /\ req[r] \in Deletes
    BY <1>8, Shapes DEF RemoveSchedule
  <2>2. /\ req'[r].pc = "drop" /\ req'[r].cred = req[r].cred
        /\ \A q \in Editors \ {r} : req'[q] = req[q]
    BY <1>0, <1>8, <2>1 DEF RemoveSchedule, Deletes
  <2>3. UNCHANGED <<gates, policies, cred, known, shaken>> /\ req[r].cred \in shaken
    BY <1>8, <2>1 DEF RemoveSchedule, MakingInv
  <2>4. \A c \in Creds, todo \in SUBSET Scope : Stored(c, todo) => Stored(c, todo)'
    BY <2>3 DEF Stored
  <2> QED BY <2>2, <2>3, <2>4, Unmade
<1>9. ASSUME DropToken(r) PROVE MakingInv' /\ ScopeInv'
  <2>1. req[r].pc = "drop" /\ req[r].cred \in Creds
    BY <1>9, Shapes DEF DropToken
  <2>2. req'[r].pc = "idle" /\ \A q \in Editors \ {r} : req'[q] = req[q]
    BY <1>0, <1>9 DEF DropToken, Idle
  <2>3. cred[req[r].cred].phase # "absent"
    BY <2>1 DEF MakingInv, ScopeInv
  <2>4. \A c \in Creds : /\ cred'[c].scope = cred[c].scope
                         /\ cred'[c].phase = "absent" <=> cred[c].phase = "absent"
                         /\ cred'[c].phase = "absent" => cred'[c] = cred[c]
    <3>1. CASE cred' = cred
      BY <3>1
    <3>2. CASE cred' = [cred EXCEPT ![req[r].cred].phase = "deleted"]
      BY <2>1, <2>3, <3>2 DEF TypeOK
    <3> QED BY <1>9, <3>1, <3>2 DEF DropToken
  <2>5. UNCHANGED <<gates, policies, known, shaken>>
    BY <1>9 DEF DropToken
  <2>6. \A q \in Editors : req[q].pc \in {"grant", "revoke", "unlink", "drop"} => req[q].cred \in Creds
    BY Shapes
  <2>7. MakingInv'
    BY <2>2, <2>4, <2>5, <2>6 DEF MakingInv, Stored
  <2>8. ScopeInv'
    BY <2>4, <2>5 DEF ScopeInv, Stored, TypeOK
  <2> QED BY <2>7, <2>8
<1> QED BY <1>1, <1>2, <1>3, <1>4, <1>5, <1>6, <1>7, <1>8, <1>9 DEF Tokens

-----------------------------------------------------------------------------
(* The schedules of tokens *)

\* Links, schedules and secrets stay, and no request starts to make a token.
LEMMA LinkFrame ==
  ASSUME TypeInv, LinkInv, UNCHANGED <<known, tokenLink, schedules>>, shaken \subseteq shaken',
         \A c \in Creds : cred'[c].sid = cred[c].sid,
         \A r \in Editors : req'[r].pc = "grant" =>
           req[r].pc = "grant" /\ req'[r].cred = req[r].cred /\ req'[r].sid = req[r].sid
  PROVE  LinkInv'
<1>1. known \subseteq Creds /\ \A r \in Editors : req[r].pc = "grant" => req[r].cred \in Creds
  BY Shapes DEF TypeInv, TypeOK
<1> QED BY <1>1 DEF LinkInv, Asked

LEMMA ManageLink == ASSUME TypeInv, LinkInv, Manage PROVE LinkInv'
<1> USE DEF TypeInv, TypeOK
<1>1. ASSUME NEW s \in Schedules, DeleteSchedule(s) PROVE LinkInv'
  <2>1. \A c \in Creds : tokenLink[c] = Asked(c) => tokenLink'[c] = Asked(c)'
    <3>1. /\ schedules' = schedules \ {s} /\ cred' = cred
          /\ \A c \in Creds : tokenLink'[c] = IF tokenLink[c] = s THEN None ELSE tokenLink[c]
      BY <1>1 DEF DeleteSchedule
    <3> QED BY <3>1, AccessAssumption DEF Asked
  <2>2. UNCHANGED <<cred, known, shaken, req>>
    BY <1>1 DEF DeleteSchedule
  <2> QED BY <2>1, <2>2 DEF LinkInv
<1>2. ASSUME NEW m \in Members, DeleteMember(m) PROVE LinkInv'
  <2>1. \A c \in Creds : cred'[c].sid = cred[c].sid
    BY <1>2 DEF DeleteMember
  <2> QED BY <1>2, <2>1, LinkFrame DEF DeleteMember
<1>3. ASSUME NEW c \in Creds, ExpireToken(c) PROVE LinkInv'
  <2>1. \A d \in Creds : cred'[d].sid = cred[d].sid
    BY <1>3 DEF ExpireToken
  <2> QED BY <1>3, <2>1, LinkFrame DEF ExpireToken
<1>4. ASSUME UNCHANGED <<schedules, tokenLink, cred, known, shaken, req>> PROVE LinkInv'
  BY <1>4, LinkFrame
<1>5. ASSUME NEW m \in Members, NEW g \in Gates PROVE
        /\ \A p \in Perms : Grant(m, g, p) \/ RevokePermission(m, g, p) => LinkInv'
        /\ Revoke(m, g) => LinkInv'
        /\ \A s \in Link : LinkMember(m, g, s) => LinkInv'
  BY <1>4 DEF Grant, RevokePermission, Revoke, LinkMember
<1>6. \A s \in Schedules : TurnSchedule(s) => LinkInv'
  BY <1>4 DEF TurnSchedule, dbVars
<1>7. \A g \in Gates : DeleteGate(g) => LinkInv'
  BY <1>4 DEF DeleteGate
<1>8. \A m \in Members : ExpireClaims(m) \/ (\E new \in Roles : SetRole(m, new)) => LinkInv'
  BY <1>4 DEF ExpireClaims, SetRole, dbVars
<1> QED BY <1>1, <1>2, <1>3, <1>5, <1>6, <1>7, <1>8 DEF Manage

LEMMA TokensLink ==
  ASSUME TypeInv, MakingInv, ScopeInv, LinkInv, NEW r \in Editors, Tokens(r)
  PROVE  LinkInv'
<1> USE DEF TypeInv
<1>0. r \in Requests /\ Editors \subseteq Requests /\ known \subseteq Creds
  BY DEF Requests, TypeOK
<1>1. ASSUME NEW m \in Members, NEW c \in Creds, NEW scope \in SUBSET Scope, NEW s \in Link,
             InsertToken(r, m, c, scope, s)
      PROVE  LinkInv'
  <2>1. /\ req'[r].pc = "grant" /\ req'[r].cred = c /\ req'[r].sid = s
        /\ \A q \in Editors \ {r} : req'[q] = req[q]
    BY <1>0, <1>1 DEF InsertToken
  <2>2. cred'[c].sid = s /\ \A d \in Creds \ {c} : cred'[d] = cred[d]
    BY <1>1 DEF InsertToken, TypeOK
  <2>3. cred[c].phase = "absent" /\ UNCHANGED <<schedules, tokenLink, known, shaken>>
    BY <1>1 DEF InsertToken
  <2>4. \A q \in Editors : req[q].pc = "grant" => req[q].cred \in Creds \ {c}
    BY <2>3, Shapes DEF MakingInv
  <2>5. c \notin known
    BY <2>3 DEF ScopeInv
  <2> QED BY <1>0, <2>1, <2>2, <2>3, <2>4, <2>5 DEF LinkInv, Asked
<1>2. ASSUME NEW m \in Members, NEW c \in Creds, AdminCreateToken(r, m, c) PROVE LinkInv'
  BY <1>1, <1>2 DEF AdminCreateToken, Link
<1>3. ASSUME GrantToken(r) PROVE LinkInv'
  <2>1. PICK a \in req[r].todo : req' = [req EXCEPT ![r].todo = @ \ {a}]
    BY <1>3 DEF GrantToken
  <2>2. req[r].pc = "grant" /\ req[r] \in Making
    BY <1>3, Shapes DEF GrantToken
  <2>3. /\ req'[r].cred = req[r].cred /\ req'[r].sid = req[r].sid
        /\ \A q \in Editors \ {r} : req'[q] = req[q]
    BY <1>0, <2>1, <2>2 DEF Making
  <2> QED BY <1>3, <2>2, <2>3, LinkFrame DEF GrantToken
<1>4. ASSUME CreateFails(r) PROVE LinkInv'
  <2>1. req'[r].pc = "idle" /\ \A q \in Editors \ {r} : req'[q] = req[q]
    BY <1>0, <1>4 DEF CreateFails, Idle
  <2> QED BY <1>4, <2>1, LinkFrame DEF CreateFails, dbVars
<1>5. ASSUME ReturnToken(r) PROVE LinkInv'
  <2>1. req'[r].pc = "idle" /\ \A q \in Editors \ {r} : req'[q] = req[q]
    BY <1>0, <1>5 DEF ReturnToken, Idle
  <2>2. /\ req[r].pc = "grant" /\ req[r].sid \in schedules \cup {None}
        /\ known' = known \cup {req[r].cred} /\ UNCHANGED <<schedules, cred, shaken>>
    BY <1>5 DEF ReturnToken
  <2>3. req[r].cred \in Creds /\ req[r].sid = cred[req[r].cred].sid
    BY <2>2, Shapes DEF LinkInv
  <2>4. /\ tokenLink'[req[r].cred] = req[r].sid
        /\ \A c \in Creds \ {req[r].cred} : tokenLink'[c] = tokenLink[c]
    BY <1>5, <2>3 DEF ReturnToken, TypeOK
  <2>5. \A c \in Creds : c = req[r].cred => tokenLink'[c] = Asked(c)'
    BY <2>2, <2>3, <2>4 DEF Asked
  <2>6. \A c \in known \ {req[r].cred} : tokenLink'[c] = tokenLink[c] /\ Asked(c)' = Asked(c)
    BY <1>0, <2>2, <2>4 DEF Asked
  <2>7. \A c \in known' \ shaken' : tokenLink'[c] = Asked(c)'
    BY <2>2, <2>3, <2>5, <2>6 DEF LinkInv
  <2> QED BY <2>1, <2>2, <2>7 DEF LinkInv
<1>6. ASSUME NEW c \in Creds, BeginDelete(r, c) PROVE LinkInv'
  <2>1. req'[r].pc = "revoke" /\ \A q \in Editors \ {r} : req'[q] = req[q]
    BY <1>0, <1>6 DEF BeginDelete
  <2> QED BY <1>6, <2>1, LinkFrame DEF BeginDelete, dbVars
<1>7. ASSUME RevokeAll(r) PROVE LinkInv'
  <2>1. req[r] \in Deletes
    BY <1>7, Shapes DEF RevokeAll
  <2>2. req'[r].pc = "unlink" /\ \A q \in Editors \ {r} : req'[q] = req[q]
    BY <1>0, <1>7, <2>1 DEF RevokeAll, Deletes
  <2> QED BY <1>7, <2>2, LinkFrame DEF RevokeAll
<1>8. ASSUME RemoveSchedule(r) PROVE LinkInv'
  <2>1. req[r] \in Deletes /\ req[r].cred \in shaken
    BY <1>8, Shapes DEF RemoveSchedule, MakingInv
  <2>2. req'[r].pc = "drop" /\ \A q \in Editors \ {r} : req'[q] = req[q]
    BY <1>0, <1>8, <2>1 DEF RemoveSchedule, Deletes
  <2>3. \A c \in Creds \ {req[r].cred} : tokenLink'[c] = tokenLink[c]
    BY <1>8 DEF RemoveSchedule, TypeOK
  <2>4. UNCHANGED <<schedules, cred, known, shaken>>
    BY <1>8 DEF RemoveSchedule
  <2> QED BY <1>0, <2>1, <2>2, <2>3, <2>4 DEF LinkInv, Asked
<1>9. ASSUME DropToken(r) PROVE LinkInv'
  <2>1. req[r].cred \in Creds
    BY <1>9, Shapes DEF DropToken
  <2>2. req'[r].pc = "idle" /\ \A q \in Editors \ {r} : req'[q] = req[q]
    BY <1>0, <1>9 DEF DropToken, Idle
  <2>3. \A c \in Creds : cred'[c].sid = cred[c].sid
    BY <1>9, <2>1 DEF DropToken, TypeOK
  <2> QED BY <1>9, <2>2, <2>3, LinkFrame DEF DropToken
<1> QED BY <1>1, <1>2, <1>3, <1>4, <1>5, <1>6, <1>7, <1>8, <1>9 DEF Tokens

-----------------------------------------------------------------------------
(* What a trigger has seen *)

LEMMA InitSeen == Init => SeenInv
BY DEF Init, SeenInv, Requests

\* No step gives a policy to a token that is in use: its making is over.
LEMMA NoNewPolicies ==
  ASSUME TypeInv, MakingInv, Next
  PROVE  \A p \in policies' : p[1] \in known => p \in policies
<1> USE DEF TypeInv, TypeOK
<1>0. \A m \in Members : m \notin known
  BY AccessAssumption
<1>1. CASE Manage
  BY <1>0, <1>1 DEF Manage, Grant, RevokePermission, Revoke, LinkMember, DeleteSchedule,
     TurnSchedule, DeleteGate, DeleteMember, ExpireClaims, SetRole, ExpireToken, dbVars
<1>2. ASSUME NEW r \in Editors, Tokens(r) PROVE \A p \in policies' : p[1] \in known => p \in policies
  <2>1. CASE GrantToken(r)
    <3>1. req[r].cred \notin known
      BY <2>1 DEF GrantToken, MakingInv
    <3> QED BY <2>1, <3>1 DEF GrantToken
  <2>2. CASE ~ GrantToken(r)
    BY <1>2, <2>2 DEF Tokens, InsertToken, AdminCreateToken, CreateFails, ReturnToken, BeginDelete,
       RevokeAll, RemoveSchedule, DropToken, dbVars
  <2> QED BY <2>1, <2>2
<1>3. ASSUME NEW r \in Callers, Triggers(r) PROVE policies' = policies
  BY <1>3 DEF Triggers, BeginSession, BeginToken, Begin, GetTokenSchedule, CheckTokenSchedule, HasAny,
     HasTokenPermission, HasPermission, GetMemberSchedule, CheckMemberSchedule, LoadGate, Step,
     Deny, Fire, dbVars
<1> QED BY <1>1, <1>2, <1>3 DEF Next

\* The observer sees the new state and forgets nothing of a request that goes on.
LEMMA Observed ==
  ASSUME Observe, NEW r \in Callers, req'[r] # Idle
  PROVE  Facts(req[r])' \subseteq seen'[r] /\ (req[r] # Idle => seen[r] \subseteq seen'[r])
BY DEF Observe

LEMMA Monotone ==
  ASSUME NEW q, NEW S, NEW T, S \subseteq T, Progress(q, S)
  PROVE  Progress(q, T)
<1>1. \A k : Kept(S, k) => Kept(T, k)
  BY DEF Kept
<1> QED BY <1>1 DEF Progress

Seeing(r) ==
  /\ Facts(req[r]) \subseteq seen[r]
  /\ Progress(req[r], seen[r])
  /\ req[r].pc = "memberPerm" /\ req[r].cred # None => Of(req[r].cred) = {}

\* A request that another step does not touch keeps what it has.
LEMMA SeeingOn ==
  ASSUME TypeInv, MakingInv, SeenInv, Next, NEW r \in Callers, req'[r] = req[r], req[r] # Idle
  PROVE  Seeing(r)'
<1>1. Facts(req[r])' \subseteq seen'[r] /\ seen[r] \subseteq seen'[r]
  BY Observed DEF Next
<1>2. Progress(req[r], seen[r])'
  BY <1>1, Monotone DEF SeenInv
<1>3. ASSUME req[r].pc = "memberPerm", req[r].cred # None PROVE Of(req[r].cred)' = {}
  <2>1. req[r].cred \in known
    BY <1>3 DEF TypeInv, CallerInv
  <2>2. Of(req[r].cred) = {}
    BY <1>3 DEF SeenInv
  <2> QED BY <2>1, <2>2, NoNewPolicies DEF Of
<1> QED BY <1>1, <1>2, <1>3 DEF Seeing

\* A query answered: it is enough that its answer is among what was seen.
LEMMA SeeingStep ==
  ASSUME SeenInv, Observe, NEW r \in Callers, NEW q, req[r] # Idle, req'[r] = q, q # Idle,
         Progress(q, seen[r]),
         q.pc = "memberPerm" /\ q.cred # None => Of(q.cred) = {}, policies' = policies
  PROVE  Seeing(r)'
<1>1. Facts(req[r])' \subseteq seen'[r] /\ seen[r] \subseteq seen'[r]
  BY Observed
<1>2. Progress(req[r], seen[r])'
  BY <1>1, Monotone
<1>3. q.pc = "memberPerm" /\ q.cred # None => Of(req[r].cred)' = {}
  BY DEF Of
<1> QED BY <1>1, <1>2, <1>3 DEF Seeing

\* What is true now has been seen.
LEMMA SeenNow ==
  ASSUME SeenInv, NEW r \in Callers, req[r] # Idle
  PROVE  /\ Permitted(req[r]) => <<"permitted", None>> \in seen[r]
         /\ <<"memberLink", memberLink[req[r].member][req[r].gate]>> \in seen[r]
         /\ req[r].cred # None => <<"tokenLink", tokenLink[req[r].cred]>> \in seen[r]
         /\ \A s \in allows : <<"allows", s>> \in seen[r]
BY DEF SeenInv, Facts

\* The fields of a request after an answer.
LEMMA AnsweredFields ==
  ASSUME NEW q \in Trigger, NEW pc, NEW s
  PROVE  /\ Answered(q, pc, s).pc = pc /\ Answered(q, pc, s).sid = s
         /\ Answered(q, pc, s).cred = q.cred /\ Answered(q, pc, s).role = q.role
BY DEF Answered, Trigger

\* One step per query of Trigger.
LEMMA SeeingTriggers ==
  ASSUME IInv, Observe, NEW r \in Callers, Triggers(r)
  PROVE  /\ TypeInv' /\ \A q \in Requests \ {r} : req'[q] = req[q]
         /\ req'[r] # Idle => Seeing(r)'
         /\ UNCHANGED <<gates, schedules, policies, tokenLink, cred, known, shaken>>
<1> DEFINE Goal == /\ TypeInv' /\ \A q \in Requests \ {r} : req'[q] = req[q]
                   /\ req'[r] # Idle => Seeing(r)'
                   /\ UNCHANGED <<gates, schedules, policies, tokenLink, cred, known, shaken>>
<1> USE DEF IInv
<1>t. /\ gates \subseteq Gates /\ schedules \subseteq Schedules /\ allows \subseteq Schedules
      /\ tokenLink \in [Creds -> Link] /\ memberLink \in [Members -> [Gates -> Link]]
      /\ known \subseteq Creds /\ None \notin Schedules /\ None \notin Creds
  BY AccessAssumption DEF TypeInv, TypeOK, Link
<1>b. ASSUME NEW pc \in {"memberPerm", "load", "tokenLink"}, NEW m \in Members, NEW asRole \in Roles,
             NEW c \in known \cup {None}, NEW g \in Gates, NEW p \in Perms,
             Begin(r, pc, m, asRole, c, g, p), pc = "tokenLink" <=> c # None,
             pc = "load" => asRole = "ADMIN"
      PROVE  Goal
  <2> DEFINE q == Begun(pc, m, asRole, c, g, p)
  <2>1. /\ TypeInv' /\ q \in Trigger /\ req'[r] = q
        /\ \A t \in Requests \ {r} : req'[t] = req[t]
    BY <1>b, BeginType DEF Checks, TokenSteps
  <2>2. q.pc = pc /\ q.role = asRole /\ q.cred = c
    BY DEF Begun
  <2>3. q # Idle
    BY <2>2 DEF Idle
  <2>4. Progress(q, seen'[r])
    BY <1>b, <2>2 DEF Progress, PastToken, PastPerm, Bound
  <2>5. Facts(req[r])' \subseteq seen'[r]
    BY <2>1, <2>3, Observed
  <2>6. UNCHANGED <<gates, schedules, policies, tokenLink, cred, known, shaken>>
    BY <1>b DEF Begin, dbVars
  <2> HIDE DEF q
  <2> QED BY <1>b, <2>1, <2>2, <2>4, <2>5, <2>6 DEF Seeing
<1>s. ASSUME NEW from \in Checks, NEW ok, NEW pc \in Checks \cup {"fire"}, NEW s \in Link,
             Step(r, from, ok, pc, s), pc \in TokenSteps => req[r].cred # None,
             Progress(Answered(req[r], pc, s), seen[r]),
             pc = "memberPerm" /\ req[r].cred # None => Of(req[r].cred) = {}
      PROVE  Goal
  <2> DEFINE q == Answered(req[r], pc, s)
  <2>1. /\ TypeInv' /\ req[r] \in Trigger /\ req'[r] = q /\ q \in Trigger
        /\ \A t \in Requests \ {r} : req'[t] = req[t]
    BY <1>s, StepType
  <2>2. q.pc = pc /\ q.cred = req[r].cred
    BY <2>1, AnsweredFields
  <2>3. req[r] # Idle /\ q # Idle
    BY <1>s, <2>2 DEF Step, Idle, Checks
  <2>4. UNCHANGED <<gates, schedules, policies, tokenLink, cred, known, shaken>>
    BY <1>s DEF Step, dbVars
  <2>5. Progress(q, seen[r])
    BY <1>s
  <2> HIDE DEF q
  <2>6. Seeing(r)'
    BY <1>s, <2>1, <2>2, <2>3, <2>4, <2>5, SeeingStep
  <2> QED BY <2>1, <2>4, <2>6
<1>f. ASSUME NEW from \in Checks, NEW ok, NEW pc, NEW s, Step(r, from, ok, pc, s)
      PROVE  /\ req[r] # Idle /\ req[r] \in Trigger /\ req[r].member \in Members
             /\ req[r].gate \in Gates /\ req[r].role \in Roles /\ req[r].pc = from
             /\ req[r].cred \in Creds \cup {None} /\ req[r].sid \in Link
             /\ from \in TokenSteps => req[r].cred \in Creds
             /\ Progress(req[r], seen[r])
  <2>1. req[r] # Idle /\ req[r].pc = from
    BY <1>f DEF Step, Idle, Checks
  <2> QED BY <2>1, Shapes DEF SeenInv, TypeInv, CallerInv
<1>1. ASSUME NEW g \in Gates, NEW p \in Perms, NEW m \in Members, BeginSession(r, m, g, p) PROVE Goal
  <2>1. PICK asRole \in claims[m] :
          Begin(r, IF asRole = "MEMBER" THEN "memberPerm" ELSE "load", m, asRole, None, g, p)
    BY <1>1 DEF BeginSession
  <2>2. asRole \in Roles
    BY <2>1 DEF TypeInv, TypeOK
  <2>3. CASE asRole = "MEMBER"
    BY <2>1, <2>2, <2>3, <1>b
  <2>4. CASE asRole = "ADMIN"
    BY <2>1, <2>2, <2>4, <1>b
  <2> QED BY <2>2, <2>3, <2>4 DEF Roles
<1>2. ASSUME NEW g \in Gates, NEW p \in Perms, NEW c \in Creds, BeginToken(r, c, g, p) PROVE Goal
  <2>1. cred[c].owner \in Members /\ role[cred[c].owner] \in Roles
    BY <1>2 DEF BeginToken, TypeInv, TypeOK, OwnerInv
  <2> QED BY <1>2, <1>b, <1>t, <2>1 DEF BeginToken
<1>3. ASSUME GetTokenSchedule(r) PROVE Goal
  <2> DEFINE s == tokenLink[req[r].cred]
  <2> DEFINE pc == IF s = None THEN "tokenPolicies" ELSE "tokenSchedule"
  <2>1. Step(r, "tokenLink", TRUE, pc, s)
    BY <1>3 DEF GetTokenSchedule
  <2>2. "tokenLink" \in Checks /\ pc \in Checks \cup {"fire"} /\ "tokenLink" \in TokenSteps
    BY DEF Checks, TokenSteps
  <2>f. /\ req[r] # Idle /\ req[r].pc = "tokenLink" /\ Progress(req[r], seen[r])
        /\ req[r].member \in Members /\ req[r].gate \in Gates /\ req[r].role \in Roles
        /\ "tokenLink" \in TokenSteps => req[r].cred \in Creds
    BY <1>f, <2>1, <2>2
  <2>a. \A x, y : /\ Answered(req[r], x, y).pc = x /\ Answered(req[r], x, y).sid = y
                  /\ Answered(req[r], x, y).cred = req[r].cred
                  /\ Answered(req[r], x, y).role = req[r].role
    BY <1>f, <2>1, <2>2, AnsweredFields
  <2>3. req[r].cred \in Creds /\ s \in Link /\ req[r].cred # None
    BY <2>f, <1>t, <2>1, <2>2
  <2>4. <<"tokenLink", s>> \in seen[r]
    BY <2>f, <2>1, <2>2, <2>3, SeenNow
  <2>5. Progress(Answered(req[r], pc, s), seen[r])
    BY <2>a, <1>t, <2>1, <2>2, <2>3, <2>4 DEF Progress, PastToken, PastPerm, Kept, Link
  <2> QED BY <1>s, <2>1, <2>2, <2>3, <2>5
<1>4. ASSUME CheckTokenSchedule(r) PROVE Goal
  <2>1. Step(r, "tokenSchedule", req[r].sid \in allows, "tokenPolicies", None)
    BY <1>4 DEF CheckTokenSchedule
  <2>2. /\ "tokenSchedule" \in Checks /\ "tokenPolicies" \in Checks /\ None \in Link
        /\ "tokenSchedule" \in TokenSteps
    BY DEF Checks, TokenSteps, Link
  <2>f. /\ req[r] # Idle /\ req[r].pc = "tokenSchedule" /\ Progress(req[r], seen[r])
        /\ req[r].member \in Members /\ req[r].gate \in Gates /\ req[r].role \in Roles
        /\ "tokenSchedule" \in TokenSteps => req[r].cred \in Creds
    BY <1>f, <2>1, <2>2
  <2>a. \A x, y : /\ Answered(req[r], x, y).pc = x /\ Answered(req[r], x, y).sid = y
                  /\ Answered(req[r], x, y).cred = req[r].cred
                  /\ Answered(req[r], x, y).role = req[r].role
    BY <1>f, <2>1, <2>2, AnsweredFields
  <2>3. /\ req[r].cred \in Creds /\ req[r].sid \in allows /\ req[r].sid \in Schedules
        /\ <<"tokenLink", req[r].sid>> \in seen[r]
    BY <2>f, <2>1, <2>2 DEF Progress, Step
  <2>4. Kept(seen[r], "tokenLink")
    BY <2>f, <2>1, <2>2, <2>3, SeenNow DEF Kept
  <2>5. Progress(Answered(req[r], "tokenPolicies", None), seen[r])
    BY <2>a, <2>1, <2>2, <2>4 DEF Progress, PastToken, PastPerm
  <2> QED BY <1>s, <1>t, <2>1, <2>2, <2>3, <2>5
<1>5. ASSUME HasAny(r) PROVE Goal
  <2> DEFINE pc == IF Of(req[r].cred) # {} THEN "tokenPerm"
                   ELSE IF req[r].role = "MEMBER" THEN "memberPerm" ELSE "memberLink"
  <2>1. Step(r, "tokenPolicies", TRUE, pc, None)
    BY <1>5 DEF HasAny
  <2>2. /\ "tokenPolicies" \in Checks /\ pc \in Checks \cup {"fire"} /\ None \in Link
        /\ "tokenPolicies" \in TokenSteps
    BY DEF Checks, TokenSteps, Link
  <2>f. /\ req[r] # Idle /\ req[r].pc = "tokenPolicies" /\ Progress(req[r], seen[r])
        /\ req[r].member \in Members /\ req[r].gate \in Gates /\ req[r].role \in Roles
        /\ "tokenPolicies" \in TokenSteps => req[r].cred \in Creds
    BY <1>f, <2>1, <2>2
  <2>a. \A x, y : /\ Answered(req[r], x, y).pc = x /\ Answered(req[r], x, y).sid = y
                  /\ Answered(req[r], x, y).cred = req[r].cred
                  /\ Answered(req[r], x, y).role = req[r].role
    BY <1>f, <2>1, <2>2, AnsweredFields
  <2>3. req[r].cred \in Creds /\ req[r].cred # None /\ Kept(seen[r], "tokenLink")
    BY <2>f, <1>t, <2>1, <2>2 DEF Progress, PastToken
  <2>4. pc = "memberLink" => <<"permitted", None>> \in seen[r]
    <3>1. req[r].role \in Roles /\ req[r] # Idle
      BY <2>f, <2>1, <2>2
    <3>2. pc = "memberLink" => Permitted(req[r])
      BY <2>3, <3>1 DEF Permitted, Roles
    <3> QED BY <3>1, <3>2, SeenNow
  <2>5. Progress(Answered(req[r], pc, None), seen[r])
    BY <2>a, <2>1, <2>2, <2>3, <2>4 DEF Progress, PastToken, PastPerm
  <2>6. pc = "memberPerm" => Of(req[r].cred) = {}
    OBVIOUS
  <2> HIDE DEF pc
  <2> QED BY <1>s, <2>1, <2>2, <2>3, <2>5, <2>6
<1>6. ASSUME HasTokenPermission(r) PROVE Goal
  <2>1. Step(r, "tokenPerm", <<req[r].cred, req[r].gate, req[r].perm>> \in policies, "memberLink", None)
    BY <1>6 DEF HasTokenPermission
  <2>2. /\ "tokenPerm" \in Checks /\ "memberLink" \in Checks /\ None \in Link
        /\ "tokenPerm" \in TokenSteps /\ "memberLink" \notin TokenSteps
    BY DEF Checks, TokenSteps, Link
  <2>f. /\ req[r] # Idle /\ req[r].pc = "tokenPerm" /\ Progress(req[r], seen[r])
        /\ req[r].member \in Members /\ req[r].gate \in Gates /\ req[r].role \in Roles
        /\ "tokenPerm" \in TokenSteps => req[r].cred \in Creds
    BY <1>f, <2>1, <2>2
  <2>a. \A x, y : /\ Answered(req[r], x, y).pc = x /\ Answered(req[r], x, y).sid = y
                  /\ Answered(req[r], x, y).cred = req[r].cred
                  /\ Answered(req[r], x, y).role = req[r].role
    BY <1>f, <2>1, <2>2, AnsweredFields
  <2>3. Kept(seen[r], "tokenLink") /\ req[r] # Idle
    BY <2>f, <1>t, <2>1, <2>2 DEF Progress, PastToken
  <2>4. Permitted(req[r])
    BY <2>1 DEF Permitted, Of, Step
  <2>5. <<"permitted", None>> \in seen[r]
    BY <2>3, <2>4, SeenNow
  <2>6. Progress(Answered(req[r], "memberLink", None), seen[r])
    BY <2>a, <2>1, <2>2, <2>3, <2>5 DEF Progress, PastToken, PastPerm
  <2> QED BY <1>s, <2>1, <2>2, <2>6
<1>7. ASSUME HasPermission(r) PROVE Goal
  <2>1. Step(r, "memberPerm", <<req[r].member, req[r].gate, req[r].perm>> \in policies, "memberLink", None)
    BY <1>7 DEF HasPermission
  <2>2. /\ "memberPerm" \in Checks /\ "memberLink" \in Checks /\ None \in Link
        /\ "memberLink" \notin TokenSteps
    BY DEF Checks, TokenSteps, Link
  <2>f. /\ req[r] # Idle /\ req[r].pc = "memberPerm" /\ Progress(req[r], seen[r])
        /\ req[r].member \in Members /\ req[r].gate \in Gates /\ req[r].role \in Roles
        /\ "memberPerm" \in TokenSteps => req[r].cred \in Creds
    BY <1>f, <2>1, <2>2
  <2>a. \A x, y : /\ Answered(req[r], x, y).pc = x /\ Answered(req[r], x, y).sid = y
                  /\ Answered(req[r], x, y).cred = req[r].cred
                  /\ Answered(req[r], x, y).role = req[r].role
    BY <1>f, <2>1, <2>2, AnsweredFields
  <2>3. /\ req[r].cred # None => Kept(seen[r], "tokenLink")
        /\ req[r].cred # None => Of(req[r].cred) = {}
        /\ req[r] # Idle
    BY <2>f, <2>1, <2>2 DEF Progress, PastToken, SeenInv
  <2>4. Of(None) = {}
    BY AccessAssumption DEF Of, TypeInv, TypeOK, Policy, Subjects
  <2>5. Permitted(req[r])
    BY <2>1, <2>3, <2>4 DEF Permitted, Step
  <2>6. <<"permitted", None>> \in seen[r]
    BY <2>3, <2>5, SeenNow
  <2>7. Progress(Answered(req[r], "memberLink", None), seen[r])
    BY <2>a, <2>1, <2>2, <2>3, <2>6 DEF Progress, PastToken, PastPerm
  <2> QED BY <1>s, <2>1, <2>2, <2>7
<1>8. ASSUME GetMemberSchedule(r) PROVE Goal
  <2> DEFINE s == memberLink[req[r].member][req[r].gate]
  <2> DEFINE pc == IF s = None THEN "load" ELSE "memberSchedule"
  <2>1. Step(r, "memberLink", TRUE, pc, s)
    BY <1>8 DEF GetMemberSchedule
  <2>2. "memberLink" \in Checks /\ pc \in Checks \cup {"fire"} /\ pc \notin TokenSteps
    BY DEF Checks, TokenSteps
  <2>f. /\ req[r] # Idle /\ req[r].pc = "memberLink" /\ Progress(req[r], seen[r])
        /\ req[r].member \in Members /\ req[r].gate \in Gates /\ req[r].role \in Roles
        /\ "memberLink" \in TokenSteps => req[r].cred \in Creds
    BY <1>f, <2>1, <2>2
  <2>a. \A x, y : /\ Answered(req[r], x, y).pc = x /\ Answered(req[r], x, y).sid = y
                  /\ Answered(req[r], x, y).cred = req[r].cred
                  /\ Answered(req[r], x, y).role = req[r].role
    BY <1>f, <2>1, <2>2, AnsweredFields
  <2>3. /\ s \in Link /\ req[r] # Idle
        /\ req[r].cred # None => Kept(seen[r], "tokenLink")
        /\ Bound(req[r]) => <<"permitted", None>> \in seen[r]
    BY <2>f, <1>t, <2>1, <2>2 DEF Progress, PastToken, PastPerm
  <2>4. <<"memberLink", s>> \in seen[r]
    BY <2>3, SeenNow
  <2>5. Progress(Answered(req[r], pc, s), seen[r])
    <3>1. s = None => Kept(seen[r], "memberLink")
      BY <2>4 DEF Kept
    <3>2. s # None => s \in Schedules
      BY <2>3 DEF Link
    <3>3. CASE s = None
      BY <2>a, <2>3, <3>1, <3>3 DEF Progress, PastToken, PastPerm, Bound
    <3>4. CASE s # None
      BY <2>a, <2>3, <2>4, <3>2, <3>4 DEF Progress, PastToken, PastPerm, Bound
    <3> QED BY <3>3, <3>4
  <2> QED BY <1>s, <2>1, <2>2, <2>3, <2>5
<1>9. ASSUME CheckMemberSchedule(r) PROVE Goal
  <2>1. Step(r, "memberSchedule", req[r].sid \in allows, "load", None)
    BY <1>9 DEF CheckMemberSchedule
  <2>2. /\ "memberSchedule" \in Checks /\ "load" \in Checks /\ None \in Link
        /\ "load" \notin TokenSteps
    BY DEF Checks, TokenSteps, Link
  <2>f. /\ req[r] # Idle /\ req[r].pc = "memberSchedule" /\ Progress(req[r], seen[r])
        /\ req[r].member \in Members /\ req[r].gate \in Gates /\ req[r].role \in Roles
        /\ "memberSchedule" \in TokenSteps => req[r].cred \in Creds
    BY <1>f, <2>1, <2>2
  <2>a. \A x, y : /\ Answered(req[r], x, y).pc = x /\ Answered(req[r], x, y).sid = y
                  /\ Answered(req[r], x, y).cred = req[r].cred
                  /\ Answered(req[r], x, y).role = req[r].role
    BY <1>f, <2>1, <2>2, AnsweredFields
  <2>3. /\ req[r].sid \in allows /\ req[r].sid \in Schedules /\ req[r] # Idle
        /\ <<"memberLink", req[r].sid>> \in seen[r]
        /\ req[r].cred # None => Kept(seen[r], "tokenLink")
        /\ Bound(req[r]) => <<"permitted", None>> \in seen[r]
    BY <2>f, <2>1, <2>2 DEF Progress, PastToken, PastPerm, Step
  <2>4. Kept(seen[r], "memberLink")
    BY <2>3, SeenNow DEF Kept
  <2>5. Progress(Answered(req[r], "load", None), seen[r])
    BY <2>a, <2>1, <2>2, <2>3, <2>4 DEF Progress, PastToken, PastPerm, Bound
  <2> QED BY <1>s, <2>1, <2>2, <2>5
<1>10. ASSUME LoadGate(r) PROVE Goal
  <2>1. Step(r, "load", req[r].gate \in gates, "fire", None)
    BY <1>10 DEF LoadGate
  <2>2. "load" \in Checks /\ None \in Link /\ "fire" \notin TokenSteps
    BY DEF Checks, TokenSteps, Link
  <2>f. /\ req[r] # Idle /\ req[r].pc = "load" /\ Progress(req[r], seen[r])
        /\ req[r].member \in Members /\ req[r].gate \in Gates /\ req[r].role \in Roles
        /\ "load" \in TokenSteps => req[r].cred \in Creds
    BY <1>f, <2>1, <2>2
  <2>a. \A x, y : /\ Answered(req[r], x, y).pc = x /\ Answered(req[r], x, y).sid = y
                  /\ Answered(req[r], x, y).cred = req[r].cred
                  /\ Answered(req[r], x, y).role = req[r].role
    BY <1>f, <2>1, <2>2, AnsweredFields
  <2>3. /\ req[r].cred # None => Kept(seen[r], "tokenLink")
        /\ Bound(req[r]) => <<"permitted", None>> \in seen[r] /\ Kept(seen[r], "memberLink")
    BY <2>f, <2>1, <2>2 DEF Progress, PastToken, PastPerm
  <2>4. Progress(Answered(req[r], "fire", None), seen[r])
    BY <2>a, <2>1, <2>2, <2>3 DEF Progress, PastToken, PastPerm, Bound
  <2> QED BY <1>s, <2>1, <2>2, <2>4
<1>11. ASSUME Deny(r) \/ Fire(r) PROVE Goal
  BY <1>11, EndType DEF Deny, Fire, dbVars
<1> HIDE DEF Goal
<1>12. Goal
  BY <1>1, <1>2, <1>3, <1>4, <1>5, <1>6, <1>7, <1>8, <1>9, <1>10, <1>11 DEF Triggers
<1> QED BY <1>12 DEF Goal

-----------------------------------------------------------------------------
(* The theorems *)

LEMMA InitInv == Init => IInv
<1>1. Init => LinkInv
  BY DEF Init, LinkInv, Idle, Requests
<1> QED BY <1>1, InitType, InitScope, InitSeen DEF IInv

LEMMA NextInv == ASSUME IInv, Next PROVE IInv'
<1> USE DEF IInv
<1>0. Observe /\ Callers \subseteq Requests /\ Callers \cap Editors = {}
  BY AccessAssumption DEF Next, Requests
<1>1. CASE Manage
  <2>1. TypeInv' /\ MakingInv' /\ ScopeInv' /\ LinkInv'
    BY <1>1, ManageType, ManageScope, ManageLink
  <2>2. UNCHANGED req
    BY <1>1 DEF Manage, Grant, RevokePermission, Revoke, LinkMember, DeleteSchedule, TurnSchedule,
       DeleteGate, DeleteMember, ExpireClaims, SetRole, ExpireToken
  <2>3. SeenInv'
    BY <2>2, SeeingOn DEF SeenInv, Seeing
  <2> QED BY <2>1, <2>3
<1>2. ASSUME NEW r \in Editors, Tokens(r) PROVE IInv'
  <2>1. TypeInv' /\ MakingInv' /\ ScopeInv' /\ LinkInv'
    BY <1>2, TokensType, TokensScope, TokensLink
  <2>2. \A q \in Callers : req'[q] = req[q]
    BY <1>0, <1>2 DEF Tokens, InsertToken, AdminCreateToken, GrantToken, CreateFails, ReturnToken,
       BeginDelete, RevokeAll, RemoveSchedule, DropToken, TypeInv
  <2>3. SeenInv'
    BY <2>2, SeeingOn DEF SeenInv, Seeing
  <2> QED BY <2>1, <2>3
<1>3. ASSUME NEW r \in Callers, Triggers(r) PROVE IInv'
  <2>1. /\ TypeInv' /\ \A q \in Requests \ {r} : req'[q] = req[q]
        /\ req'[r] # Idle => Seeing(r)'
        /\ UNCHANGED <<gates, schedules, policies, tokenLink, cred, known, shaken>>
    BY <1>0, <1>3, SeeingTriggers
  <2>2. \A q \in Editors : req'[q] = req[q]
    BY <1>0, <2>1 DEF Requests
  <2>3. MakingInv' /\ ScopeInv' /\ LinkInv'
    BY <2>1, <2>2, ScopeFrame, LinkFrame DEF TypeInv, TypeOK
  <2>4. ASSUME NEW q \in Callers, req'[q] # Idle PROVE Seeing(q)'
    <3>1. CASE q = r
      BY <2>1, <2>4, <3>1
    <3>2. CASE q # r
      BY <1>0, <2>1, <2>4, <3>2, SeeingOn
    <3> QED BY <3>1, <3>2
  <2>5. SeenInv'
    BY <2>4 DEF SeenInv, Seeing
  <2> QED BY <2>1, <2>3, <2>5
<1> QED BY <1>1, <1>2, <1>3 DEF Next

LEMMA StutterInv == ASSUME IInv, UNCHANGED vars PROVE IInv'
<1> USE DEF vars, dbVars
<1>1. TypeInv'
  BY DEF IInv, TypeInv, TypeOK, OwnerInv, CallerInv
<1>2. MakingInv' /\ ScopeInv' /\ LinkInv'
  BY ScopeFrame, LinkFrame DEF IInv, TypeInv, TypeOK
<1>3. SeenInv'
  BY DEF IInv, SeenInv, Facts, Permitted, Of
<1> QED BY <1>1, <1>2, <1>3 DEF IInv

LEMMA Invariance == Spec => []IInv
<1>1. IInv /\ [Next]_vars => IInv'
  BY NextInv, StutterInv
<1> QED BY <1>1, InitInv, PTL DEF Spec

\* The tables reference each other as the foreign keys say, and every request
\* carries the fields of the statement it is at: the role an API token brings
\* (AuthExtractor) is always one of the two, never that of a deleted owner.
THEOREM TypeCorrect == Spec => []TypeOK
<1>1. IInv => TypeOK
  BY DEF IInv, TypeInv
<1> QED BY <1>1, Invariance, PTL

\* However grants, deletions and token requests interleave with the queries of
\* Trigger, a gate fires only for a request that Trigger's own rule accepts on the
\* tables of some moment of it, within schedules that were absent or open.  What
\* the rule asks of a token's owner is less than the documents promise
\* (Permitted); that is not shown here.
THEOREM TriggersAllowed == Spec => []AllowedAtSomeMoment
<1>1. ASSUME IInv PROVE AllowedAtSomeMoment
  <2>1. SUFFICES ASSUME NEW r \in Callers, req[r].pc = "fire"
                 PROVE  /\ req[r].cred # None \/ req[r].role = "MEMBER" =>
                             <<"permitted", None>> \in seen[r] /\ Respected(r, "memberLink")
                        /\ req[r].cred # None => Respected(r, "tokenLink")
    BY DEF AllowedAtSomeMoment
  <2>2. Progress(req[r], seen[r])
    BY <1>1, <2>1 DEF IInv, SeenInv, Idle
  <2>3. \A k : Kept(seen[r], k) => Respected(r, k)
    BY DEF Kept, Respected
  <2> QED BY <2>1, <2>2, <2>3 DEF Progress, PastToken, PastPerm, Bound
<1> QED BY <1>1, Invariance, PTL

\* The secret of a token is handed out only when all its policies and its
\* schedule are stored (CreateMyAPIToken), and nothing but the deletion of a gate,
\* of the schedule or of the token itself takes one away.
THEOREM TokensComplete == Spec => []TokenKeepsScope
<1>1. ASSUME IInv PROVE TokenKeepsScope
  <2>1. SUFFICES ASSUME NEW c \in known \ shaken
                 PROVE  Of(c) = {p \in Scoped(c) : p[2] \in gates}
    BY <1>1 DEF TokenKeepsScope, IInv, LinkInv
  <2>2. c \in Creds /\ cred[c].scope \subseteq Scope
    BY <1>1, <2>1 DEF IInv, TypeInv, TypeOK
  <2>3. ASSUME NEW p \in Of(c) PROVE p \in Scoped(c) /\ p[2] \in gates
    <3>1. p \in policies /\ p[1] = c /\ p[2] \in gates
      BY <1>1, <2>3 DEF Of, IInv, TypeInv, TypeOK
    <3>2. <<p[2], p[3]>> \in cred[c].scope
      BY <1>1, <2>2, <3>1 DEF IInv, ScopeInv
    <3>3. p = <<p[1], p[2], p[3]>>
      BY <1>1, <3>1 DEF IInv, TypeInv, TypeOK, Policy
    <3> QED BY <3>1, <3>2, <3>3 DEF Scoped
  <2>4. ASSUME NEW a \in cred[c].scope, a[1] \in gates PROVE <<c, a[1], a[2]>> \in Of(c)
    BY <1>1, <2>1, <2>4 DEF IInv, ScopeInv, Stored, Of
  <2>5. ASSUME NEW p \in Scoped(c), p[2] \in gates PROVE p \in Of(c)
    BY <2>4, <2>5 DEF Scoped
  <2> QED BY <2>3, <2>5
<1> QED BY <1>1, Invariance, PTL
=============================================================================
