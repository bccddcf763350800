---------------------------- MODULE AccessControl ----------------------------
(***************************************************************************)
(* Who may trigger a gate: member permissions, API tokens with their own   *)
(* permissions, and the time schedules attached to either.                 *)
(*                                                                         *)
(* GateService.Trigger reads the policy and schedule tables one query at a *)
(* time, while managers grant and revoke, schedules, gates and members are *)
(* deleted (with the cascades of the schema), and API tokens are created   *)
(* and deleted, each in several statements without a transaction.          *)
(***************************************************************************)
EXTENDS FiniteSets

CONSTANTS
  Members, Gates, Schedules,
  Callers, \* requests that trigger a gate: they write nothing, one stands for all
  Editors, \* requests that create or delete API tokens
  Creds,   \* ids of API token credentials (uuids: never reused)
  Perms,   \* the permission codes that trigger an action
  None     \* no schedule, no credential, nobody

ASSUME AccessAssumption ==
  /\ None \notin Members \cup Creds \cup Schedules
  /\ Members \cap Creds = {} /\ Callers \cap Editors = {}

Roles    == {"ADMIN", "MEMBER"}
Subjects == Members \cup Creds
Requests == Callers \cup Editors

VARIABLES
  role,        \* role of each member's row, "none" once it is deleted
  claims,      \* roles in the unexpired JWTs of each member
  gates,       \* gates that exist
  schedules,   \* access_schedules that exist
  allows,      \* schedules that allow access at this moment
  policies,    \* access_policies: subject, gate, permission
  memberLink,  \* schedule_links of a member and a gate
  tokenLink,   \* schedule_links of a credential
  cred,        \* API tokens: phase, owner, (observer) the policies and schedule asked for
  known,       \* tokens whose secret was handed out
  req,         \* requests in progress
  seen,        \* (observer) what was true at some moment of each trigger
  shaken       \* (observer) tokens somebody has begun to delete

dbVars == <<role, gates, schedules, policies, memberLink, tokenLink, cred>>
vars   == <<dbVars, claims, allows, known, req, seen, shaken>>

-----------------------------------------------------------------------------
(* Rows and requests *)

Policy    == Subjects \X Gates \X Perms
Scope     == Gates \X Perms
Link      == Schedules \cup {None}
NoCred    == [phase |-> "absent", owner |-> None, scope |-> {}, sid |-> None]
Of(s)     == {p \in policies : p[1] = s}
Scoped(c) == {<<c, a[1], a[2]>> : a \in cred[c].scope}
Asked(c)  == IF cred[c].sid \in schedules THEN cred[c].sid ELSE None

Idle    == [pc |-> "idle"]
Checks  == {"tokenLink", "tokenSchedule", "tokenPolicies", "tokenPerm",
            "memberPerm", "memberLink", "memberSchedule", "load"}
Trigger == [pc: Checks \cup {"fire"}, member: Members, role: Roles,
            cred: Creds \cup {None}, gate: Gates, perm: Perms, sid: Link]
Making  == [pc: {"grant"}, cred: Creds, todo: SUBSET Scope, sid: Link]
Deletes == [pc: {"revoke", "unlink", "drop"}, cred: Creds]

TypeOK ==
  /\ role \in [Members -> Roles \cup {"none"}]
  /\ claims \in [Members -> SUBSET Roles]
  /\ gates \subseteq Gates /\ schedules \subseteq Schedules /\ allows \subseteq schedules
  /\ policies \subseteq Policy /\ \A p \in policies : p[2] \in gates
  /\ memberLink \in [Members -> [Gates -> schedules \cup {None}]]
  /\ tokenLink \in [Creds -> schedules \cup {None}]
  /\ cred \in [Creds -> [phase: {"absent", "live", "expired", "deleted"},
                         owner: Members \cup {None}, scope: SUBSET Scope, sid: Link]]
  /\ known \subseteq Creds /\ shaken \subseteq Creds
  /\ \A r \in Callers : req[r] \in {Idle} \cup Trigger
  /\ \A r \in Editors : req[r] \in {Idle} \cup Making \cup Deletes

\* An installation with its members, gates and schedules, before the first
\* permission.
Init ==
  /\ role \in [Members -> Roles] /\ claims = [m \in Members |-> {role[m]}]
  /\ gates = Gates /\ schedules = Schedules /\ allows = Schedules
  /\ policies = {}
  /\ memberLink = [m \in Members |-> [g \in Gates |-> None]]
  /\ tokenLink = [c \in Creds |-> None]
  /\ cred = [c \in Creds |-> NoCred] /\ known = {}
  /\ req = [r \in Requests |-> Idle]
  /\ seen = [r \in Callers |-> {}] /\ shaken = {}

-----------------------------------------------------------------------------
(* Policies and schedules of members: single statements *)

Grant(m, g, p) ==
  /\ g \in gates
  /\ policies' = policies \cup {<<m, g, p>>}
  /\ UNCHANGED <<role, gates, schedules, memberLink, tokenLink, cred, claims, allows, known, req, shaken>>

RevokePermission(m, g, p) ==
  /\ policies' = policies \ {<<m, g, p>>}
  /\ UNCHANGED <<role, gates, schedules, memberLink, tokenLink, cred, claims, allows, known, req, shaken>>

Revoke(m, g) ==
  /\ policies' = {p \in policies : p[1] # m \/ p[2] # g}
  /\ UNCHANGED <<role, gates, schedules, memberLink, tokenLink, cred, claims, allows, known, req, shaken>>

\* SetSchedule (an upsert that needs gate and schedule) and RemoveSchedule.
LinkMember(m, g, s) ==
  /\ s # None => s \in schedules /\ g \in gates
  /\ memberLink' = [memberLink EXCEPT ![m][g] = s]
  /\ UNCHANGED <<role, gates, schedules, policies, tokenLink, cred, claims, allows, known, req, shaken>>

\* (mutant: links to the schedule stay behind)
DeleteSchedule_NoCascade(s) ==
  /\ s \in schedules
  /\ schedules' = schedules \ {s} /\ allows' = allows \ {s}
  /\ UNCHANGED <<role, gates, policies, memberLink, tokenLink, cred, claims, known, req, shaken>>

\* ON DELETE CASCADE: the links go, and with them the restriction.
DeleteSchedule(s) ==
  /\ s \in schedules
  /\ schedules' = schedules \ {s} /\ allows' = allows \ {s}
  /\ memberLink' = [m \in Members |-> [g \in Gates |->
                      IF memberLink[m][g] = s THEN None ELSE memberLink[m][g]]]
  /\ tokenLink' = [c \in Creds |-> IF tokenLink[c] = s THEN None ELSE tokenLink[c]]
  /\ UNCHANGED <<role, gates, policies, cred, claims, known, req, shaken>>

\* The clock enters or leaves the schedule, or its expression is edited.
TurnSchedule(s) ==
  /\ s \in schedules
  /\ allows' = IF s \in allows THEN allows \ {s} ELSE allows \cup {s}
  /\ UNCHANGED <<dbVars, claims, known, req, shaken>>

-----------------------------------------------------------------------------
(* Gates, members and their JWTs *)

\* Policies and member links of the gate go with it.
DeleteGate(g) ==
  /\ g \in gates
  /\ gates' = gates \ {g}
  /\ policies' = {p \in policies : p[2] # g}
  /\ memberLink' = [m \in Members |-> [memberLink[m] EXCEPT ![g] = None]]
  /\ UNCHANGED <<role, schedules, tokenLink, cred, claims, allows, known, req, shaken>>

SetRole(m, new) ==
  /\ role[m] # "none"
  /\ role' = [role EXCEPT ![m] = new]
  /\ claims' = [claims EXCEPT ![m] = @ \cup {new}]
  /\ UNCHANGED <<gates, schedules, policies, memberLink, tokenLink, cred, allows, known, req, shaken>>

\* The credentials go with the member, the policies stay behind.
DeleteMember(m) ==
  /\ role[m] # "none"
  /\ role' = [role EXCEPT ![m] = "none"]
  /\ cred' = [c \in Creds |-> IF cred[c].owner = m
                              THEN [cred[c] EXCEPT !.phase = "deleted"] ELSE cred[c]]
  /\ UNCHANGED <<gates, schedules, policies, memberLink, tokenLink, claims, allows, known, req, shaken>>

\* A JWT expires within AccessTokenTTL (module Sessions), an API token at its
\* expires_at.
ExpireClaims(m) ==
  /\ claims' = [claims EXCEPT ![m] = @ \cap {role[m]}]
  /\ UNCHANGED <<dbVars, allows, known, req, shaken>>

ExpireToken(c) ==
  /\ cred[c].phase = "live"
  /\ cred' = [cred EXCEPT ![c].phase = "expired"]
  /\ UNCHANGED <<role, gates, schedules, policies, memberLink, tokenLink, claims, allows, known, req, shaken>>

-----------------------------------------------------------------------------
(* CreateMyAPIToken: the row, its policies one by one, its schedule *)

InsertToken(r, m, c, scope, s) ==
  /\ req[r] = Idle /\ role[m] # "none" /\ cred[c].phase = "absent"
  /\ cred' = [cred EXCEPT ![c] = [phase |-> "live", owner |-> m, scope |-> scope, sid |-> s]]
  /\ req' = [req EXCEPT ![r] = [pc |-> "grant", cred |-> c, todo |-> scope, sid |-> s]]
  /\ UNCHANGED <<role, gates, schedules, policies, memberLink, tokenLink, claims, allows, known, shaken>>

\* An administrator's token has neither policies nor a schedule.
AdminCreateToken(r, m, c) == InsertToken(r, m, c, {}, None)

GrantToken(r) ==
  /\ req[r].pc = "grant"
  /\ \E a \in req[r].todo :
       /\ a[1] \in gates
       /\ policies' = policies \cup {<<req[r].cred, a[1], a[2]>>}
       /\ req' = [req EXCEPT ![r].todo = @ \ {a}]
  /\ UNCHANGED <<role, gates, schedules, memberLink, tokenLink, cred, claims, allows, known, shaken>>

\* (mutant: a policy that cannot be stored is skipped)
CreateFails_Skipped(r) ==
  /\ req[r].pc = "grant" /\ req[r].todo # {}
  /\ \E a \in req[r].todo : req' = [req EXCEPT ![r].todo = @ \ {a}]
  /\ UNCHANGED <<dbVars, claims, allows, known, shaken>>

\* A failing statement ends the request: the row stays, the secret is lost.
CreateFails(r) ==
  /\ req[r].pc = "grant"
  /\ req' = [req EXCEPT ![r] = Idle]
  /\ UNCHANGED <<dbVars, claims, allows, known, shaken>>

\* Last comes the schedule; then the secret is shown, once.
ReturnToken(r) ==
  /\ req[r].pc = "grant" /\ req[r].todo = {}
  /\ req[r].sid \in schedules \cup {None}
  /\ tokenLink' = [tokenLink EXCEPT ![req[r].cred] = req[r].sid]
  /\ known' = known \cup {req[r].cred}
  /\ req' = [req EXCEPT ![r] = Idle]
  /\ UNCHANGED <<role, gates, schedules, policies, memberLink, cred, claims, allows, shaken>>

-----------------------------------------------------------------------------
(* DeleteMyCredential and AdminDeleteMemberCredential *)

BeginDelete(r, c) ==
  /\ req[r] = Idle /\ cred[c].phase \in {"live", "expired"}
  /\ req' = [req EXCEPT ![r] = [pc |-> "revoke", cred |-> c]]
  /\ shaken' = shaken \cup {c}
  /\ UNCHANGED <<dbVars, claims, allows, known>>

\* Errors of RevokeAll and RemoveSchedule are not looked at.
RevokeAll(r) ==
  /\ req[r].pc = "revoke"
  /\ policies' \in {policies, policies \ Of(req[r].cred)}
  /\ req' = [req EXCEPT ![r].pc = "unlink"]
  /\ UNCHANGED <<role, gates, schedules, memberLink, tokenLink, cred, claims, allows, known, shaken>>

RemoveSchedule(r) ==
  /\ req[r].pc = "unlink"
  /\ tokenLink' \in {tokenLink, [tokenLink EXCEPT ![req[r].cred] = None]}
  /\ req' = [req EXCEPT ![r].pc = "drop"]
  /\ UNCHANGED <<role, gates, schedules, policies, memberLink, cred, claims, allows, known, shaken>>

\* The row goes at last, or the statement fails and it stays.
DropToken(r) ==
  /\ req[r].pc = "drop"
  /\ cred' \in {cred, [cred EXCEPT ![req[r].cred].phase = "deleted"]}
  /\ req' = [req EXCEPT ![r] = Idle]
  /\ UNCHANGED <<role, gates, schedules, policies, memberLink, tokenLink, claims, allows, known, shaken>>

-----------------------------------------------------------------------------
(* GateService.Trigger *)

\* AuthExtractor: a session brings the role of its JWT, an API token the role
\* its owner has now.  (model.Member has no AuthConfig, so the switch api_token,
\* which the middleware asks for, has its default: tokens are accepted.)
Begin(r, pc, m, asRole, c, g, p) ==
  /\ req[r] = Idle
  /\ req' = [req EXCEPT ![r] = [pc |-> pc, member |-> m, role |-> asRole, cred |-> c,
                                gate |-> g, perm |-> p, sid |-> None]]
  /\ UNCHANGED <<dbVars, claims, allows, known, shaken>>

BeginSession(r, m, g, p) ==
  \E asRole \in claims[m] :
    Begin(r, IF asRole = "MEMBER" THEN "memberPerm" ELSE "load", m, asRole, None, g, p)

BeginToken(r, c, g, p) ==
  /\ c \in known /\ cred[c].phase = "live"
  /\ Begin(r, "tokenLink", cred[c].owner, role[cred[c].owner], c, g, p)

\* One query: the request goes on at pc, or has found schedule s.
Step(r, from, ok, pc, s) ==
  /\ req[r].pc = from /\ ok
  /\ req' = [req EXCEPT ![r].pc = pc, ![r].sid = s]
  /\ UNCHANGED <<dbVars, claims, allows, known, shaken>>

GetTokenSchedule(r) ==
  LET s == tokenLink[req[r].cred]
  IN  Step(r, "tokenLink", TRUE, IF s = None THEN "tokenPolicies" ELSE "tokenSchedule", s)

CheckTokenSchedule(r) ==
  Step(r, "tokenSchedule", req[r].sid \in allows, "tokenPolicies", None)

\* A token with policies of its own does not need those of its owner.
HasAny(r) ==
  Step(r, "tokenPolicies", TRUE,
       IF Of(req[r].cred) # {} THEN "tokenPerm"
       ELSE IF req[r].role = "MEMBER" THEN "memberPerm" ELSE "memberLink", None)

HasTokenPermission(r) ==
  Step(r, "tokenPerm", <<req[r].cred, req[r].gate, req[r].perm>> \in policies, "memberLink", None)

HasPermission(r) ==
  Step(r, "memberPerm", <<req[r].member, req[r].gate, req[r].perm>> \in policies, "memberLink", None)

\* (mutant: a token with permissions of its own skips the owner's schedule)
GetMemberSchedule_TokenExempt(r) ==
  LET s == memberLink[req[r].member][req[r].gate]
  IN  Step(r, "memberLink", TRUE,
           IF s = None \/ req[r].cred # None THEN "load" ELSE "memberSchedule", s)

GetMemberSchedule(r) ==
  LET s == memberLink[req[r].member][req[r].gate]
  IN  Step(r, "memberLink", TRUE, IF s = None THEN "load" ELSE "memberSchedule", s)

CheckMemberSchedule(r) ==
  Step(r, "memberSchedule", req[r].sid \in allows, "load", None)

LoadGate(r) == Step(r, "load", req[r].gate \in gates, "fire", None)

\* A check fails, or its query does: the request is refused.
Deny(r) ==
  /\ req[r].pc \in Checks
  /\ req' = [req EXCEPT ![r] = Idle]
  /\ UNCHANGED <<dbVars, claims, allows, known, shaken>>

Fire(r) ==
  /\ req[r].pc = "fire"
  /\ req' = [req EXCEPT ![r] = Idle]
  /\ UNCHANGED <<dbVars, claims, allows, known, shaken>>

-----------------------------------------------------------------------------
(* The whole system *)

Manage ==
  \/ \E m \in Members, g \in Gates :
       \/ \E p \in Perms : Grant(m, g, p) \/ RevokePermission(m, g, p)
       \/ Revoke(m, g)
       \/ \E s \in Link : LinkMember(m, g, s)
  \/ \E s \in Schedules : DeleteSchedule(s) \/ TurnSchedule(s)
  \/ \E g \in Gates : DeleteGate(g)
  \/ \E m \in Members : DeleteMember(m) \/ ExpireClaims(m) \/ \E new \in Roles : SetRole(m, new)
  \/ \E c \in Creds : ExpireToken(c)

Tokens(r) ==
  \/ \E m \in Members, c \in Creds, scope \in SUBSET Scope, s \in Link : InsertToken(r, m, c, scope, s)
  \/ \E m \in Members, c \in Creds : AdminCreateToken(r, m, c)
  \/ GrantToken(r) \/ CreateFails(r) \/ ReturnToken(r)
  \/ \E c \in Creds : BeginDelete(r, c)
  \/ RevokeAll(r) \/ RemoveSchedule(r) \/ DropToken(r)

Triggers(r) ==
  \/ \E g \in Gates, p \in Perms :
       \/ \E m \in Members : BeginSession(r, m, g, p)
       \/ \E c \in Creds : BeginToken(r, c, g, p)
  \/ GetTokenSchedule(r) \/ CheckTokenSchedule(r) \/ HasAny(r) \/ HasTokenPermission(r)
  \/ HasPermission(r) \/ GetMemberSchedule(r) \/ CheckMemberSchedule(r) \/ LoadGate(r)
  \/ Deny(r) \/ Fire(r)

\* Trigger's own rule on one snapshot of the tables.  For tokens it is weaker
\* than the documents: a token with policies of its own needs no permission of
\* its owner, and an administrator's token without policies needs none at all.
Permitted(q) ==
  LET own == Of(q.cred)
  IN  IF own # {} THEN <<q.cred, q.gate, q.perm>> \in own
      ELSE \/ q.cred # None /\ q.role = "ADMIN"
           \/ <<q.member, q.gate, q.perm>> \in policies

Facts(q) ==
  (IF Permitted(q) THEN {<<"permitted", None>>} ELSE {})
    \cup {<<"memberLink", memberLink[q.member][q.gate]>>}
    \cup {<<"tokenLink", IF q.cred = None THEN None ELSE tokenLink[q.cred]>>}
    \cup {<<"allows", s>> : s \in allows}

Observe ==
  seen' = [r \in Callers |->
    IF req'[r] = Idle THEN {}
    ELSE (IF req[r] = Idle THEN {} ELSE seen[r]) \cup Facts(req[r])']

Next == (Manage \/ (\E r \in Editors : Tokens(r)) \/ \E r \in Callers : Triggers(r)) /\ Observe

Spec == Init /\ [][Next]_vars

-----------------------------------------------------------------------------
(* Properties *)

\* A link of the kind was absent at some moment, or named a schedule that
\* allowed access at some moment.
Respected(r, kind) ==
  \/ <<kind, None>> \in seen[r]
  \/ \E s \in Schedules : {<<kind, s>>, <<"allows", s>>} \subseteq seen[r]

\* Trigger reads the tables one query at a time, and still decides as it would
\* on tables that stand still: a gate fires only if Trigger's rule held at some
\* moment of the request, and each schedule that bound the caller was absent or
\* open at some moment of it.  For a member's session the rule is the permission
\* itself, so what was revoked before the request and stays so is refused.  For
\* tokens this says no more than the rule does (see Permitted): it does not show
\* EXPRESSION_OF_NEED 6.2, "Toute action sur un portail vérifie : (1) la
\* permission du membre", of their owners, which is false.
AllowedAtSomeMoment ==
  \A r \in Callers : req[r].pc = "fire" =>
    /\ req[r].cred # None \/ req[r].role = "MEMBER" =>
         <<"permitted", None>> \in seen[r] /\ Respected(r, "memberLink")
    /\ req[r].cred # None => Respected(r, "tokenLink")

\* A token whose secret somebody has carries every policy it was created with,
\* but for those of gates that are gone, and is bound by the schedule it was
\* created with unless that is gone, until somebody begins to delete it: no
\* half-made token is ever handed out (CreateMyAPIToken: three kinds of
\* statements without a transaction).
TokenKeepsScope ==
  \A c \in known \ shaken : cred[c].phase = "live" =>
    /\ Of(c) = {p \in Scoped(c) : p[2] \in gates}
    /\ tokenLink[c] = Asked(c)

\* EXPRESSION_OF_NEED 6.5: "Chaque jeton est strictement limité aux permissions
\* explicitement attribuées lors de sa création": a token created with
\* policies triggers nothing else.
TokenConfined ==
  \A r \in Callers : req[r].pc = "fire" /\ req[r].cred # None =>
    cred[req[r].cred].scope = {} \/ <<req[r].gate, req[r].perm>> \in cred[req[r].cred].scope
=============================================================================
