---------------------------- MODULE Provisioning ----------------------------
(***************************************************************************)
(* How members come to exist: the first-run setup, an administrator, and   *)
(* the first SSO login.  Every request is a sequence of statements on      *)
(* PostgreSQL and Redis without a transaction around them: requests        *)
(* interleave between the statements, and any statement may fail and end   *)
(* its request there.  A crash of the server ends all of them the same way.*)
(*                                                                         *)
(* Access tokens outlive what they were issued for, so an administrator is *)
(* anyone who was ever handed an ADMIN token; module Sessions is about     *)
(* their expiry.                                                           *)
(***************************************************************************)
EXTENDS Integers, FiniteSets

CONSTANTS
  Requests,      \* requests that can be in progress at once
  Ids,           \* member ids; at most this many members exist at once
  Subjects,      \* subjects at the identity provider
  Emails,        \* e-mail claims
  SetupNames,    \* usernames typed into the setup form
  AdminNames,    \* usernames an administrator types
  MaxLogins,     \* at most this many SSO logins are started
  Codes,         \* one-time codes that can be outstanding at once
  Suffix,        \* the first 8 characters of each subject
  AutoProvision, \* SSOProviderConfig.AutoProvision
  None

ASSUME ProvisioningAssumption ==
  /\ MaxLogins \in Nat
  /\ None \notin Requests \cup Ids \cup Subjects \cup Emails \cup Nat
  /\ AutoProvision \in BOOLEAN
  /\ DOMAIN Suffix = Subjects
  /\ Subjects \cap {"setup", "admin"} = {}

VARIABLES
  members,     \* rows of the table members; (observer) what created each
  password,    \* members with a PASSWORD credential
  identities,  \* SSO_IDENTITY credentials: subject and member
  initMu,      \* SetupHandler.initMu
  req,         \* requests in progress
  states,      \* Redis sso:state:<state>
  codes,       \* Redis sso:code:<code>
  delivered,   \* (observer) the member each SSO login ended with
  admin,       \* (observer) somebody was handed an ADMIN access token
  confirmed,   \* (observer) members whose creation with a password succeeded
  excused      \* (observer) subjects that may get a second member: two first logins
               \* overlapped, or a member was left without its identity

db   == <<members, password, identities>>
sso  == <<states, codes, delivered>>
vars == <<db, initMu, req, sso, admin, confirmed, excused>>

-----------------------------------------------------------------------------
(* Rows and requests *)

States  == 1 .. MaxLogins    \* random; named in the order they are issued

Roles   == {"ADMIN", "MEMBER"}
Bases   == Emails \cup Subjects
Names   == SetupNames \cup AdminNames \cup Bases \cup (Bases \X {Suffix[s] : s \in Subjects})
Origins == {"setup", "admin"} \cup Subjects

Row   == [name: Names, role: Roles, origin: Origins]
NoRow == [name |-> None]

Live(i)     == members[i] # NoRow
NameFree(n) == \A i \in Ids : members[i].name # n
Known(s)    == {i \in Ids : <<s, i>> \in identities}

Payload == [state: States, sub: Subjects, id: Ids, role: Roles]
NoCode  == [state |-> None]

\* A new uuid is an id that no row, request or code mentions.
Fresh(i) ==
  /\ ~Live(i)
  /\ \A r \in Requests : req[r].pc # "idle" => req[r].id # i
  /\ \A c \in Codes : codes[c] # NoCode => codes[c].id # i

Idle == [pc |-> "idle"]
SetupSteps == {"lock", "hasAny", "getByUsername", "register", "registerPassword", "registerTokens"}
AdminSteps == {"create", "createPassword", "updatePassword", "insertPassword"}
SsoSteps   == {"exchange", "find", "getMember", "provision", "provisionSuffixed",
               "identity", "issue"}
Busy == [pc: SetupSteps \cup AdminSteps \cup SsoSteps, name: Names \cup {None}, role: Roles,
         id: Ids \cup {None}, sub: Subjects \cup {None}, state: States \cup {None}]
Blank == [pc |-> "idle", name |-> None, role |-> "MEMBER", id |-> None, sub |-> None,
          state |-> None]

TypeOK ==
  /\ members \in [Ids -> Row \cup {NoRow}]
  /\ password \subseteq Ids /\ identities \subseteq Subjects \X Ids
  /\ initMu \in Requests \cup {None}
  /\ req \in [Requests -> {Idle} \cup Busy]
  /\ states \in [States -> {"unused", "issued", "gone"}]
  /\ codes \in [Codes -> Payload \cup {NoCode}]
  /\ delivered \in [States -> Ids \cup {None, "deleted"}]
  /\ admin \in BOOLEAN /\ confirmed \subseteq Ids /\ excused \subseteq Subjects

Init ==
  /\ members = [i \in Ids |-> NoRow]
  /\ password = {} /\ identities = {}
  /\ initMu = None /\ req = [r \in Requests |-> Idle]
  /\ states = [t \in States |-> "unused"] /\ codes = [c \in Codes |-> NoCode]
  /\ delivered = [t \in States |-> None]
  /\ admin = FALSE /\ confirmed = {} /\ excused = {}

-----------------------------------------------------------------------------
(* Statements *)

Start(r, fields) == req[r] = Idle /\ req' = [req EXCEPT ![r] = fields]

\* A step of r from one statement to the next.
Goto(r, from, to) == req[r].pc = from /\ req' = [req EXCEPT ![r].pc = to]

\* INSERT INTO members: usernames are unique.
InsertMember(r, from, to, i, n, o) ==
  /\ req[r].pc = from /\ Fresh(i) /\ NameFree(n)
  /\ members' = [members EXCEPT ![i] = [name |-> n, role |-> req[r].role, origin |-> o]]
  /\ req' = [req EXCEPT ![r].pc = to, ![r].id = i, ![r].name = None]
  /\ UNCHANGED <<password, identities, initMu, sso, admin, confirmed, excused>>

\* INSERT INTO credentials of type PASSWORD: the member must exist, and have none.
AddPassword(i) ==
  /\ Live(i) /\ i \notin password
  /\ password' = password \cup {i}
  /\ UNCHANGED <<members, identities>>

Granted(role) == admin' = (admin \/ role = "ADMIN")

\* A statement fails or its result ends the request: setup already completed,
\* username taken, member gone, provider error, access denied.  What earlier
\* statements did stays.  The deferred Unlock runs.
Fail(r) ==
  /\ req[r].pc \notin {"idle", "lock"}
  /\ req' = [req EXCEPT ![r] = Idle]
  /\ initMu' = IF initMu = r THEN None ELSE initMu
  /\ excused' = excused \cup {s \in Subjects : /\ req[r].pc = "identity" /\ req[r].sub = s
                                               /\ Live(req[r].id)}
  /\ UNCHANGED <<db, sso, admin, confirmed>>

-----------------------------------------------------------------------------
(* First-run setup *)

\* Register creates the member with RoleMember.
Setup(r, n) ==
  /\ Start(r, [Blank EXCEPT !.pc = "lock", !.name = n, !.role = "MEMBER"])
  /\ UNCHANGED <<db, initMu, sso, admin, confirmed, excused>>

\* (mutant: init requests are not serialised)
Lock_NoMutex(r) ==
  /\ Goto(r, "lock", "hasAny")
  /\ UNCHANGED <<db, initMu, sso, admin, confirmed, excused>>

Lock(r) ==
  /\ initMu = None /\ initMu' = r
  /\ Goto(r, "lock", "hasAny")
  /\ UNCHANGED <<db, sso, admin, confirmed, excused>>

HasAny(r) ==
  /\ Goto(r, "hasAny", "getByUsername")
  /\ \A i \in Ids : ~Live(i)
  /\ UNCHANGED <<db, initMu, sso, admin, confirmed, excused>>

\* Register: the password is strong enough and the username is free.
GetByUsername(r) ==
  /\ Goto(r, "getByUsername", "register")
  /\ NameFree(req[r].name)
  /\ UNCHANGED <<db, initMu, sso, admin, confirmed, excused>>

Register(r, i) == InsertMember(r, "register", "registerPassword", i, req[r].name, "setup")

RegisterPassword(r) ==
  /\ Goto(r, "registerPassword", "registerTokens")
  /\ AddPassword(req[r].id)
  /\ UNCHANGED <<initMu, sso, admin, confirmed, excused>>

RegisterTokens(r) ==
  /\ req[r].pc = "registerTokens"
  /\ req' = [req EXCEPT ![r] = Idle]
  /\ initMu' = None
  /\ confirmed' = confirmed \cup {i \in {req[r].id} : Live(i)}
  /\ Granted(req[r].role)
  /\ UNCHANGED <<db, sso, excused>>

-----------------------------------------------------------------------------
(* Members and their credentials *)

\* Login: the role is the row's.
PasswordLogin(i) ==
  /\ Live(i) /\ i \in password
  /\ Granted(members[i].role)
  /\ UNCHANGED <<db, initMu, req, sso, confirmed, excused>>

CreateMember(r, n, role) ==
  /\ admin
  /\ Start(r, [Blank EXCEPT !.pc = "create", !.name = n, !.role = role])
  /\ UNCHANGED <<db, initMu, sso, admin, confirmed, excused>>

CreateInsert(r, i) == InsertMember(r, "create", "createPassword", i, req[r].name, "admin")

CreatePassword(r) ==
  /\ req[r].pc = "createPassword"
  /\ AddPassword(req[r].id)
  /\ req' = [req EXCEPT ![r] = Idle]
  /\ confirmed' = confirmed \cup {req[r].id}
  /\ UNCHANGED <<initMu, sso, admin, excused>>

UpdateMember(i, n, role) ==
  /\ admin /\ Live(i) /\ (n = members[i].name \/ NameFree(n))
  /\ members' = [members EXCEPT ![i] = [@ EXCEPT !.name = n, !.role = role]]
  /\ UNCHANGED <<password, identities, initMu, req, sso, admin, confirmed, excused>>

\* The credentials go with the row.
DeleteMember(i) ==
  /\ admin /\ Live(i)
  /\ members' = [members EXCEPT ![i] = NoRow]
  /\ password' = password \ {i}
  /\ identities' = {c \in identities : c[2] # i}
  /\ confirmed' = confirmed \ {i}
  /\ delivered' = [t \in States |-> IF delivered[t] = i THEN "deleted" ELSE delivered[t]]
  /\ UNCHANGED <<initMu, req, states, codes, admin, excused>>

\* AdminSetMemberPassword: the member exists; then UPDATE, and INSERT when there
\* was nothing to update.
SetPassword(r, i) ==
  /\ admin /\ Live(i)
  /\ Start(r, [Blank EXCEPT !.pc = "updatePassword", !.id = i])
  /\ UNCHANGED <<db, initMu, sso, admin, confirmed, excused>>

UpdatePassword(r) ==
  /\ req[r].pc = "updatePassword"
  /\ req' = [req EXCEPT ![r] = IF req[r].id \in password THEN Idle
                               ELSE [@ EXCEPT !.pc = "insertPassword"]]
  /\ UNCHANGED <<db, initMu, sso, admin, confirmed, excused>>

InsertPassword(r) ==
  /\ req[r].pc = "insertPassword"
  /\ AddPassword(req[r].id)
  /\ req' = [req EXCEPT ![r] = Idle]
  /\ UNCHANGED <<initMu, sso, admin, confirmed, excused>>

MayDelete(i) == admin \/ \E t \in States : delivered[t] = i

\* (mutant: any credential may be deleted)
DeleteCredential_AnyType(i) ==
  /\ MayDelete(i)
  /\ \/ i \in password /\ password' = password \ {i} /\ UNCHANGED <<identities, excused>>
     \/ \E s \in Subjects :
          /\ <<s, i>> \in identities /\ identities' = identities \ {<<s, i>>}
          /\ excused' = excused \cup {s} /\ UNCHANGED password
  /\ UNCHANGED <<members, initMu, req, sso, admin, confirmed>>

\* DeleteMyCredential and AdminDeleteMemberCredential refuse a password.
DeleteCredential(i) ==
  /\ MayDelete(i)
  /\ \E s \in Subjects :
       /\ <<s, i>> \in identities /\ identities' = identities \ {<<s, i>>}
       /\ excused' = excused \cup {s}
  /\ UNCHANGED <<members, password, initMu, req, sso, admin, confirmed>>

-----------------------------------------------------------------------------
(* SSO login *)

Authorize(t) ==
  /\ states[t] = "unused" /\ \A u \in 1 .. (t - 1) : states[u] # "unused"
  /\ states' = [states EXCEPT ![t] = "issued"]
  /\ UNCHANGED <<db, initMu, req, codes, delivered, admin, confirmed, excused>>

\* A callback with an error consumes the state; an unused state expires.
StateGone(t) ==
  /\ states[t] = "issued"
  /\ states' = [states EXCEPT ![t] = "gone"]
  /\ UNCHANGED <<db, initMu, req, codes, delivered, admin, confirmed, excused>>

\* (mutant: GET, and the state is left to expire)
Callback_Get(r, t) ==
  /\ states[t] = "issued"
  /\ Start(r, [Blank EXCEPT !.pc = "exchange", !.state = t])
  /\ UNCHANGED <<db, initMu, sso, admin, confirmed, excused>>

\* GETDEL of the state; a second callback finds it gone and changes nothing.
Callback(r, t) ==
  /\ states[t] = "issued"
  /\ states' = [states EXCEPT ![t] = "gone"]
  /\ Start(r, [Blank EXCEPT !.pc = "exchange", !.state = t])
  /\ UNCHANGED <<db, initMu, codes, delivered, admin, confirmed, excused>>

\* (mutant: no fallback when the provider sends no e-mail)
BaseName_EmailOnly(s, email) == email

\* The e-mail, or the subject without one.
BaseName(s, email) == IF email = None THEN s ELSE email

\* The provider's answer: subject, e-mail if any, and the mapped role.
ProviderExchange(r, s, email, role) ==
  /\ req[r].pc = "exchange"
  /\ req' = [req EXCEPT ![r] = [@ EXCEPT !.pc = "find", !.sub = s, !.role = role,
                                         !.name = BaseName(s, email)]]
  /\ UNCHANGED <<db, initMu, sso, admin, confirmed, excused>>

Creating(s) == {r \in Requests : /\ req[r].pc \in {"provision", "provisionSuffixed", "identity"}
                                 /\ req[r].sub = s}

\* A first login of a subject; the observer notes another one under way.
NotFound(r) ==
  /\ AutoProvision
  /\ req' = [req EXCEPT ![r].pc = "provision"]
  /\ excused' = IF Creating(req[r].sub) = {} THEN excused ELSE excused \cup {req[r].sub}

\* (mutant: the identity is matched by the username it would get)
FindIdentity_ByName(r) ==
  LET found == {i \in Known(req[r].sub) : members[i].name = req[r].name}
  IN  /\ req[r].pc = "find"
      /\ \/ \E i \in found :
              req' = [req EXCEPT ![r].pc = "getMember", ![r].id = i, ![r].name = None] /\ UNCHANGED excused
         \/ found = {} /\ NotFound(r)
      /\ UNCHANGED <<db, initMu, sso, admin, confirmed>>

\* SELECT ... LIMIT 1 without an order: any identity of the subject.
FindIdentity(r) ==
  /\ req[r].pc = "find"
  /\ \/ \E i \in Known(req[r].sub) :
          req' = [req EXCEPT ![r].pc = "getMember", ![r].id = i, ![r].name = None] /\ UNCHANGED excused
     \/ Known(req[r].sub) = {} /\ NotFound(r)
  /\ UNCHANGED <<db, initMu, sso, admin, confirmed>>

\* The member's own role, not the one the claims map to.
GetMember(r) ==
  /\ req[r].pc = "getMember" /\ Live(req[r].id)
  /\ req' = [req EXCEPT ![r].pc = "issue", ![r].role = members[req[r].id].role]
  /\ UNCHANGED <<db, initMu, sso, admin, confirmed, excused>>

Provision(r, i) == InsertMember(r, "provision", "identity", i, req[r].name, req[r].sub)

\* (mutant: the member who has the username is taken to be this one)
NameTaken_Adopt(r) ==
  /\ req[r].pc = "provision"
  /\ \E i \in Ids : members[i].name = req[r].name
                    /\ req' = [req EXCEPT ![r].pc = "identity", ![r].id = i]
  /\ UNCHANGED <<db, initMu, sso, admin, confirmed, excused>>

\* ErrAlreadyExists: one more attempt, under a name with the suffix.
NameTaken(r) ==
  /\ Goto(r, "provision", "provisionSuffixed")
  /\ ~NameFree(req[r].name)
  /\ UNCHANGED <<db, initMu, sso, admin, confirmed, excused>>

ProvisionSuffixed(r, i) ==
  InsertMember(r, "provisionSuffixed", "identity", i,
               <<req[r].name, Suffix[req[r].sub]>>, req[r].sub)

InsertIdentity(r) ==
  /\ Goto(r, "identity", "issue")
  /\ Live(req[r].id)
  /\ identities' = identities \cup {<<req[r].sub, req[r].id>>}
  /\ UNCHANGED <<members, password, initMu, sso, admin, confirmed, excused>>

\* IssueTokenPair and storeSSOCode.
StoreCode(r, c) ==
  /\ req[r].pc = "issue" /\ codes[c] = NoCode
  /\ codes' = [codes EXCEPT ![c] = [state |-> req[r].state, sub |-> req[r].sub,
                                    id |-> req[r].id, role |-> req[r].role]]
  /\ req' = [req EXCEPT ![r] = Idle]
  /\ UNCHANGED <<db, initMu, states, delivered, admin, confirmed, excused>>

\* GETDEL of the code: the browser gets its cookies.
Exchange(c) ==
  /\ codes[c] # NoCode
  /\ codes' = [codes EXCEPT ![c] = NoCode]
  /\ delivered' = [delivered EXCEPT ![codes[c].state] =
       IF Live(codes[c].id) THEN codes[c].id ELSE "deleted"]
  /\ Granted(codes[c].role)
  /\ UNCHANGED <<db, initMu, req, states, confirmed, excused>>

CodeExpires(c) ==
  /\ codes[c] # NoCode
  /\ codes' = [codes EXCEPT ![c] = NoCode]
  /\ UNCHANGED <<db, initMu, req, states, delivered, admin, confirmed, excused>>

-----------------------------------------------------------------------------

\* The statement a request is at returns, one way or the other.
Proceed(r) ==
  \/ Fail(r)
  \/ HasAny(r) \/ GetByUsername(r) \/ RegisterPassword(r) \/ RegisterTokens(r)
  \/ CreatePassword(r) \/ UpdatePassword(r) \/ InsertPassword(r)
  \/ \E s \in Subjects, email \in Emails \cup {None}, role \in Roles :
       ProviderExchange(r, s, email, role)
  \/ FindIdentity(r) \/ GetMember(r) \/ NameTaken(r) \/ InsertIdentity(r)
  \/ \E i \in Ids : Register(r, i) \/ CreateInsert(r, i) \/ Provision(r, i) \/ ProvisionSuffixed(r, i)
  \/ \E c \in Codes : StoreCode(r, c)

Begin(r) ==
  \/ \E n \in SetupNames : Setup(r, n)
  \/ \E n \in AdminNames, role \in Roles : CreateMember(r, n, role)
  \/ \E i \in Ids : SetPassword(r, i)
  \/ \E t \in States : Callback(r, t)

Next ==
  \/ \E r \in Requests : Begin(r) \/ Lock(r) \/ Proceed(r)
  \/ \E i \in Ids : PasswordLogin(i) \/ DeleteMember(i) \/ DeleteCredential(i)
  \/ \E i \in Ids, role \in Roles : \E n \in AdminNames \cup {members[i].name} : UpdateMember(i, n, role)
  \/ \E t \in States : Authorize(t) \/ StateGone(t)
  \/ \E c \in Codes : Exchange(c) \/ CodeExpires(c)

Spec == Init /\ [][Next]_vars

-----------------------------------------------------------------------------
(* Properties *)

\* initMu and the HasAny check: however init requests, failures and deletions
\* interleave, setup never leaves two members of its own making.
SetupOnce == Cardinality({i \in Ids : Live(i) /\ members[i].origin = "setup"}) <= 1

\* resolveOrProvision: an SSO login ends with a member that was created for that
\* very subject, never with one that has the same e-mail or username.
NoTakeover ==
  /\ \A c \in Codes : codes[c] # NoCode /\ Live(codes[c].id)
                       => members[codes[c].id].origin = codes[c].sub
  /\ \A x \in identities : members[x[2]].origin = x[1]

\* Look-up-then-create (resolveOrProvision): a subject gets a second member in
\* three ways only: two of its first logins overlapped, the INSERT of its
\* identity failed after that of its member, or its identity was deleted and the
\* member not.  Retries, other failures, renames, members deleted and made again,
\* and names taken by others never lead to one.
OneMemberPerSubject ==
  \A s \in Subjects \ excused :
    Cardinality({i \in Ids : Live(i) /\ members[i].origin = s}) <= 1

\* A reloaded or duplicated callback, or a second exchange of its code, never
\* makes one authorization into two sessions.
OneLoginPerState ==
  \A t \in States :
    Cardinality({r \in Requests : req[r].pc \in SsoSteps /\ req[r].state = t})
      + Cardinality({c \in Codes : codes[c].state = t})
      + (IF delivered[t] = None THEN 0 ELSE 1) <= 1

\* A member whose creation succeeded can log in for as long as it exists.
ConfirmedCanLogin == confirmed \subseteq password

\* EXPRESSION_OF_NEED 4.1: "Création du premier compte administrateur"; setup.go:
\* "Create the first admin member".  The session setup is about to open is the
\* administrator's.
SetupMakesAdmin == \A r \in Requests : req[r].pc = "registerTokens" => req[r].role = "ADMIN"
=============================================================================
