# Gatie: TLA+ verification project

Gatie is a Go server (`src/cmd/server`, `src/internal`) that puts physical gates behind a web
API: devices report their status over MQTT, HTTP or webhooks; members, API tokens and holders
of access codes trigger them. PostgreSQL keeps the tables, Redis the counters, timers and
sessions, Mosquitto the device credentials. No lock spans two of these stores and almost no
operation uses a transaction: most of what can go wrong is an interleaving of round trips.

The project has TLA+ modules for those interleavings, TLC runs on small instances, and TLAPS
proofs that lift every safety invariant of every module to all instances (section 6).
`PROJECT.json` maps every definition to the source lines it models and lists the runs, mutants,
hazards, findings and theorems. To repeat a run, `tlc -config X.cfg M`; to repeat the proofs of
module M, `tlapm MProofs.tla`: each takes a minute or two at most.

## 1. Inventory

| Component (source) | State | Operations | Hard behaviour | What makes it correct |
|---|---|---|---|---|
| Gate status pipeline (`service/gate_status.go`, `service/gate_ttl.go`, `repository/postgres/gate.go`, `handler/gate_inbound.go`, `mqtt/`) | status, last_seen_at, metadata of a row; Redis `gate:tr:*` timers; events on Redis pub/sub | inbound report, `markExpired`, `checkTransitions` | handlers and worker write one row without a version; the worker decides on rows it listed earlier; every Redis error is ignored | the worker's mark means silence; nothing is announced before it is stored; a dead device is detected; a transition replaces what it was meant for |
| Access codes (`service/gate_pin.go`) | `gate_access_codes`; Redis attempt and use counters | create, update, delete, unlock, open | counters at their limit, concurrent last use, lost replies of scripts, failing open or closed | bounded guessing, an exact use counter, lockouts end, a code stops after its uses |
| Sessions (`service/auth.go`, `handler/auth.go`) | refresh tokens in Redis, cookies, JWTs | login, PIN session, refresh, logout, expiry | two tabs refresh at once; logout overlaps a refresh; responses are lost; roles change | one-time tokens, logout ends the session, an ended session stays ended, withdrawn rights fade |
| Broker authentication (`mqtt/dynsec.go`, `service/gate.go`) | gate token in the table, password at the broker | create, rotate, delete, setup | two stores in two steps; responses without correlation id; timeouts, late answers and commands delivered twice; restart between the steps | table and broker agree after an undisturbed operation |
| Permissions, schedules, API tokens (`service/gate.go` Trigger, `service/policy.go`, `handler/credential.go`, migrations) | `access_policies`, `schedule_links`, `credentials` | grant, revoke, link, delete with cascades, create and delete a token, trigger | Trigger reads one table at a time; token creation and deletion are several statements without a transaction | the separate queries decide as one would; a token in use has its whole scope and schedule |
| Schedule evaluation (`service/schedule.go`) | the stored expression | validate, store, evaluate | circular ranges (midnight, week, month, year), nesting | what is accepted is evaluated to the set of instants it denotes |
| Members, setup and SSO (`handler/setup.go`, `service/sso.go`, `service/member.go`, `handler/credential.go`) | `members`, passwords and SSO identities; Redis `sso:state:*`, `sso:code:*`; the setup mutex | first start, create, rename, delete, set a password, authorize, callback, code exchange | look-up-then-create without a transaction; a statement fails half-way; callbacks are repeated | setup happens once; a subject gets its own member, and one; a member that was created can log in |
| Custom domains (`handler/custom_domain.go`, `middleware/tenant.go`) | domain rows, DNS records, tenant cache in Redis | add, verify, delete, resolve | a DNS lookup between read and update; a cache that nobody invalidates, filled by late requests | a domain leads only to a gate that proved it; the cache heals |
| Webhook polling (`service/gate_webhook_worker.go`) | next due times | poll, retry | slow answers applied late | reports enter GateStatus; due times are not modelled |
| Event stream (`handler/sse.go`), rate limiter, drivers, tools, web client | none of their own, or I/O | | | not modelled, see section 9 |

Interactions. The HTTP handlers call services, services call repositories (one SQL statement
each) and Redis. The TTL worker and the polling worker are goroutines of the same process.
`Trigger` composes permissions (AccessControl), schedules (Schedule) and the row of the gate
(GateStatus); opening by code (PinAccess) ends by issuing a session (Sessions); saving a gate
changes the row (GateStatus) and the broker (BrokerSync); deleting a gate cascades
(AccessControl). These are shared by name rather than composed in one state space: the modules
meet in one value (a session, a verdict of a schedule, a phase of a row), and that value is
nondeterministic in the module that consumes it.

## 2. Plan

Done, in this order: GateStatus and its proofs; PinAccess; SessionLife and Sessions (the
abstract specification and its refinement); BrokerSync; AccessControl; ScheduleRules and Schedule;
Provisioning; CustomDomains; then the proofs of all of them.

Next:

1. *Model.* The guards of the management routes (`middleware/rbac.go`, GateManager) in
   AccessControl, due times and retries of `gate_webhook_worker.go`, and liveness of BrokerSync
   (every operation ends, the mutex is released).
2. *Compose.* PinAccess with Sessions over the life of one PIN session (deleting a code while
   its session is renewed).
3. *Prove.* What a composition of PinAccess and Sessions would add; of what the runs check today,
   only liveness is not a theorem (section 7).

## 3. Modules and the code

**GateStatus.** `gates` is the table, `armed` the Redis timers, `view` what a subscriber of the
event stream heard last, `handler` the inbound handlers between their round trips, and `wpc`,
`notify`, `snap`, `todo`, `cur`, `idx`, `now` the TTL worker inside a tick. A handler is three
actions: `ReceiveStatus` (authenticate, load the row, apply the status rules), `PersistStatus` or
`PersistFails`, `PublishStatus`. A tick is `MarkExpired`, one `PublishExpired` per gate,
`ListCandidates`, `ReadNow`, then per gate and transition `NotDue`, `Fire` or `FireFails`, with
at most one transition of a gate applied in a pass. Redis failures are choices inside the
actions, since the code ignores them. Timestamps are relative: 0 is now, `PassTime` makes all of
them older, and everything older than `Horizon` is one value, so behaviours have no length bound.
A device or a status rule may report any name, "unresponsive" included (`mqtt/gate.go:101-106`,
`gate_validation.go:163-184`), so a stored "unresponsive" does not say who put it there; the observer
`heard` remembers what the last report or transition stored, which tells the worker's mark apart.

**PinAccess.** A request goes through attempt counters, lookup in the newest page of codes,
clearing of its IP's attempts, the use script (open only), session, trigger. `Incr` is INCR with
EXPIRE NX; `useScript` is the Lua script; `UseUnconfirmed` and `FreeUse` are the "allowing use"
branch when Redis fails after or before running it. Observers `tries` and `granted` count what
the properties speak about; `granted` has only the uses paid for. **PinUses** adds the observer `opened`, which counts
every command to open that a code causes, by the open and by the unlock route.

**Sessions, SessionLife.** `store` is Redis, `jar` the two cookies of a browser, `req` the
requests between their round trips. `Redeem` is GETDEL; `LoadMember` re-reads the role;
`ResponseLost` leaves the cookies as they were. SessionLife is the abstract promise: a session
begins once, belongs to one subject from its start to its end, and is over for good then: its
states are Nobody, a subject, Over, in this order. A chain is the session that one login begins; the
observer `fate` remembers which have begun, so that no chain is used for two sessions.

**BrokerSync.** `row` is the table, `client` the broker; `lock`, `respCh`, `cmds` and `replies`
are the mutex, the one-slot channel and the two topics of `dynsec.go`. `Timeout` is the 5-second
wait; a late reply stays in `replies` and may be taken for the answer to the next command, as in
the code. Commands are published at QoS 1 (`mqtt/client.go:41-45`): `Redeliver` is one that is sent
again because its acknowledgement got lost, and is executed twice. `Restart` drops everything in memory. The broker's plugin (`Execute`, `Response`) is
external, modelled from the answers the code looks for.

**AccessControl.** Each query of `GateService.Trigger` is an action (`GetTokenSchedule`,
`CheckTokenSchedule`, `HasAny`, `HasTokenPermission`, `HasPermission`, `GetMemberSchedule`,
`CheckMemberSchedule`, `LoadGate`), and so is each statement of creating and deleting an API
token. Cascades follow the migrations. `Permitted` is Trigger's own rule on one snapshot of the
tables; for tokens it is weaker than the documents (section 8). `model.Member` has no field `AuthConfig`, which
`middleware/auth.go:56` reads; the switch is taken at its default, tokens accepted.

**ScheduleRules, Schedule.** ScheduleRules has the calendar, the validation and the evaluation of a
single rule, and the reference meaning of one (`RuleMeaning`): a set of instants built from arcs on
a circle, which shares nothing with the comparisons of the code. Schedule adds expressions:
`validateExpr` and `evalExpr` follow the code's recursion, `Meaning` combines sets. Each is a
recursive function with an operator beside it (`validateNode`, `evalNode`, `NodeMeaning`) that says
what happens at one node, given the results for its children. The code stops at the first child
that decides; what is skipped has no effect, so the model asks all of them. `Exprs` is what clients
may submit, with its subexpressions; a client can send any finite tree, so the only thing assumed of
it is that children are less deep (`Depth`) than their parent. Dates are strings, which the code compares
and never parses: a bound is a place in the order of strings (an integer), the text of day d has the
place `Text(d)`, and the places before and between belong to texts that are no date. The months of a year are given by
the constant `MonthStart`, the days before each of them.

**Provisioning.** `members`, `password` and `identities` are the tables; `req` holds the requests
between their statements. Setup is `Setup`, `Lock`, `HasAny`, `GetByUsername`, `Register`,
`RegisterPassword`, `RegisterTokens`; creation by an administrator and setting a password are two
statements each; an SSO login is `Authorize`, `Callback` (GETDEL of the state), `ProviderExchange`,
`FindIdentity`, then `GetMember`, or `Provision`, `NameTaken`, `ProvisionSuffixed` and
`InsertIdentity`, then `StoreCode` and `Exchange`. `Fail` ends a request at any statement and
keeps what the earlier ones did; it stands for database errors, refusals and a crash alike. An
administrator is anyone who was ever handed an ADMIN token (`admin`), which allows more than the
code does. There is one identity provider, whose answers (subject, e-mail or none, mapped role)
are free. A username is a typed name, an e-mail, a subject, or one of the last two with the
subject's first eight characters, which subjects may share. Passwords are present or absent.

**CustomDomains.** `table` holds the rows, `dns` the challenge tokens in each zone, `cache` the
Redis entries with their remaining life. A verification is `VerifyDomain`, `LookupTXT`,
`SetVerified`; a request through TenantResolver is `Hit`, or `Miss`, `Query`, `Fill`, where any
number of changes fit between two steps. A row's token is random and its own, so the row's id
stands for it. The observer `proven` remembers which gate's token was seen in which zone.

The MC modules only hold values of constants, and a symmetry set.

## 4. Runs

| Run | Question | Bounds, and why they are enough |
|---|---|---|
| gate | `MarkedOnlyIfSilent`, `NoEventBeforeStore`, `DeadDeviceDetected` | one gate (rows do not interact), one handler and the worker; a chain of two transitions, one persistent, so that the worker itself revives a dead gate's timestamp and the chain must run dry; devices may report "unresponsive"; TTLs and delays of 1 and 2, a pass of 1, horizon 3: reports fall before, at and after every threshold. The theorems lift these bounds for the invariants. |
| gate_lost (violated) | `TransitionReplacesFrom` | as above, without fairness |
| pin | `GateBudget`, `UsesAreGrants`, `LockoutEnds` | two requests (the races are between two), limits 1 per IP and 2 per gate so that both bite, window 2, quotas 0 to 2 with edits; one code |
| pin_quota (violated) | `CodeStopsAfterUses` | one code with one use, one request at a time: no race is needed |
| sessions | `OneSuccessor`, `LogoutEndsSession`, `StaleRightsFade`, refinement of SessionLife | one browser with two requests (two tabs), two sessions in a behaviour, since an ended one is not used again, three tokens: both sessions and a token held by a lost response at once; one member and one code; JWTs live 1, sessions 2 |
| broker_safety | `CleanIsSynced` | two gates, two requests, three tokens, two messages in flight: a late answer, or the second delivery of a command, of one gate meets a command of the other |
| access | `AllowedAtSomeMoment`, `TokenKeepsScope` | one member, gate, permission, schedule and token; two symmetric requests that create and delete; one caller, since callers write nothing another could read |
| access_scope (violated) | `TokenConfined` | two gates, one of which is deleted |
| schedule | `CheckMeansSchedule` | days of 2 x 2 minutes, weeks of 3 days, months of 2 and 3 days, 15 days: every ordered, equal and wrapping pair of bounds, values outside the calendar, dates that are none (before the first, between two, after the last), nesting of depth 3. `ScheduleKept` lifts all of these bounds. |
| provisioning | `SetupOnce`, `NoTakeover`, `OneMemberPerSubject`, `OneLoginPerState`, `ConfirmedCanLogin` | two requests; two members at a time, whose ids are used again after a deletion, so creations are not bounded; two subjects with the same e-mail and prefix (they collide on both usernames) and two logins; two setup names, since with one the UNIQUE constraint would hide the race for setup; an administrator types the e-mail as a name |
| setup_admin (violated) | `SetupMakesAdmin` | as above |
| domains | `VerifiedWasProven`, `TenantWasProven`, `CacheConverges` | two gates compete for one domain (domains do not interact) with two rows, one verification, two requests that fill the cache over each other; hits live 2, misses 1 |

What the passing runs show:

- *MarkedOnlyIfSilent.* A row says what the last report or transition stored, or it carries the
  worker's mark and has been silent for longer than a TTL: nothing that lands anywhere in a tick
  leaves the mark on a gate that has just been heard.
- *NoEventBeforeStore.* Subscribers never hear of a gate that the table has not seen.
- *DeadDeviceDetected.* Although a transition refreshes last_seen_at, a finite chain ends flagged
  and displayed offline, and stays so.
- *GateBudget, LockoutEnds.* Successes that forgive an IP never extend what can be tried against
  a gate in a window, and attempts during a lockout do not prolong it.
- *UsesAreGrants.* The use counter of an existing code is exactly the uses paid for, across edits,
  refused attempts, deletions and lost replies. That a code stops after its uses is another
  matter: section 8.
- *OneSuccessor, LogoutEndsSession.* GETDEL makes a chain of refresh tokens linear; a logout
  with the current token is final.
- *ImplementsSessionLife.* Lost responses and late refreshes never bring an ended session back, and
  none changes hands.
- *StaleRightsFade.* After a role change or deletion, JWTs with the old role die out.
- *CleanIsSynced.* An operation alone on its gate, with no answer outstanding, leaves the broker
  with the table's token, and repairs what a disturbed one left.
- *AllowedAtSomeMoment.* Separate queries of a trigger never combine into a grant that Trigger's own
  rule did not give at some moment of the request, and every schedule that bound the caller was absent
  or open at some moment of it. For a member's session the rule is the permission; for tokens see section 8.
- *TokenKeepsScope.* No token whose creation failed half-way is handed out: one in use has all its
  policies and the schedule it was created with.
- *SetupOnce.* The mutex and the check behind it never leave two members made by setup, although
  setup reopens when the last member is deleted.
- *NoTakeover, OneMemberPerSubject.* An SSO login never ends with another subject's, or a local,
  member of the same name. A subject gets a second member in three ways only: overlapping first
  logins, an identity that could not be stored after its member was, and an identity deleted
  without its member (the observer `excused` notes these). Other failures, retries, renames,
  deletions and taken names do not lead there.
- *OneLoginPerState.* A repeated callback or exchange never gives a second session.
- *ConfirmedCanLogin.* Nothing takes the password of a member whose creation succeeded, short of
  its deletion.
- *VerifiedWasProven, TenantWasProven.* A verification that is overtaken by a deletion and a new
  registration marks nobody else's row, and no cache entry, however late, leads to a gate that
  never proved the domain.
- *CacheConverges.* Once a domain's registration stops changing, stale entries, also those written
  by late requests, die out.
- *CheckMeansSchedule.* The evaluator agrees with the reference at every minute, date bounds in the order of
  strings.

Every property is also run against a mutant of a mapped definition (`*_NoWrap`, `*_Get`, ...,
defined beside it), which must violate it.

**Deadlock** is checked everywhere except in the runs of Provisioning, where the number of SSO
logins is bounded and a system whose setup failed half-way, with no administrator and no login
left, really comes to rest.

## 5. Fairness

- *GateStatus*: weak fairness of each handler, of the worker and of time: goroutines of a
  running process. Strong fairness of `MarkExpired`, and of a `Fire` that deletes its timer:
  statements that may fail, but not for ever. Without the second, a persistent timer that is
  never deleted would revive the gate again and again.
- *PinAccess, Sessions*: weak fairness of time only. Redis expires keys by itself.
- *CustomDomains*: weak fairness of time, and of each request that is querying the database or
  filling the cache: it succeeds or fails, but does not stay there for ever.
- *BrokerSync, AccessControl, Schedule, Provisioning*: safety only.

## 6. Proofs

Each proof module extends the module it is about. Except for ScheduleProofs, each has the same shape:
an inductive invariant `IInv` as a conjunction of named parts, `InitInv`, one lemma per action
or per action and part (`...Inv`, `...Type`), `NextInv`, `Invariance` (`Spec => []IInv`), and the
theorems as consequences. Where an action touches a record in a function, a first step gives the type of the
new record, and frame lemmas carry the invariant of everything that was not touched. Every `IInv`
was also checked by TLC on the instance of its run. The constants are arbitrary sets and numbers
under the assumptions named here; finiteness is never assumed. Assumptions of the kind "the
sentinel is none of the values" say that a NULL, an empty string or a nil pointer is told from a value.

**GateStatusProofs** (`ConfigsAssumption`, `TimeAssumption`, `NamesAssumption`: time constants are
natural and below the horizon, a transition leads to another status, sentinels).

- *TypeCorrect.* TypeOK is inductive as stated; the lemma with content is `RulesType` (the first
  matching rule exists and yields a reported status), through well-foundedness of the naturals.
- *MarkIsRight* (`MarkedOnlyIfSilent`). Inductive relative to TypeOK: every write sets status and
  timestamp together, the worker marks only expired rows, and time only makes them older. Nothing
  is assumed of the names that devices and rules report.
- *StoredBeforeAnnounced* (`NoEventBeforeStore`). Not inductive: whether an announcement is safe
  depends on who is about to make it. `StoreFirst` adds that a handler that has stored, every gate
  the worker is still to announce, and every gate it listed or works on have been seen (`Seen`), and
  that events of an absent gate do not exist. Lemma `SeenStable` (a gate once seen stays seen, or is
  deleted) carries these over the steps of everyone else.

**PinAccessProofs** (`PinAssumption`: limits, window and page size positive, quotas natural).

- *TypeCorrect*, *GateBudgetHolds*, *UsesAreGrantsHolds*. `GateBudget` alone does not survive a
  step, since nothing ties the attempts let through to the counter; `TriesCounted` does (they are
  among those counted, and both start over together). `UsesAreGrants` speaks of codes that exist and
  would be lost when an id is given out: `UniqueIds` (an id stands in one row) and `UnusedIsNew` (an
  id not given out has no history) supply that. Rows are sequences; `WithoutProperties` says what
  deleting an element does.

**SessionsProofs** (`SessionAssumption`: token lifetimes natural with a largest one, members and
codes are different subjects).

- *TypeCorrect*, with `RequestsOK` (a request that carries a session knows its subject and chain)
  and `KeysOK` (an expiring key has time left).
- *OneSuccessorHolds* (`OneSuccessor`). Cardinalities are restated as uniqueness: `OneHolder` says that
  a chain has one stored token or one request about to issue one, never both; GETDEL moves it
  from one to the other.
- *LogoutEnds* (`LogoutEndsSession`). `ClosedIsOver` needs `SameChain`: the browser or response that
  presents a live token knows the chain it belongs to, so the logout closes the right one.
- *SessionRefinement* (`ImplementsSessionLife`). Under the mapping of Sessions (the subject that
  a stored token or a request carries for a chain), the initial states map to those of SessionLife
  and every action to a begin, an end or a stutter. A chain that has begun and that nobody carries is
  Over, so the step that would revive it has no counterpart. `Carriers` and `CarriedBefore` relate who carries a chain before and after a
  step; `OneHolder` makes the mapped subject unique. SessionLife has no fairness, so this is
  the whole refinement.

**BrokerSyncProofs** (`BrokerAssumption`: the boot process is no request, at least one message fits
the queues).

- *TypeCorrect*, with `ReqInv` (no token is used that was not issued).
- *CleanGatesSynced* (`CleanIsSynced`). At the end of an operation the code knows only that some
  success response came. That it was the right one needs: `LockInv` (one process talks to the
  broker; a command delivered twice taints its operation); `TaintInv` (of two overlapping operations on a gate, both are tainted); `ExchangeInv` (while
  an untainted operation waits, exactly its own command, or its own response in the topic or in the
  channel, is between server and broker, and what a response says is what the broker has);
  `CommandInv` (a command still under way belongs to a dirty gate or to an operation that is
  talking, so a late one never changes a clean gate); `CleanInv`.

**AccessControlProofs** (`AccessAssumption`: sentinels, members and tokens are different subjects, a
request either triggers or edits).

- *TypeCorrect* includes the foreign keys (no policy of a deleted gate, no link to a deleted
  schedule), with `OwnerInv`: a live token's owner exists, so the role it brings is one of the two.
- *TokensComplete* (`TokenKeepsScope`). `MakingInv` (a token in the making belongs to one request, was
  handed to nobody, and what is done of it is stored), `ScopeInv` (policies of tokens are within
  their scope) and `LinkInv` (the request carries the schedule asked for until it is linked).
- *TriggersAllowed* (`AllowedAtSomeMoment`). The observer `seen` collects the facts that held
  during a request. `SeenInv` says what it must contain at each query (`Progress`), and that a token
  found without policies never gets any: it was handed out, so its policies were complete (`ScopeInv`),
  and they only become fewer. This is why the fallback to the owner's rights is sound for
  a token that was created unrestricted.

**ProvisioningProofs** (`ProvisioningAssumption`: sentinels; subjects are not the markers of the
other two origins).

- *TypeCorrect*; `Shape` says which fields a request has at which statement.
- *SetupHappensOnce* (`SetupOnce`). `SetupInv`: one request is past the mutex, and while it is between
  the check and its INSERT no member of setup exists.
- *NobodyIsTakenOver* (`NoTakeover`). `OwnerInv`: identities, logins and codes are those of the
  subject the member was made for, although ids are used again after deletions.
- *OneLogin* (`OneLoginPerState`). `StateInv`: a state that is still stored has no login yet, and
  a login is in one request, one code or one session.
- *OneMember* (`OneMemberPerSubject`). `RaceInv`: a subject that is not excused has one first login
  under way, or one identity, or neither. `OrphanInv`: each of its members has that identity, or is
  about to get it from that login; so two members would be two of them.
- *ConfirmedLogsIn* (`ConfirmedCanLogin`). `PasswordInv`: what setup is about to confirm has its
  password, unless it was deleted meanwhile.

**CustomDomainsProofs** (`DomainAssumption`: entries live at least one unit, misses no longer than
hits).

- *TypeCorrect*, *VerifiedProven* (`VerifiedWasProven`), *TenantProven* (`TenantWasProven`).
  `SeenWasProven` is the strengthening: a verification that has seen the token has seen it for what
  its row still says, unless the row is gone; it holds because a row's id, which
  stands for a random token, is not given to another registration while anybody refers to it. `OneRow` is the UNIQUE constraint.

**ScheduleProofs** (no assumption on the dates submitted; `CalendarAssumption`: sizes positive, months of at least one and at most
`MonthDays` days; `NilAssumption`; `ExprAssumption`: expressions are records whose children are
expressions of smaller depth). The invariant is `TypeOK` itself; the work is in what the functions
compute.

- *RuleMatchesItsInstants.* For every calendar, every rule with bounds in it and every instant,
  `scheduleRuleMatches` agrees with `RuleMeaning`. `OnTheWay` (a place is on the first d steps
  from a if and only if its distance is at most d) turns both `Arc` and `Window` into comparisons;
  `RangeIsArc` and `RangeIsWindow` are the inclusive and the half-open case, in order and wrapped;
  `MinuteOfDay` shows that hour and minute make up the minute of the day, `CalendarType` that every
  instant has a month and a day of it.
- *ValidRulesAreEvaluated.* Of everything a client can submit for a rule, missing bounds, unknown
  types and dates that are no dates included, `validateRule` accepts only rules of `RuleType`, so the
  first theorem applies. `TextOrder`: between two places of the string order lie the days from the
  first text not below to the last not above.
- *ValidIsWellTyped*, *EvaluationIsMeaning.* The same for expressions: what `validateExpr` accepts is
  well-formed at every depth, and what is well-formed is evaluated to the instants it denotes. A
  recursive function is defined by CHOOSE, so its equation has to be earned: `Recursion` shows that
  equations which only look at smaller depths have a solution (for each depth there is a function that
  satisfies them below it, two of these agree there, and the values on the diagonal solve them
  all), `TreeRecursion` that a step from the values at the children is such an equation, and
  `Evaluation`, `Validation`, `Denotation` and `Typing` apply it to the four functions. The library's
  induction theorems have an operator as a parameter, which the installed provers cannot
  instantiate; `Smallest` (a set of numbers has a least one, from well-foundedness) replaces them,
  and `Induction` states its consequence for a *set* of expressions instead of a predicate.
- *TypeCorrect*, *ScheduleKept* (`CheckMeansSchedule`). The stored expression was validated, hence
  is well-formed, hence evaluated to its meaning.

## 7. Only model-checked

Liveness (`DeadDeviceDetected`, `LockoutEnds`, `StaleRightsFade`, `CacheConverges`): fairness and
ENABLED are beyond the prover. Every invariant and every refinement that a passing run checks is also a
theorem.

## 8. Findings

Each is a run that TLC violates; `PROJECT.json` quotes the lines.

1. **gate_lost**: a transition decided on a listed row overwrites a report stored since.
2. **access_scope**: a token restricted to one gate is unrestricted once that gate is deleted,
   since "no policies" means "all rights of the owner".
3. **setup_admin**: setup creates its member with the role MEMBER (`service/auth.go:132`), so the
   "first admin" is none, and no route can make one without an administrator.
4. **pin_quota**: a code with a maximum of uses opens its gate through the unlock route
   (`gate_pin.go:170`) without being counted or checked, although `EXPRESSION_OF_NEED.md:235` says that
   it "se désactive après N utilisations".

Limits of what the passing properties say, each reachable in the model:

- *AllowedAtSomeMoment* compares Trigger with its own rule, which for tokens is not that of the
  documents. A token with policies of its own is judged by them alone: its owner need not have the
  permission when it is created (`handler/credential.go:136` does not ask), nor keep it
  (`service/gate.go:269`), against `EXPRESSION_OF_NEED.md:448` ("Toute action sur un portail vérifie : (1)
  la permission du membre"). An administrator's token without policies triggers every gate, against
  `EXPRESSION_OF_NEED.md:466` ("Un jeton API n'accorde jamais les privilèges implicites d'administrateur"),
  while the web client (`frontend/src/i18n/locales/en.ts:218`) says that it inherits them.
- *CheckMeansSchedule* is about the order of strings. `validateRule` asks of dates only that they are
  there and in that order (`schedule.go:189-195`), and the evaluation compares texts (`schedule.go:275-281`):
  a range written 01/06/2026-31/08/2026, as in `EXPRESSION_OF_NEED.md:79`, is accepted and covers every
  day of a year 2yyy, since "2" sorts between "0" and "3".
- *NoEventBeforeStore* does not say that events keep the order of the table: two handlers, or a
  handler and the worker, may store in one order and announce in the other
  (`gate_status.go:39`), and concurrent pushes of one device are stored in either order.
- *LogoutEndsSession* is about a logout with the current token. One that overlaps a refresh
  (`auth.go:247`) presents a redeemed token and leaves its successor valid
  (`EXPRESSION_OF_NEED.md:462`).
- *CleanIsSynced* is about an operation that is alone on its gate, gets no error, starts with no
  answer outstanding and has no command delivered twice. Two rotations may reach table and broker in opposite
  orders (`service/gate.go:219`; `handler/gate.go:395` promises that the old token is invalid
  immediately), a late answer may be taken for that of the next command (`dynsec.go:174`), and a stop
  between the two stores leaves them apart; what is shown is that the next undisturbed
  operation repairs all three. How long operations wait is not modelled: `Publish` waits for the acknowledgement
  without a limit (`mqtt/client.go:43`) while the mutex of `dynsec.go:88` is held, so while the broker
  is away all creations, rotations and deletions hang; the 5 seconds bound only the wait that follows.
- *OneMemberPerSubject* excepts the three ways named in section 4, all reachable: first logins that
  overlap (`sso.go:196`), an identity that could not be stored (`sso.go:231`), a deleted identity.
- *ConfirmedCanLogin* is about creations that succeeded. When the second statement of setup
  fails, setup is closed and nobody can log in (`setup.go:76`); when an SSO identity cannot be
  stored, its member keeps the username, and after a second failure the suffixed one, and the
  subject is locked out (`sso.go:231`).
- *SetupOnce* counts members made by setup: an SSO login may create one between `HasAny` and
  `Register`, and both stay (`setup.go:68-76`). It counts those that exist: setup is available again after the last one is deleted
  (`EXPRESSION_OF_NEED.md:103`: "disponible qu'une seule fois"), and its mutex serialises one
  process only.

Observations without a run: transitions in a cycle keep a dead device alive
(`EXPRESSION_OF_NEED.md:193`); a non-persistent transition whose delay exceeds the TTL never fires,
because the gate is marked first (`gate_ttl.go:39-40`); the ACL topics of `mqtt/dynsec.go:66` differ from those
of `mqtt/gate.go:19-29` and `docs/mqtt-protocol.md:20`; GateManager judges a token by its owner's
policies (`middleware/rbac.go:54`); renewing a PIN session slides its expiry
(`EXPRESSION_OF_NEED.md:252`); codes beyond the newest page never match; a time_range with only one
bound restricts nothing; an overnight window with a day
filter is split at midnight; the "atomic upsert" of `handler/credential.go:332` is two
statements; ChangeMyPassword updates without a condition on the hash it compared
(`handler/credential.go:202`); SSO identities are looked up by subject only, without the provider
(`repository/postgres/credential.go:109`); the discovery cache holds its lock across an HTTP
request (`sso_oidc.go`); no handler reads what TenantResolver stores in the context; the server's
write timeout of 30 s (`cmd/server/main.go:266`) applies to event streams too; a round of webhook
polls waits for its slowest endpoint before the next starts (`gate_webhook_worker.go:114`).

## 9. Not modelled

The guards of the management routes, due times of the polling worker (planned, section 2). The
request rate limiter: the same counter as in PinAccess. The OIDC discovery cache and the protocol
with the provider: external. The one-time ticket of the event stream. Drivers: one outbound
request or message without state. List and Get routes: reads. Values of passwords and hashing,
configuration parsing, seeding, the device simulator and the web client: I/O or no state of the
system.
`TriggerWithSession`: a stateless check of a JWT. Management routes of PinAccess and AccessControl
are actions, but who may call them (`middleware/rbac.go`) is not.
