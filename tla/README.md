# Verification of saker-common

TLA+ models of the parts of saker-common that keep state under concurrency or
failure, TLC configurations that check them on small instances, and TLAPS proofs
of the results that matter most. All line numbers are of the files under `src/`.

saker-common is a Go library. `warden` is its identity service (tenants,
principals, sessions, credentials, browser login, directory projection, the
Casdoor sidecar); `internaljwt` signs and verifies the tokens Warden issues;
`webhub/notify` is a client that posts notifications with such tokens;
`discovery` registers a service in Redis, Consul or mDNS.

## Inventory

| Component | State | Operations | What makes it correct | What is hard |
|---|---|---|---|---|
| Warden store (`gorm_store.go`, `memory_store.go`) | tables of tenants, principals, sessions, keys, service accounts, device codes, login states | one SQL statement or one locked map access each; a login state is taken by a select and a delete | every statement is atomic, no sequence of them is | several calls interleave statement by statement |
| Identity and sessions (`service.go`, `principal_admin.go`, `directory.go`, `casdoor_directory.go`) | none of its own | CreateSession, ValidateSession, IdentityContext, SwitchTenant, SwitchTeam, Disable/Enable/Approve/RejectPrincipal, logout, directory refresh | who is disabled stays out, who is in was let in, sessions name their own principal and end for a cause | each call is a chain of store calls and acts on what it read before |
| Credentials (`service.go`) | none of its own | create, use and revoke API keys; create and disable service accounts; device flow; client credentials | revoked keys are refused, scopes stay within roles, a device key belongs to its approver | the same, and several writes without a transaction |
| OIDC authority (`oidc_authority.go`) | gate, cached client, back-off | resolveOIDC | one discovery shared by all, every caller answered | cancellation and failure of the caller that runs it for the others |
| OIDC login (`service.go`, `http.go`) | login rows, binding cookies | StartOIDCLogin, callback | the session lands in the browser that started the login, once | replayed callbacks, other browsers, failing provider |
| Token issuance, agent delegation and audit (`service.go`, `http.go`) | policy and its version, agent runs, audit rows | SignInternalJWT, DelegateAgent, RecordAuditEvent, session inspection, UpdatePolicy, UpdatePolicyVersion | a token is within what its actor may do during the call, an agent leads to its actor | roles and policy replaced between the steps, writes that stop half way |
| Internal tokens (`internaljwt`) | none | Sign, Verify | valid tokens verify, old keys retire | clocks that differ around the change of the month |
| Notification client (`webhub/notify`) | cached token and expiry | Notify | tokens are good when used, one request per token, every call returns | concurrent callers behind one lock held across requests, time passing between check and use |
| Directory reconciler (`reconciler.go`, `casdoor_directory.go`) | cancel function, loop | Start, Stop, passes | removals reach Warden in the end, passes provision nobody | passes interleave with sign-ins; Stop may not wait; the host's context may end the loop alone; failing passes |
| Service registration (`discovery`: Redis, Consul, mDNS) | connections, tickers, loops, the entry in Redis, Consul's list | StartFromEnv, heartbeat, MultiRegistration.Stop | the entry lives while the service does, and no longer; nothing runs on after Stop | outages, broken connections, lost replies, a hung Redis that carries out later what it was sent, a provider that fails beside one that does not |
| Casdoor manager (`casdoor.go`) | started flag, process | Start, Shutdown | no sidecar left behind, a started manager is bootstrapped | callers overlap outside the lock, processes die |
| Role policy (`policy.go`, `internaljwt/permissions.go`) | none | roles and actions to scopes | scopes follow the policy, promotions lose none | pure functions, a configuration read in map order |
| OIDC token validation (`oidc.go`, `oidc_client.go`) | none | discovery, signatures, claims | library calls | parsing |
| HTTP routing, notifier, mailer, templates, proxy, packet encodings | none | output | | wording and I/O |

How they interact: HTTP handlers call the Service; every Service call runs on the
caller's goroutine and reaches the shared store by separate statements, so any two
calls interleave between statements. ValidateSession may call the directory and
write what it answers. The reconciler's goroutine makes the same writes from a
ticker. The browser login needs the shared OIDC client. Tokens signed by Warden
are verified by services with clocks of their own. The host replaces the policy and its
version by two calls while tokens are signed. The host of the library runs the
Casdoor manager and the service registration beside it.

## Modules

| Module | Stands for | State and code |
|---|---|---|
| `WardenStore` | the statements on tenants, principals and sessions | `tenantStatus`, `status`, `session` are the tables; each operator is one statement of `gorm_store.go` |
| `WardenIdentity` | the service's calls on them | `req` holds each call's program point and the records it has read; one action per statement |
| `SessionLedger` | abstract: the life of session IDs | issued once, moved among one user's projections, ended for good |
| `MCIdentity` | instances of `WardenIdentity` | sets of projections, symmetry |
| `WardenCredentials`, `MCCredentials` | keys, service accounts, device codes, client credentials, token validation | `account`, `key`, `device` tables, `roles` of the principals, the Service's `policy`, `call` as `req` above |
| `RolePolicy` | the tables of `policy.go` and `permissions.go` | operators from role keys, actions and audiences to scopes; no state |
| `TokenIssuance`, `MCIssuance` | what Warden answers to a session: tokens, agents' tokens, inspections, audit rows | `policy` and `version` of the Service, the `agent`, `run` and `audit` tables, `call` as above |
| `OidcAuthority` | `resolveOIDC` | `gate` and `queue` are the channel of one and those blocked on it |
| `OidcLogin`, `MCOidcLogin` | login start and callback | `row` is the login table, `jar` the browsers' cookies, `call` the callbacks in flight |
| `InternalTokens` | signing and verifying around the change of the month | `now`, each hub's `drift`, the `tokens` issued |
| `NotifyClient` | the token cache and its mutex | `mu`, `cachedToken`, `cachedExpiry`, callers' points |
| `DirectoryReconciler` | reconcile loops beside sign-ins of the same users | `cancel`, the loops and the contexts they run in, one worker record per loop or sign-in |
| `ServiceRegistration` | registration in Redis | the owner, the loop, ticker, command and attempt, connection, and Redis with its entry and the commands it may still carry out (`late`) |
| `MultiRegistration` | Redis beside mDNS or Consul, started and stopped by one owner | `step` and `place` are the owner's loop over the providers, `reg` the second registration, its loops, socket or request |
| `CasdoorManager` | the sidecar manager | `started`, `cmd`, processes, where each caller is |
| `ServiceLease` | abstract: a listing in the directory | granted while registering, prolonged while it lasts, then running out, but for requests made before that are carried out late |
| `WardenIdentity_proofs`, `WardenCredentials_proofs`, `TokenIssuance_proofs`, `InternalTokens_proofs`, `NotifyClient_proofs`, `MultiRegistration_proofs` | theorems of one component each | see below |
| `Oidc_proofs`, `Casdoor_proofs` | theorems of `OidcLogin` and `OidcAuthority`, of `DirectoryReconciler` and `CasdoorManager` | the second component's names carry the prefix `Authority` or `Manager`, so that one module can extend both |

`WardenIdentity` extends `WardenStore` and instantiates `SessionLedger`; the MC
modules extend what they instantiate; each proof module extends its component's
module and TLAPS. `TokenIssuance` extends `RolePolicy`; `MultiRegistration` extends
`ServiceRegistration`, whose actions it composes with the second provider's, and
instantiates `ServiceLease` with the caller's place, the Redis entry and the
commands that Redis may still carry out.

Variables called history (`revoked`, `barred`, `cause`, `vouched`, `missed`,
`disturbed`, `bootstrapped`, `past`, `seen`, `left` and the like) record what happened for the properties;
no guard of an action of the code reads them. Operators whose comment calls them
faulty, or a program that lacks a step, are variants of the definition that follows
them; no specification uses them. They are there to show that the properties tell
the code from a plausible slip.

### What the models leave out

* `WardenIdentity`: the organisation check of `SyncDirectorySnapshot`
  (directory.go:28-30), audit rows, notifications and mail; a directory request is
  one atomic answer; of several projections that a sign-in could pick, any listed
  one is picked.
* The reconciler is a module of its own with one tenant. It would multiply the
  states of `WardenIdentity` without adding statements that are not already there.
* `WardenCredentials`: a principal is active or disabled; session validation is one
  step, since `WardenIdentity` has it in detail. Roles and policy are kept apart as in
  the code: a call reads a principal's set of roles in one step and looks up what the
  policy allows them in another (for a key that signs, service.go:992 and 785 with the
  touch at 999 between), so roles of one moment may meet the policy of a later one. A
  policy gives each set of roles its scopes; how it does so is in `RolePolicy`.
* `DirectoryReconciler`: the context given to Start is one that only the host ends.
  A loop whose context has ended leaves `cancel` set, and Start does nothing until a
  Stop (reconciler.go:30); the removals are promised while `Reconciling` holds only.
* `TokenIssuance`: principals exist and have sessions; a hub's call is one of the
  four operations; claims other than scopes, version and identity are left out.
* `OidcLogin`: tokens, nonces and PKCE verifiers are the identity of the attempt
  they were made for; the provider returns codes for whoever authenticated.
* `InternalTokens`: signatures are the period of the key, time is counted in ticks.
* `ServiceRegistration`: Go code and an answering Redis take no time, so a tick
  passes only when every goroutine waits. A hung Redis accepts connections and
  answers when it recovers; writing a command takes no step, so a command on an open
  connection is one that has been sent. A canceled context stops a dial that has not
  begun and nothing else (redis.go:91-112). A command whose connection is cut is at
  once, later or never carried out; a crash of Redis loses it. The AUTH of a
  connection is part of dialing it: it may be refused or cut off, and then no
  connection is kept. A silent partition counts as a hung Redis. Late SADD and
  PUBLISH are left out: they leave the entry alone.
* `MultiRegistration`: the second provider takes no time of its own; a Consul request
  is answered some day and may have been carried out although it failed.
* `CasdoorManager`: a killed child is gone; the leader lock and the bootstrapper
  answer as they like, and answer in the end.
* Not modelled at all: OIDC document and signature checks, routing and origin
  checks, teams and the administrators' listings, notifier, mailer, templates, proxy
  paths, mDNS and Consul encodings. They have no state that calls share, or only
  write text.

## What is checked

Runs that pass:

| Run | Question | Bounds | Size |
|---|---|---|---|
| `identity_admin` | Does a disable hold against everything that overlaps it? | 2 principals, 2 session IDs, 3 concurrent calls, store errors | 1.8 million states |
| `identity_directory` | Do sessions and statuses stay consistent under sign-in by approval, refresh, blocking and outages, is everybody who is admitted let in by somebody, and does the service implement `SessionLedger`? | 1 user in 2 tenants, 1 session ID, 2 calls, 1 directory change | 1.8 million |
| `credentials` | Keys and service accounts against revocation, disabling and calls that stop between writes; the device flow against the same; what is put on a key and signed from it while roles and the policy are replaced between any two reads | 1 owner, 1 key, 1 created and 1 projected account, 2 codes; 3 calls and 2 changes of a status, or 2 calls and 2 to 3 changes of roles and policies (2 sets of roles, every policy over 1 scope) | 1.4 million |
| `token_issuance` | Are tokens within their actor's roles and policy, and do agents lead to their actors, while roles and policy are replaced and writes stop half way? | 2 users in 2 tenants, 2 calls, 3 runs of which 1 may be named, 2 configurations, 3 sets of roles, 1 change | 1.6 million |
| `authority_shared` | The shared discovery, with liveness, and with a provider that may never answer | 3 callers that come again and again | 4 800 |
| `oidc_login` | Browser login | 2 browsers, a Go client, 2 users, 2 attempts, 2 callbacks | 2.3 million |
| `tokens_periods` | Keys around the change of the month | 3 months of 8 ticks, 2 hubs, lifetimes 2, 3 and 12, skew 1 | 220 000 |
| `notify_cache` | The token cache, where the server reports `expires_at`, with liveness | 3 callers, time to 12, lifetime 5, margin 2 | 21 000 |
| `reconcile` | Removals reach Warden, with liveness, while the reconciler is stopped and started | 2 users, 2 loops whose contexts may end, 2 sign-ins, 1 directory change, 1 failure | 890 000 |
| `registration` | The Redis entry and its heartbeat beside mDNS or Consul, in either order, with liveness; does it implement `ServiceLease`? | TTL 3, interval 1, 2 outages, 2 broken connections or errors | 940 000 |
| `casdoor` | Concurrent Start and Shutdown, with liveness | 3 callers, 3 starts, every configuration | 2 400 |

The bounds are the smallest in which the hazards meet: an overlap needs the call
that reads, the one that writes in between and a third that sees the result (three
calls, or two where the third is the environment); a signature beyond its moments
needs a role taken away and a policy widened after it was read; a move needs two tenants; a
replay needs two callbacks; a lapse needs an interval of which three fit in a TTL
and an outage longer than two of them; a registration that fails and is then listed
by a late command needs both its attempts cut while Redis hangs; old and new keys need three months. In
`credentials` the device flow is combined with itself and the environment only
(`OneKind` in `MCCredentials`): its tables are touched by no other call. The run
covers changes of statuses under one generous policy (`UnderStatuses`) and changes
of roles and of the other policies (`UnderRules`), not both at once. Where the kinds of
calls and of changes meet, in the keys and the statuses, the proofs cover them
without these bounds. There the third change is offered around a single use of a
key: a scope that was allowed at no moment of the call is signed only if the policy
narrows before the call, and during it the role is taken away and the policy widens.
`RegistrationLong.cfg` is the `registration` run with TTL 6, interval 2 and one
broken connection.
The run checks the properties, not the type invariants: those are theorems, or a
conjunct of one, wherever a module has proofs.
Symmetry sets are used only in runs without liveness properties.

Deadlock is checked except where the system may stop: calls of a fixed set of
requests all returned (`identity_*`, `credentials`, `token_issuance`), the end of the modelled time
(`tokens_periods`), a stopped reconciler with spent budgets, a Casdoor manager that
refuses its configuration.

One run shows a disagreement between the code and a test of the repository:
`device_code_once` finds two exchanges of one device code that both issue a key
(service.go:363-386), where service_test.go:359 expects a code to issue its token
once. The store would have to compare the status when it writes.

More configurations reproduce, in seconds, races and mismatches met while modelling.
They are no part of the runs above; each ends in a counterexample:

| Configuration | Module, property | What happens |
|---|---|---|
| `ManualDisable.cfg` | `MCIdentity`, `ManualDisableRetained` | a directory refresh writes back the status it read before an administrator's disable (directory.go:61-77; docs/oidc-directory.md:62-63 says that manual disables are retained) |
| `TenantDisable.cfg` | `MCIdentity`, `TenantDisableRetained` | the same for a tenant disabled by an operator (directory.go:21-34) |
| `ApproveAfterReject.cfg` | `MCIdentity`, `ApprovalOnlyFromPending` | an approval that checked before a rejection activates the rejected principal (principal_admin.go:79-82) |
| `SessionAfterDisable.cfg` | `MCIdentity`, `DisableRevokesSessions` | a session is stored after the disable purged the principal's sessions and works again when the principal is enabled (service.go:484-509) |
| `IssuanceReload.cfg` | `MCIssuance`, `VersionTellsScopes` | a reload between two reads signs the old policy's scopes under the new version (service.go:708, 1091) |
| `RunReused.cfg` | `MCIssuance`, `RunIsOwn` | a second delegation that names the same run overwrites run and agent of the first (service.go:1062) |
| `PolicyAliases.cfg` | `MCIssuance`, `ReloadIsStable` | a configuration that names one role by its key and by its shorthand grants what the order of a map iteration decides (policy.go:108) |
| `NotifyWarden.cfg` | `NotifyClient`, `AskedOncePerToken` | Warden's own answer has no `expires_at`, which decodes to 1970, so every notification asks for a token (client.go:168) |
| `FailedListed.cfg` | `MultiRegistration`, `FailedIsUnlisted` | Consul lists a service whose registration returned an error, since the answer was lost (consul.go:71) |
| `StopTwice.cfg` | `MultiRegistration`, `EveryCleanStopUnlists` | a second Stop returns no error although the first could not deregister (registration.go:32-47) |

What `notify_cache` checks therefore holds of servers that report the expiry, as
those of the client's tests do, and not of Warden's present handler.

`PROJECT.json` lists for every property a variant of a definition under which the
same run finds the property violated.

### Fairness

* `OidcAuthority`: each caller's own steps are weakly fair: a goroutine that can run
  runs. A discovery may hang; that it ends, since the factory's HTTP client has a
  timeout, is the hypothesis `FactoryReturns` of `EveryCallAnswered` alone.
* `DirectoryReconciler`: the ticker fires and started calls go on; failures and
  directory changes are bounded, so a pass without failure comes. Nothing makes the
  host keep its context: that it does is the hypothesis `Reconciling`.
* `NotifyClient`: whoever holds the mutex goes on, since the HTTP client has a timeout;
  `Lock` is strongly fair, since a Go mutex hands itself to a waiter that was passed
  over for a millisecond.
* `MultiRegistration`: goroutines that can run do, time passes, and an outage of
  Redis ends. The last one is needed: the heartbeat's context has no deadline, so
  a Stop behind a hung Redis waits as long as Redis hangs (registration.go:36). Consul
  answers in the end, with success or not. A late command is not fair: Redis may
  never get to it.
* `CasdoorManager`: a Start goes on: its health wait ends by its timeout at the
  latest (casdoor.go:151).

Nothing else is fair; callers need not call and the environment need not change.

## What is proved

For any values of the constants that satisfy the modules' assumptions:

| Theorem | Says | Argument |
|---|---|---|
| `WardenIdentity_proofs!TypeCorrect` | `TypeOK` always | `Control`: which locals are set at each point of each call, without which the records of a call cannot be typed |
| `WardenIdentity_proofs!SessionsConsistent` | a stored session names an existing principal and its tenant | `Inv` adds that what a call is about to store is backed by a principal that exists; principals are never deleted |
| `WardenIdentity_proofs!LedgerImplemented` | the service implements `SessionLedger` | every step changes the sessions in one of five ways (`Effects`), each a step of the ledger or a stutter |
| `WardenIdentity_proofs!LocalRevocationLasts` | no call begun after a disable is answered as a principal that only Warden writes, whatever a directory does to others | `Cleared`: nobody of Warden's own whose disable preceded a call is among the records the call passed as admitted, and a call that a refresh may revive is about a directory's principal |
| `WardenIdentity_proofs!RevocationLasts` | `RevocationHolds` where no directory writes principals | the case `Managed = {}` of the theorem before |
| `WardenIdentity_proofs!DisableHasCause`, `AdmissionIsListed`, `AdmissionIsVouched` | a disabled principal was ruled out, an admitted one was listed and vouched for | `Reasons`, see below |
| `WardenIdentity_proofs!SessionEndHasCause` | a session ends by logout, expiry or a cause | `Reasons`: the row a call is about to drop had expired, the principals it purges are ruled out |
| `Oidc_proofs!GateKept`, `DiscoveryShared` | slot, line and callers agree; one discovery at a time, by the holder of the slot, and none once there is a client | `AuthorityInv`: the line holds every waiting caller once and nobody else, and whoever discovers saw no client under the slot |
| `Oidc_proofs!BackoffEarned` | only a provider's failure starts the back-off | the same invariant, step by step |
| `Oidc_proofs!LoginLands`, `StateTakenOnce`, `ConsumedByOwn` | the login's three properties | cookies exist only at the browser that started an attempt, a selected row is the caller's own, and at most one callback has deleted it |
| `InternalTokens_proofs!ValidTokensAccepted`, `OldKeysRetire` | acceptance and retirement of keys | a token's key is of the period in which it was signed, and the arithmetic of periods, lifetimes and skew with TTL + 2 Skew < Month |
| `NotifyClient_proofs!TokensHandedOutFresh`, `TokenAskedOnce` | the cache's two properties; the second if the server reports the expiry | the mutex is held by whoever is past the check, and the cached expiry is the token's |
| `WardenCredentials_proofs!DeviceKeysWereApproved`, `ServiceKeysListed`, `KeysGranted` | the three properties of keys and rows | `Shape` ties each call's locals to its point; rows only grow (`Steady`), an account that is being created is of one call only, and whoever stores a key has its scopes from a moment of its call (`Limits`) |
| `WardenCredentials_proofs!RevokedKeysRefused`, `SignedScopes`, `DisabledAccountsStayOff` | the three properties of what is answered | `Use`: what a use of a key knows, against what was so when it began; a revocation lasts, and what was off stays off or is forgotten when it is turned on. `Limits`: roles that a call has read and scopes that it has looked up are of the call's record of roles and policies, which only grows (`PastKept`) |
| `TokenIssuance_proofs!TokensWithinActor`, `QuietAnswers` | a token's scopes and version | what a call's scopes are from was in force since it began (`Met`); a call that no reload met has policy and version of one load (`Quiet`) |
| `TokenIssuance_proofs!RunsHaveAgents`, `AgentsTraceable` | a run has its agent, an agent's token leads to its actor | a drawn run is in one call only, whose rows it is, and the audit row is written last |
| `TokenIssuance_proofs!PromotionsKeepScopes` | the default policy loses no scope on promotion | the tables of `RolePolicy`, set by set; a fact about a table, so no run repeats it |
| `Casdoor_proofs!StrayLoopsEnd`, `ReconcilerProvisionsNobody` | at most one loop that is not canceled; a pass stores no new user and no session | a loop's records come from what the store listed, and no row is deleted |
| `Casdoor_proofs!NoSidecarLeft` | the process that runs is the one a started manager knows | inductive with the types: every place that forgets `cmd` has killed it first |
| `Casdoor_proofs!ManagerBootstrapped` | a manager left started has been bootstrapped | inductive with the types: whoever gives a start up takes `started` back |
| `MultiRegistration_proofs!TypeCorrect`, `RegistrationHolds` | the types; the invariant of the Redis registration | `Progress` and `Alive`, see below |
| `MultiRegistration_proofs!LapseIsEarned` | `LapseNeedsMissedBeats`, for every TTL of at least three intervals | an entry that reaches 0 contradicts `Alive` unless two heartbeats are late |
| `MultiRegistration_proofs!EndIsSilent`, `CleanStopIsClean` | after the end nothing is opened or sent, and the entry grows only by a late command, which is used up; a clean first Stop left no listing | `Progress` and `Second`: who is stopped or failed has no command, heartbeat or request left, and a listing left behind has its error first in the results |
| `MultiRegistration_proofs!LeaseImplemented` | the registration implements `ServiceLease` | by `Progress` a command tells where its caller is, so each end of a command is one step of the lease or none, and one that is cut off leaves a request of the kind its caller's place permits |

`SessionMatchesPrincipal` is not inductive: a step of `SwitchTenant` stores a
principal that an earlier step read, so the invariant has to speak about the locals
of every call in flight, and those have types only at the points where the code has
set them. That is why `TypeCorrect` and its `Control` come first; the revocation
proof reuses them. `TypeOK` of the other modules is a conjunct of their `IInv`.

`DisabledForCause` is not inductive either. A refresh writes what it computed from
an answer it asked for several statements ago, so `Reasons` speaks of every call in
flight: whom it is about to disable, somebody ruled out (`Accused`), what it was told
of its own principal agrees with what it is about to write (`Asked`), whom it found
active somebody let in (`Trusted`), and a session it is about to drop has expired or
is gone (`Gone`). `Grounds` says the same of the tables and of the directory. Causes
and vouchers are only ever added, so a step of one call leaves the others' reasons
standing (`SoundKept`), and each lemma is about the call that moves.

What a service leaves to Redis when its connections are cut cannot be taken back:
after a Stop the entry may be prolonged once for each such command, and a
registration that failed may be listed for one TTL more. `SilentAfterStop` and
`ServiceLease` say that this is all; the code closes its connections but does not
wait for them.

That a cut connection costs no entry is arithmetic over several actors. `Alive` says
what is left of a running service's entry: TTL - Interval and the ticker's rest if no
heartbeat is late, one Interval less if one is, where `Behind` counts the heartbeats
missed in a row, the one under way and the firing that waits. A tick takes one from
both sides, a firing makes one more late, a heartbeat that comes through, even after
its caller gave it up, gives the whole TTL back. With 3 Interval <= TTL the entry cannot reach 0 before two are late.

The properties of `WardenCredentials` need one invariant together: that a disabled
account stays off needs its rows to stay, which needs an account that is being
created to belong to one call, which needs the points and locals of every call. So
`IInv` is `Base` (types, shapes, approvals), `Creations`, `Limits` (roles and scopes
that calls hold), `Tables` and `Uses`, each
kept by every step given those before it; `Steady`, `KeysStay` and `PastKept` say
once what no step does to the rows, the keys and the past, and the rest of each proof
is about the few calls that prepare or use them.

Every invariant, action property and refinement that a passing run checks is proved.
Only model-checked are the liveness properties, for which the prover has neither
fairness nor ENABLED: `EveryCallAnswered` and `CanceledCallerLeaves` of
`OidcAuthority`, `NotifyReturns`, `RemovalIsReconciled`, `StopEndsRegistration`,
and `StartReturns` of `CasdoorManager`.

The proofs assume of the constants what the modules' ASSUMEs say and no more, with
two exceptions in the theorems themselves: `RevocationLasts` assumes that no
directory writes principals (a refresh that read the status before a disable writes it
back, as `ManualDisable.cfg` shows), and
`TokenAskedOnce` that the server reports the expiry.

## Plan

Done, in this order: `WardenStore` and `WardenIdentity` with `SessionLedger`,
`WardenCredentials`, `OidcAuthority`, `OidcLogin`, `InternalTokens`, `NotifyClient`,
`DirectoryReconciler`, `ServiceRegistration`, `CasdoorManager`; `MultiRegistration`,
`RolePolicy`, `TokenIssuance`, `ServiceLease`; the proofs above.

Next:

1. An abstract specification of keys (granted, used, revoked) implemented by
   `WardenCredentials`, from the invariants it has.
2. What a directory-owned principal is still promised after a disable, as a theorem:
   the refresh that revives it must have begun before the disable.
3. Teams and their listings in `WardenStore`, and the organisation check of
   `SyncDirectorySnapshot`.
4. The policies of `WardenCredentials` as tables of `RolePolicy` instead of any
   function from sets of roles to scopes.
