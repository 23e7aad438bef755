------------------------- MODULE WardenCredentials -------------------------
(***************************************************************************)
(* Warden's long-lived credentials: API keys, device codes and service     *)
(* accounts, and the internal tokens signed from them.                     *)
(*                                                                         *)
(* As in WardenIdentity a request is a sequence of steps with at most one  *)
(* store call each, over tables that other requests change in between.     *)
(* ValidateSession is one step here (WardenIdentity has its parts): it     *)
(* admits a principal that is active, in a tenant that is, and returns its *)
(* roles.  What roles allow is looked up in the policy, which the host may *)
(* have replaced since the roles were read.  One tenant; a set of roles is *)
(* a value, and a policy gives the scopes of each (RolePolicy has how).    *)
(***************************************************************************)
EXTENDS Naturals

CONSTANTS
    Users,          \* principals of people
    RoleSets,       \* the sets of roles a principal may have
    Managers,       \* those that manage service accounts
    AccountRoles,   \* those of every service account
    Policies,       \* the policies that the host may load
    Created,        \* service account IDs that CreateServiceAccountToken may draw
    Projected,      \* service accounts of external OAuth clients
    KeyIds,         \* API key IDs that may be drawn
    Codes,          \* device codes that may be drawn; each has its own user code
    Scopes,
    Requests,       \* the calls that may be made, each once
    Ops,            \* the operations a run offers
    Events,         \* what may happen around the requests
    MaxEvents,      \* bound on the changes of roles and statuses by others
    StoreMayFail,   \* whether store calls may fail and callers may hang up
    Unissued,       \* marks an ID that was never drawn
    None            \* an unset local

VARIABLES
    tenant,         \* the status of the tenant
    status,         \* principals.status of people and service accounts
    account,        \* the service_accounts table
    key,            \* the api_keys table
    device,         \* the device_codes table
    roles,          \* principals.roles of people
    policy,         \* Service.policy: the scopes that roles allow
    call,           \* the locals of every request
    events,         \* how many of the bounded events happened
    \* History, read by no guard:
    origin,         \* the device code a key was issued for
    approvals,      \* <<u, c>> where u asked to approve the user code of c
    granted,        \* per key, what its creator was allowed at the moments of
                    \* the call that made it
    off,            \* accounts whose disabling completed and nobody enabled since
    past            \* per call: the accounts off and the keys revoked when it
                    \* began, the roles and the policies in force since

tables == <<tenant, status, account, key, device>>
rules == <<roles, policy>>
history == <<origin, approvals, granted, off, past>>
vars == <<tables, rules, call, events, history>>

Accounts == Created \cup Projected
Holders == Users \cup Accounts
SessionOps == {"createKey", "createAccount", "disableAccount", "revokeKey", "approve"}
KeyOps == {"useKey", "validateKey"}
Operation == SessionOps \cup KeyOps \cup {"exchange", "client"}
Event == {"expiry", "roles", "policy", "status", "tenant"}

KeyRow == [owner : Holders, scopes : SUBSET Scopes, status : {"active", "revoked"},
           expired : BOOLEAN]
AccountRow == [status : {"active", "disabled"}, createdBy : Users \cup {None}]
DeviceRow == [status : {"pending", "approved", "consumed"}, principal : Users \cup {None},
              expired : BOOLEAN]

Finished == {"ok", "denied"}
Point == Finished \cup
    {"idle", "authorize", "scope",
     "putPrincipal", "putAccount", "putKey",              \* creating keys and accounts
     "disableAccount", "disablePrincipal", "revokeKey",
     "readUserCode", "putApproval",                       \* ApproveDeviceAuth
     "readCode", "consume",                               \* ExchangeDeviceToken
     "readKey", "readOwner", "touch", "sign",             \* SignInternalJWT, ValidateToken
     "readTenant", "putTenant",                           \* client credentials
     "projectPrincipal", "projectAccount"}

Call ==
    [pc : Point,
     op : Operation \cup {None},
     who : Holders \cup {None},             \* the principal the call acts for
     arg : Codes \cup KeyIds \cup Accounts \cup {None},
     roles : RoleSets \cup {None},          \* as the call read them
     scopes : SUBSET Scopes]                \* asked for, then granted

Idle == [pc |-> "idle", op |-> None, who |-> None, arg |-> None, roles |-> None, scopes |-> {}]

Past == [off : SUBSET Accounts, revoked : SUBSET KeyIds,
         held : [Users -> SUBSET RoleSets], policies : SUBSET Policies]
NoPast == [off |-> {}, revoked |-> {}, held |-> [u \in Users |-> {}], policies |-> {}]

ASSUME CredentialsAssumption ==
    /\ AccountRoles \in RoleSets
    /\ Policies \subseteq [RoleSets -> SUBSET Scopes]
    /\ Ops \subseteq Operation /\ Events \subseteq Event
    /\ MaxEvents \in Nat
    /\ StoreMayFail \in BOOLEAN
    /\ Created \cap Projected = {} /\ Users \cap Accounts = {}
    /\ None \notin Holders \cup Codes \cup KeyIds \cup Operation \cup RoleSets
    /\ Unissued \notin KeyRow \cup AccountRow \cup DeviceRow

TypeOK ==
    /\ tenant \in {"none", "active", "disabled"}
    /\ status \in [Holders -> {"none", "active", "disabled"}]
    /\ account \in [Accounts -> AccountRow \cup {Unissued}]
    /\ key \in [KeyIds -> KeyRow \cup {Unissued}]
    /\ device \in [Codes -> DeviceRow \cup {Unissued}]
    /\ roles \in [Users -> RoleSets] /\ policy \in Policies
    /\ call \in [Requests -> Call]
    /\ events \in 0..MaxEvents
    /\ origin \in [KeyIds -> Codes \cup {None}]
    /\ approvals \subseteq Users \X Codes
    /\ granted \in [KeyIds -> SUBSET SUBSET Scopes]
    /\ off \subseteq Accounts
    /\ past \in [Requests -> Past]

\* People exist and have roles.  A tenant that a client is the first to name has
\* no people; others may have keys from earlier.
Init ==
    /\ tenant \in {"none", "active"}
    /\ status = [h \in Holders |-> IF h \in Users THEN tenant ELSE "none"]
    /\ account = [a \in Accounts |-> Unissued]
    /\ roles \in [Users -> RoleSets] /\ policy \in Policies
    /\ key \in [KeyIds -> {Unissued} \cup
           {[owner |-> u, scopes |-> policy[roles[u]], status |-> "active", expired |-> FALSE] :
               u \in IF tenant = "active" THEN Users ELSE {}}]
    /\ device = [c \in Codes |-> Unissued]
    /\ call = [r \in Requests |-> Idle]
    /\ events = 0
    /\ origin = [k \in KeyIds |-> None]
    /\ approvals = {}
    /\ granted = [k \in KeyIds |-> IF key[k] = Unissued THEN {} ELSE {key[k].scopes}]
    /\ off = {}
    /\ past = [r \in Requests |-> NoPast]

----------------------------------------------------------------------------
(* Moving a request.                                                       *)

At(r, point) == call[r].pc = point
Running(r) == call[r].pc \notin Finished \cup {"idle"}

Become(r, locals) == call' = [call EXCEPT ![r] = locals]
Goto(r, point) == Become(r, [call[r] EXCEPT !.pc = point])

Deny(r) ==
    /\ Become(r, [Idle EXCEPT !.pc = "denied"])
    /\ past' = [past EXCEPT ![r] = NoPast]
    /\ UNCHANGED <<tables, rules, events, origin, approvals, granted, off>>

UsesKey(r) == call[r].op \in KeyOps

Succeed(r) == Become(r, [Idle EXCEPT !.pc = "ok"])

Revoked == {k \in KeyIds : key[k] # Unissued /\ key[k].status = "revoked"}

\* Only uses of keys look back at what was off and revoked.
Now(op) ==
    [off |-> IF op \in KeyOps THEN off ELSE {},
     revoked |-> IF op \in KeyOps THEN Revoked ELSE {},
     held |-> [u \in Users |-> {roles[u]}], policies |-> {policy}]

Begin(r, op, who, arg, scopes, point) ==
    /\ op \in Ops
    /\ At(r, "idle")
    /\ Become(r, [pc |-> point, op |-> op, who |-> who, arg |-> arg, roles |-> None,
                  scopes |-> scopes])
    /\ past' = [past EXCEPT ![r] = Now(op)]
    /\ UNCHANGED <<tables, rules, events, origin, approvals, granted, off>>

StartCreateAPIKey(r) ==
    \E u \in Users, S \in SUBSET Scopes : Begin(r, "createKey", u, None, S, "authorize")
StartCreateServiceAccount(r) ==
    \E u \in Users, S \in SUBSET Scopes : Begin(r, "createAccount", u, None, S, "authorize")
StartDisableServiceAccount(r) ==
    \E u \in Users, a \in Accounts : Begin(r, "disableAccount", u, a, {}, "authorize")
StartRevokeAPIKey(r) ==
    \E u \in Users, k \in KeyIds : Begin(r, "revokeKey", u, k, {}, "authorize")
StartApprove(r) == \E u \in Users, c \in Codes : Begin(r, "approve", u, c, {}, "authorize")
StartExchange(r) == \E c \in Codes : Begin(r, "exchange", None, c, {}, "readCode")
StartUseKey(r) == \E k \in KeyIds : Begin(r, "useKey", None, k, {}, "readKey")
StartValidateKey(r) == \E k \in KeyIds : Begin(r, "validateKey", None, k, {}, "readKey")
\* The external provider vouches for the client and its scopes.
StartClientCredentials(r) ==
    \E a \in Projected : Begin(r, "client", a, a, Scopes, "readTenant")

Start(r) ==
    \/ StartCreateAPIKey(r) \/ StartCreateServiceAccount(r)
    \/ StartDisableServiceAccount(r) \/ StartRevokeAPIKey(r)
    \/ StartApprove(r) \/ StartExchange(r)
    \/ StartUseKey(r) \/ StartValidateKey(r) \/ StartClientCredentials(r)

----------------------------------------------------------------------------
(* The calls that present a session.                                       *)

RolesOf(h) == IF h \in Users THEN roles[h] ELSE AccountRoles

SessionAdmits(r) == tenant = "active" /\ status[call[r].who] = "active"

\* Whose roles manage service accounts.
MayManage(r) ==
    call[r].op \in {"createAccount", "disableAccount"} => roles[call[r].who] \in Managers

\* Faulty variants: the account before its principal, and the key before the
\* account.
AccountFirst == [scope |-> "putAccount", putAccount |-> "putPrincipal",
                 putPrincipal |-> "putKey", putKey |-> "ok"]
KeyFirst == [scope |-> "putPrincipal", putPrincipal |-> "putKey",
             putKey |-> "putAccount", putAccount |-> "ok"]

\* CreateServiceAccountToken writes three rows, one after the other.
CreationOrder == [scope |-> "putPrincipal", putPrincipal |-> "putAccount",
                  putAccount |-> "putKey", putKey |-> "ok"]

After(r, point) ==
    IF CreationOrder[point] = "ok" THEN Succeed(r) ELSE Goto(r, CreationOrder[point])

\* Where the call goes once its caller is admitted.
FirstStep ==
    [createKey |-> "scope", createAccount |-> "scope", disableAccount |-> "disableAccount",
     revokeKey |-> "revokeKey", approve |-> "readUserCode"]

Authorize(r) ==
    /\ At(r, "authorize")
    /\ \/ /\ SessionAdmits(r) /\ MayManage(r)
          /\ Become(r, [call[r] EXCEPT !.pc = FirstStep[call[r].op], !.roles = roles[call[r].who]])
          /\ approvals' = IF call[r].op # "approve" THEN approvals
                          ELSE approvals \cup {<<call[r].who, call[r].arg>>}
          /\ UNCHANGED <<tables, rules, events, origin, granted, off, past>>
       \/ ~(SessionAdmits(r) /\ MayManage(r)) /\ Deny(r)

\* scopesForRoles: the roles that the call has read, by the policy of now.
AllowedScopes(r) == policy[call[r].roles]

\* Faulty variant: a manager of service accounts may put any scope on a key.
AskedByRank(r) ==
    call[r].op = "createKey" => call[r].scopes \subseteq AllowedScopes(r)

\* Whoever creates a key asks for its scopes.
AskedWithin(r) == call[r].scopes \subseteq AllowedScopes(r)

\* Random account IDs: nobody else has it.
Fresh(a) ==
    /\ status[a] = "none" /\ account[a] = Unissued
    /\ \A q \in Requests : call[q].arg # a

CheckScopes(r) ==
    /\ At(r, "scope") /\ call[r].op \in {"createKey", "createAccount"}
    /\ \/ /\ AskedWithin(r)
          /\ \/ call[r].op = "createKey" /\ Goto(r, "putKey")
             \/ /\ call[r].op = "createAccount"
                /\ \E a \in Created :
                      /\ Fresh(a)
                      /\ Become(r, [call[r] EXCEPT !.pc = CreationOrder["scope"], !.arg = a])
          /\ UNCHANGED <<tables, rules, events, history>>
       \/ ~AskedWithin(r) /\ Deny(r)

\* A device's key gets all that its owner's roles allow.
GrantDeviceScopes(r) ==
    /\ At(r, "scope") /\ call[r].op = "exchange"
    /\ Become(r, [call[r] EXCEPT !.pc = "putKey", !.scopes = AllowedScopes(r)])
    /\ UNCHANGED <<tables, rules, events, history>>

PutPrincipal(r) ==
    /\ At(r, "putPrincipal")
    /\ status' = [status EXCEPT ![call[r].arg] = "active"]
    /\ After(r, "putPrincipal")
    /\ UNCHANGED <<tenant, account, key, device, rules, events, history>>

PutServiceAccount(r) ==
    /\ At(r, "putAccount")
    /\ account' = [account EXCEPT ![call[r].arg] =
           [status |-> "active", createdBy |-> call[r].who]]
    /\ After(r, "putAccount")
    /\ UNCHANGED <<tenant, status, key, device, rules, events, history>>

\* The owner of the key that the call creates.
Owner(r) == IF call[r].op = "createAccount" THEN call[r].arg ELSE call[r].who

\* History: what the call's principal was allowed while the call lasted.
RolesDuring(r) ==
    IF call[r].who \in Users THEN past[r].held[call[r].who] ELSE {AccountRoles}
Moments(r) == {p[R] : p \in past[r].policies, R \in RolesDuring(r)}

\* A token is drawn and stored under its hash; an exchange still has to mark
\* its device code.
PutAPIKey(r) ==
    /\ At(r, "putKey")
    /\ \E k \in KeyIds :
          /\ key[k] = Unissued
          /\ key' = [key EXCEPT ![k] = [owner |-> Owner(r), scopes |-> call[r].scopes,
                                       status |-> "active", expired |-> FALSE]]
          /\ origin' = IF call[r].op = "exchange"
                       THEN [origin EXCEPT ![k] = call[r].arg] ELSE origin
          /\ granted' = [granted EXCEPT ![k] = Moments(r)]
    /\ CASE call[r].op = "exchange" -> Goto(r, "consume")
         [] call[r].op = "createKey" -> Succeed(r)
         [] call[r].op = "createAccount" -> After(r, "putKey")
    /\ UNCHANGED <<tenant, status, account, device, rules, events, approvals, off, past>>

\* DisableServiceAccount is two statements in the database store; in the memory
\* store no other step falls between them.
DisableAccountRow(r) ==
    /\ At(r, "disableAccount")
    /\ LET a == call[r].arg IN
       \/ /\ account[a] # Unissued
          /\ account' = [account EXCEPT ![a].status = "disabled"]
          /\ Goto(r, "disablePrincipal")
          /\ UNCHANGED <<tenant, status, key, device, rules, events, history>>
       \/ account[a] = Unissued /\ Deny(r)

DisablePrincipalRow(r) ==
    /\ At(r, "disablePrincipal")
    /\ LET a == call[r].arg IN
       status' = [status EXCEPT ![a] = IF @ = "none" THEN @ ELSE "disabled"]
    /\ off' = off \cup {call[r].arg}
    /\ Succeed(r)
    /\ UNCHANGED <<tenant, account, key, device, rules, events, origin, approvals, granted, past>>

\* Only the owner's own key is found.
RevokeAPIKey(r) ==
    /\ At(r, "revokeKey")
    /\ LET k == call[r].arg
           found == key[k] # Unissued /\ key[k].owner = call[r].who IN
       \/ /\ found
          /\ key' = [key EXCEPT ![k].status = "revoked"]
          /\ Succeed(r)
          /\ UNCHANGED <<tenant, status, account, device, rules, events, history>>
       \/ ~found /\ Deny(r)

----------------------------------------------------------------------------
(* Device codes.                                                           *)

\* Faulty variant: whichever code waits for an approval.
PendingCodes(u) == {c \in Codes : device[c] # Unissued /\ device[c].status = "pending"}

\* GetDeviceCodeByUserCode: user codes are drawn with their device codes, so
\* that of c finds the row of c.
CodesByUserCode(u) == {c \in {u} : device[c] # Unissued}

\* StartDeviceAuth needs no session and is a single store call.
StartDeviceAuth(c) ==
    /\ "approve" \in Ops
    /\ device[c] = Unissued
    /\ device' = [device EXCEPT ![c] =
           [status |-> "pending", principal |-> None, expired |-> FALSE]]
    /\ UNCHANGED <<tenant, status, account, key, rules, call, events, history>>

ReadUserCode(r) ==
    /\ At(r, "readUserCode")
    /\ \/ \E c \in CodesByUserCode(call[r].arg) :
             /\ ~device[c].expired /\ device[c].status = "pending"
             /\ Become(r, [call[r] EXCEPT !.pc = "putApproval", !.arg = c])
             /\ UNCHANGED <<tables, rules, events, history>>
       \/ /\ \A c \in CodesByUserCode(call[r].arg) :
                 device[c].expired \/ device[c].status # "pending"
          /\ Deny(r)

\* UpdateDeviceCode writes status and principal, whatever the row says by now.
UpdateDeviceCode(c, st, u) ==
    device' = [device EXCEPT ![c].status = st, ![c].principal = u]

PutApproval(r) ==
    /\ At(r, "putApproval")
    /\ UpdateDeviceCode(call[r].arg, "approved", call[r].who)
    /\ Succeed(r)
    /\ UNCHANGED <<tenant, status, account, key, rules, events, history>>

ReadCode(r) ==
    /\ At(r, "readCode")
    /\ LET row == device[call[r].arg]
           approved == row # Unissued /\ ~row.expired /\ row.status = "approved" IN
       \/ /\ approved
          /\ Become(r, [call[r] EXCEPT !.pc = "readOwner", !.who = row.principal])
          /\ UNCHANGED <<tables, rules, events, history>>
       \/ ~approved /\ Deny(r)

\* The code is marked only after the key was stored.
Consume(r) ==
    /\ At(r, "consume")
    /\ UpdateDeviceCode(call[r].arg, "consumed", call[r].who)
    /\ Succeed(r)
    /\ UNCHANGED <<tenant, status, account, key, rules, events, history>>

----------------------------------------------------------------------------
(* Using an API key.                                                       *)

ReadKey(r) ==
    /\ At(r, "readKey")
    /\ LET row == key[call[r].arg]
           valid == row # Unissued /\ row.status = "active" /\ ~row.expired IN
       \/ /\ valid
          /\ Become(r, [call[r] EXCEPT !.pc = "readOwner", !.who = row.owner,
                             !.scopes = row.scopes])
          /\ UNCHANGED <<tables, rules, events, history>>
       \/ ~valid /\ Deny(r)

\* Who is to be granted scopes has his roles read with his status.
ReadOwner(r) ==
    /\ At(r, "readOwner")
    /\ \/ /\ status[call[r].who] = "active"
          /\ Become(r, [call[r] EXCEPT !.roles = RolesOf(call[r].who),
                             !.pc = IF call[r].op = "exchange" THEN "scope" ELSE "touch"])
          /\ UNCHANGED <<tables, rules, events, history>>
       \/ status[call[r].who] # "active" /\ Deny(r)

\* A validated key is the answer; to sign is one more step.
AfterTouch(r) == Goto(r, IF call[r].op = "useKey" THEN "sign" ELSE "ok")

\* Faulty variant: the row is written back as it was read.
TouchWholeRow(r) ==
    /\ At(r, "touch")
    /\ key' = [key EXCEPT ![call[r].arg].status = "active"]
    /\ AfterTouch(r)
    /\ UNCHANGED <<tenant, status, account, device, rules, events, history>>

\* TouchAPIKeyLastUsed changes the last_used_at column only.
Touch(r) ==
    /\ At(r, "touch")
    /\ AfterTouch(r)
    /\ UNCHANGED <<tables, rules, events, history>>

\* Faulty variant: the key's own scopes are signed, whatever the roles say now.
SignableOfKey(r) == call[r].scopes

\* A token gets what its key, or the provider of its client, was given and the
\* roles, by the policy of now, still allow.
Signable(r) == call[r].scopes \cap AllowedScopes(r)

\* An empty set of scopes is not signed.  What was signed from a key stays on
\* record: the key, its owner and the scopes.
Sign(r) ==
    /\ At(r, "sign")
    /\ \/ /\ Signable(r) # {}
          /\ IF UsesKey(r)
             THEN Become(r, [call[r] EXCEPT !.pc = "ok", !.scopes = Signable(r)])
             ELSE Succeed(r)
          /\ UNCHANGED <<tables, rules, events, history>>
       \/ Signable(r) = {} /\ Deny(r)

----------------------------------------------------------------------------
(* Client credentials: the account of an external client is projected      *)
(* active before its token is signed.                                      *)

\* Every use under way that had seen a switched off may meet it on again.
UsesUnderWay == {r \in Requests : UsesKey(r) /\ Running(r)}

TurnedOn(a) ==
    /\ off' = off \ {a}
    /\ past' = [r \in Requests |->
           IF r \in UsesUnderWay THEN [past[r] EXCEPT !.off = @ \ {a}] ELSE past[r]]

\* A disabled tenant refuses the client, an unknown one is created.
ClientTenant(r) ==
    /\ At(r, "readTenant")
    /\ \/ tenant = "disabled" /\ Deny(r)
       \/ /\ tenant # "disabled"
          /\ Goto(r, IF tenant = "none" THEN "putTenant" ELSE "projectPrincipal")
          /\ UNCHANGED <<tables, rules, events, history>>

PutTenant(r) ==
    /\ At(r, "putTenant")
    /\ tenant' = "active"
    /\ Goto(r, "projectPrincipal")
    /\ UNCHANGED <<status, account, key, device, rules, events, history>>

ProjectPrincipal(r) ==
    /\ At(r, "projectPrincipal")
    /\ status' = [status EXCEPT ![call[r].arg] = "active"]
    /\ TurnedOn(call[r].arg)
    /\ Goto(r, "projectAccount")
    /\ UNCHANGED <<tenant, account, key, device, rules, events, origin, approvals, granted>>

ProjectAccount(r) ==
    /\ At(r, "projectAccount")
    /\ account' = [account EXCEPT ![call[r].arg] = [status |-> "active", createdBy |-> None]]
    /\ Become(r, [call[r] EXCEPT !.pc = "sign", !.roles = AccountRoles])
    /\ UNCHANGED <<tenant, status, key, device, rules, events, history>>

----------------------------------------------------------------------------
(* Around the requests.                                                    *)

Abort(r) == StoreMayFail /\ Running(r) /\ Deny(r)

ExpireKey(k) ==
    /\ "expiry" \in Events
    /\ key[k] # Unissued /\ ~key[k].expired
    /\ key' = [key EXCEPT ![k].expired = TRUE]
    /\ UNCHANGED <<tenant, status, account, device, rules, call, events, history>>

ExpireCode(c) ==
    /\ "expiry" \in Events
    /\ device[c] # Unissued /\ ~device[c].expired
    /\ device' = [device EXCEPT ![c].expired = TRUE]
    /\ UNCHANGED <<tenant, status, account, key, rules, call, events, history>>

Change == events < MaxEvents /\ events' = events + 1

\* A directory sync replaces a principal's roles.
RolesChange(u) ==
    /\ "roles" \in Events /\ Change
    /\ \E R \in RoleSets \ {roles[u]} :
          /\ roles' = [roles EXCEPT ![u] = R]
          /\ past' = [r \in Requests |->
                 IF Running(r) THEN [past[r] EXCEPT !.held[u] = @ \cup {R}] ELSE past[r]]
    /\ UNCHANGED <<tables, policy, call, origin, approvals, granted, off>>

\* The host loads another policy.
UpdatePolicy(p) ==
    /\ "policy" \in Events /\ Change
    /\ p # policy /\ policy' = p
    /\ past' = [r \in Requests |->
           IF Running(r) THEN [past[r] EXCEPT !.policies = @ \cup {p}] ELSE past[r]]
    /\ UNCHANGED <<tables, roles, call, origin, approvals, granted, off>>

\* DisablePrincipal and EnablePrincipal of WardenIdentity.
StatusChange(h) ==
    /\ "status" \in Events /\ Change
    /\ \/ /\ status[h] = "active"
          /\ status' = [status EXCEPT ![h] = "disabled"]
          /\ UNCHANGED <<off, past>>
       \/ /\ status[h] = "disabled"
          /\ status' = [status EXCEPT ![h] = "active"]
          /\ TurnedOn(h)
    /\ UNCHANGED <<tenant, account, key, device, rules, call, origin, approvals, granted>>

\* An operator of the host program disables the tenant.
DisableTenant ==
    /\ "tenant" \in Events /\ tenant = "active"
    /\ tenant' = "disabled"
    /\ UNCHANGED <<status, account, key, device, rules, call, events, history>>

WithSession(r) ==
    \/ Authorize(r) \/ CheckScopes(r) \/ GrantDeviceScopes(r)
    \/ PutPrincipal(r) \/ PutServiceAccount(r) \/ PutAPIKey(r)
    \/ DisableAccountRow(r) \/ DisablePrincipalRow(r)
    \/ RevokeAPIKey(r)

DeviceFlow(r) == ReadUserCode(r) \/ PutApproval(r) \/ ReadCode(r) \/ Consume(r)

KeyUse(r) == ReadKey(r) \/ ReadOwner(r) \/ Touch(r) \/ Sign(r)

ClientCredentials(r) ==
    ClientTenant(r) \/ PutTenant(r) \/ ProjectPrincipal(r) \/ ProjectAccount(r)

Environment ==
    \/ \E k \in KeyIds : ExpireKey(k)
    \/ \E c \in Codes : StartDeviceAuth(c) \/ ExpireCode(c)
    \/ \E u \in Users : RolesChange(u)
    \/ \E p \in Policies : UpdatePolicy(p)
    \/ \E h \in Holders : StatusChange(h)
    \/ DisableTenant

Next ==
    \/ \E r \in Requests :
          \/ Start(r) \/ WithSession(r) \/ DeviceFlow(r) \/ KeyUse(r)
          \/ ClientCredentials(r) \/ Abort(r)
    \/ Environment

Spec == Init /\ [][Next]_vars

----------------------------------------------------------------------------
(* Properties.                                                             *)

\* A call that began after a service account was disabled is not answered with
\* that account's key until somebody enables it, also when the account was
\* disabled while it was still being created
\* (service.go:862-873 against gorm_store.go:826-842).
DisabledAccountStaysOff ==
    \A r \in Requests :
        At(r, "ok") /\ UsesKey(r) => call[r].who \notin past[r].off

\* A call that began after a key was revoked is not answered with that key,
\* whatever calls were using it at the time (service.go:983-1004, RevokeAPIKey).
RevokedKeyRefused ==
    \A r \in Requests :
        At(r, "ok") /\ UsesKey(r) => call[r].arg \notin past[r].revoked

\* Every key that came out of the device flow belongs to somebody who, signed
\* in, approved the user code of that very device.
DeviceKeyWasApproved ==
    \A k \in KeyIds : origin[k] # None => <<key[k].owner, origin[k]>> \in approvals

\* What is signed from a key is within the key's scopes and within what roles
\* that the owner had during that call allow by a policy in force during it: no
\* role taken away and no policy replaced before the call began is honoured
\* because an old key still lists the scope (service.go:773-800, 983-1004).
SignedWithinRoles ==
    \A r \in Requests :
        At(r, "ok") /\ call[r].op = "useKey" =>
            /\ call[r].scopes \subseteq key[call[r].arg].scopes
            /\ \E S \in Moments(r) : call[r].scopes \subseteq S

\* Nobody gets a key for more than roles that he had during the call that made
\* it allow by a policy in force during it: for a service account, the roles of
\* the administrator who created it (service.go:370-384, 802-832, 834-880).
KeysWithinGrant ==
    \A k \in KeyIds : key[k] # Unissued =>
        \E S \in granted[k] : key[k].scopes \subseteq S

\* Every key of a service account has an account row, so that listing shows it
\* and DisableServiceAccount finds it, wherever the creation stopped.
ServiceKeysHaveAccounts ==
    \A k \in KeyIds : key[k] # Unissued /\ key[k].owner \in Accounts =>
        account[key[k].owner] # Unissued /\ status[key[k].owner] # "none"

\* TestDeviceCodeFlowIssuesTokenOnce (service_test.go:359): one key per code.
DeviceCodeIssuesTokenOnce ==
    \A k, l \in KeyIds : origin[k] # None /\ origin[k] = origin[l] => k = l

=============================================================================
