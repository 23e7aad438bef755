--------------------------- MODULE TokenIssuance ---------------------------
(***************************************************************************)
(* What Warden answers to whoever presents a session: an internal token    *)
(* (SignInternalJWT), a token for an agent that acts for him               *)
(* (DelegateAgent), what the session permits (POST                         *)
(* /internal/session/validate), or an audit row (RecordAuditEvent).        *)
(*                                                                         *)
(* Each call is a sequence of steps with at most one read of shared state  *)
(* or one store call each: the session and its principal's roles, the      *)
(* policy, the agent's rows, the policy's version, the audit row.  The     *)
(* host replaces the policy and its version, by two calls, and directory   *)
(* syncs replace roles, in between.  ValidateSession is one step here;     *)
(* WardenIdentity has its parts.                                           *)
(***************************************************************************)
EXTENDS RolePolicy, Naturals

CONSTANTS
    Users,          \* principals, each with a session
    TenantOf,       \* the tenant of each
    RoleSets,       \* the sets of role keys that a directory may give
    Config,         \* role tables of the host's configurations, by version
    Asks,           \* what callers ask for: audience, actions, scopes
    RunIds,         \* IDs of agent runs
    Named,          \* those that callers choose; the others are drawn
    Requests,       \* the calls that may be made, each once
    Ops,            \* the operations a run offers
    MaxChanges,     \* bound on the changes of roles, statuses and policy
    StoreMayFail,   \* whether store calls may fail and callers may hang up
    None

VARIABLES
    roles,          \* the principals' role keys
    status,         \* and their status
    policy,         \* Service.policy, by the configuration it was made of
    version,        \* Service.policyVersion
    agent,          \* the tenant of the principal agent_<run>
    run,            \* the agent_runs table: actor and tenant
    audit,          \* the audit row that each call wrote
    call,           \* the locals of every call
    changes,        \* how many of the bounded changes happened
    \* History, read by no guard of the code:
    seen,           \* per call: the roles and policies in force since it began,
                    \* and whether policy and version belonged together all along
    left            \* runs whose agent was stored by a call that failed then

tables == <<roles, status, agent, run, audit>>
host == <<policy, version>>
vars == <<tables, host, call, changes, seen, left>>

Versions == DOMAIN Config
Loads(v) == {[version |-> v, winner |-> w] : w \in Winners(Config[v])}
Policies == UNION {Loads(v) : v \in Versions}
Table(p) == NewPolicy(Config[p.version], p.winner)
Grantable == UNION {ScopesForRoles(Table(p), R) : p \in Policies, R \in RoleSets}
Operation == {"sign", "delegate", "inspect", "record"}
Point == {"idle", "validate", "scope", "refuse", "putAgent", "putRun", "sign", "audit", "append",
          "ok", "denied"}

Call ==
    [pc : Point,
     op : Operation \cup {None},
     who : Users \cup {None},
     ask : Asks \cup {None},
     roles : RoleSets \cup {{}},        \* as ValidateSession returned them, until used
     scopes : SUBSET Grantable,
     run : RunIds \cup {None},
     version : Versions \cup {None},    \* the policy version of the answer
     source : Versions \cup {None}]     \* history: where its scopes are from

Idle == [pc |-> "idle", op |-> None, who |-> None, ask |-> None, roles |-> {},
         scopes |-> {}, run |-> None, version |-> None, source |-> None]

\* An audit row names the call's token by the call, an agent by its run.
Row == [principal : Users \cup RunIds, actor : Users \cup {None},
        decision : {"allow", "deny", "reported"}]
RunRow == [actor : Users, tenant : {TenantOf[u] : u \in Users}]

ASSUME IssuanceAssumption ==
    /\ Named \subseteq RunIds
    /\ Ops \subseteq Operation
    /\ MaxChanges \in Nat /\ StoreMayFail \in BOOLEAN
    /\ None \notin RunIds \cup Users \cup Versions \cup Operation
    /\ None \notin {TenantOf[u] : u \in Users} \cup RunRow
    /\ \A v \in Versions : Winners(Config[v]) # {}

Seen == [roles : SUBSET RoleSets, policies : SUBSET Policies, quiet : BOOLEAN]
Unseen == [roles |-> {}, policies |-> {}, quiet |-> FALSE]

TypeOK ==
    /\ roles \in [Users -> RoleSets]
    /\ status \in [Users -> {"active", "disabled"}]
    /\ policy \in Policies
    /\ version \in Versions
    /\ agent \in [RunIds -> {TenantOf[u] : u \in Users} \cup {None}]
    /\ run \in [RunIds -> RunRow \cup {None}]
    /\ audit \in [Requests -> Row \cup {None}]
    /\ call \in [Requests -> Call]
    /\ changes \in 0..MaxChanges
    /\ seen \in [Requests -> Seen]
    /\ left \subseteq RunIds

Init ==
    /\ roles \in [Users -> RoleSets]
    /\ status = [u \in Users |-> "active"]
    /\ policy \in Policies /\ version = policy.version
    /\ agent = [i \in RunIds |-> None]
    /\ run = [i \in RunIds |-> None]
    /\ audit = [r \in Requests |-> None]
    /\ call = [r \in Requests |-> Idle]
    /\ changes = 0
    /\ seen = [r \in Requests |-> Unseen]
    /\ left = {}

----------------------------------------------------------------------------
At(r, point) == call[r].pc = point
Running(r) == call[r].pc \notin {"idle", "ok", "denied"}

Become(r, locals) == call' = [call EXCEPT ![r] = locals]
Goto(r, point) == Become(r, [call[r] EXCEPT !.pc = point])

Answer(r) == Goto(r, "ok") /\ UNCHANGED seen

Deny(r) ==
    /\ Become(r, [Idle EXCEPT !.pc = "denied"])
    /\ seen' = [seen EXCEPT ![r] = Unseen]

Begin(r) ==
    /\ At(r, "idle")
    /\ \E op \in Ops, u \in Users, a \in Asks, i \in Named \cup {None} :
          /\ i # None => op = "delegate"
          /\ Become(r, [Idle EXCEPT !.pc = "validate", !.op = op, !.who = u, !.run = i,
                              !.ask = IF op \in {"sign", "delegate"} THEN a ELSE None])
          /\ seen' = [seen EXCEPT ![r] =
                 [roles |-> {roles[u]}, policies |-> {policy}, quiet |-> version = policy.version]]
    /\ UNCHANGED <<tables, host, changes, left>>

ValidateSession(r) ==
    /\ At(r, "validate")
    /\ \/ /\ status[call[r].who] = "active"
          /\ Become(r, [call[r] EXCEPT !.roles = roles[call[r].who],
                             !.pc = IF call[r].op = "record" THEN "append" ELSE "scope"])
          /\ UNCHANGED seen
       \/ status[call[r].who] # "active" /\ Deny(r)
    /\ UNCHANGED <<tables, host, changes, left>>

\* Faulty variant: the asked scopes replace the actor's.
DelegatedAsAsked(actorScopes, asked) == IF asked = {} THEN actorScopes ELSE asked

\* What the actor may have; of that, what was asked, or all of it if nothing was.
Delegated(actorScopes, asked) ==
    IF asked = {} THEN actorScopes ELSE actorScopes \cap asked

ScopesOf(r) ==
    LET c == call[r] IN
    CASE c.op = "inspect" -> ScopesForRoles(Table(policy), c.roles)
      [] c.op = "sign" -> ScopesForActions(Table(policy), c.roles, c.ask.audience, c.ask.actions)
      [] c.op = "delegate" ->
           Delegated(ScopesForActions(Table(policy), c.roles, c.ask.audience, c.ask.actions),
                     c.ask.scopes)

\* An empty set of scopes is not signed, but it is an answer to an inspection.
AfterScope(r, scopes) ==
    IF scopes = {} /\ call[r].op # "inspect" THEN "refuse"
    ELSE IF call[r].op = "delegate" THEN "putAgent" ELSE "sign"

Scope(r) ==
    /\ At(r, "scope")
    /\ LET scopes == ScopesOf(r) IN
       Become(r, [call[r] EXCEPT !.pc = AfterScope(r, scopes), !.scopes = scopes, !.roles = {},
                       !.source = policy.version])
    /\ UNCHANGED <<tables, host, changes, seen, left>>

\* Faulty variant: IDs that may come again, as if they were numbered per user.
DrawnAgain(i) == i \notin Named /\ \A q \in Requests : call[q].run # i \/ At(q, "ok")

\* An agent run's ID is the caller's or drawn: nobody else has it then.
Undrawn(i) == i \notin Named /\ \A q \in Requests : call[q].run # i /\ agent[i] = None

RunChoice(r) == IF call[r].run # None THEN {call[r].run} ELSE {i \in RunIds : Undrawn(i)}

\* Faulty variant: the token is signed, its run forgotten.
PutAgentOnly(r) ==
    /\ At(r, "putAgent")
    /\ \E i \in RunChoice(r) :
          /\ agent' = [agent EXCEPT ![i] = TenantOf[call[r].who]]
          /\ Become(r, [call[r] EXCEPT !.pc = "sign", !.run = i])
    /\ UNCHANGED <<roles, status, run, audit, host, changes, seen, left>>

PutAgent(r) ==
    /\ At(r, "putAgent")
    /\ \E i \in RunChoice(r) :
          /\ agent' = [agent EXCEPT ![i] = TenantOf[call[r].who]]
          /\ Become(r, [call[r] EXCEPT !.pc = "putRun", !.run = i])
    /\ UNCHANGED <<roles, status, run, audit, host, changes, seen, left>>

PutAgentRun(r) ==
    /\ At(r, "putRun")
    /\ run' = [run EXCEPT ![call[r].run] =
           [actor |-> call[r].who, tenant |-> TenantOf[call[r].who]]]
    /\ Goto(r, "sign")
    /\ UNCHANGED <<roles, status, agent, audit, host, changes, seen, left>>

\* Faulty variant: the version that the service was configured with at first.
SignAsConfigured(r) ==
    /\ At(r, "sign")
    /\ Become(r, [call[r] EXCEPT !.version = CHOOSE v \in Versions : TRUE,
                       !.pc = IF call[r].op = "inspect" THEN "ok" ELSE "audit"])
    /\ UNCHANGED <<tables, host, changes, seen, left>>

\* sign reads the policy's version now, as the handler of an inspection does
\* when it writes the answer.
Sign(r) ==
    /\ At(r, "sign")
    /\ Become(r, [call[r] EXCEPT !.version = version,
                       !.pc = IF call[r].op = "inspect" THEN "ok" ELSE "audit"])
    /\ UNCHANGED <<tables, host, changes, seen, left>>

\* RecordAuditEvent writes what the caller reports.
Decision(r) ==
    IF At(r, "refuse") THEN "deny" ELSE IF At(r, "append") THEN "reported" ELSE "allow"

\* The token of an agent is recorded with the agent and whom it acts for, a
\* refused delegation with the actor in both places.
AuditRow(r) ==
    [principal |-> IF call[r].run # None /\ ~At(r, "refuse") THEN call[r].run ELSE call[r].who,
     actor |-> IF call[r].op = "delegate" THEN call[r].who ELSE None,
     decision |-> Decision(r)]

AppendAudit(r) == audit' = [audit EXCEPT ![r] = AuditRow(r)]

\* The audit row of a token or refusal is written before the caller has its
\* answer; an error of that write is dropped.
RecordDecision(r) ==
    /\ \/ At(r, "audit") /\ Answer(r)
       \/ At(r, "refuse") /\ Deny(r)
    /\ \/ AppendAudit(r)
       \/ StoreMayFail /\ UNCHANGED audit
    /\ UNCHANGED <<roles, status, agent, run, host, changes, left>>

\* RecordAuditEvent reports an error of its one write (Abort).
RecordAuditEvent(r) ==
    /\ At(r, "append")
    /\ AppendAudit(r)
    /\ Become(r, [Idle EXCEPT !.pc = "ok"]) /\ seen' = [seen EXCEPT ![r] = Unseen]
    /\ UNCHANGED <<roles, status, agent, run, host, changes, left>>

\* The store or the signer fails, or the caller is gone before the next step.
Abort(r) ==
    /\ StoreMayFail /\ Running(r) /\ ~At(r, "audit") /\ ~At(r, "refuse")
    /\ Deny(r)
    /\ left' = IF At(r, "putRun") THEN left \cup {call[r].run} ELSE left
    /\ UNCHANGED <<tables, host, changes>>

----------------------------------------------------------------------------
Change == changes < MaxChanges /\ changes' = changes + 1

\* History: what the calls under way may have met before their scopes were
\* settled, and whether a reload met them before they answered.
Noticed(rolesNow, policyNow, matching) ==
    seen' = [r \in Requests |->
        [roles |-> IF At(r, "validate") THEN seen[r].roles \cup rolesNow[call[r].who]
                   ELSE seen[r].roles,
         policies |-> IF At(r, "validate") \/ At(r, "scope")
                      THEN seen[r].policies \cup {policyNow} ELSE seen[r].policies,
         quiet |-> seen[r].quiet /\ (matching \/ ~Running(r))]]

NoNewRoles == [u \in Users \cup {None} |-> {}]

\* A directory sync replaces a principal's roles.
RolesChange(u) ==
    /\ Change
    /\ \E R \in RoleSets \ {roles[u]} :
          /\ roles' = [roles EXCEPT ![u] = R]
          /\ Noticed([NoNewRoles EXCEPT ![u] = {R}], policy, TRUE)
    /\ UNCHANGED <<status, agent, run, audit, host, call, left>>

\* DisablePrincipal and EnablePrincipal of WardenIdentity.
StatusChange(u) ==
    /\ Change
    /\ status' = [status EXCEPT ![u] = IF @ = "active" THEN "disabled" ELSE "active"]
    /\ UNCHANGED <<roles, agent, run, audit, host, call, seen, left>>

\* The host loads a configuration, and then sets its version: two calls.
UpdatePolicy(v) ==
    /\ policy.version = version /\ Change
    /\ policy' \in Loads(v)
    /\ Noticed(NoNewRoles, policy', FALSE)
    /\ UNCHANGED <<tables, version, call, left>>

UpdatePolicyVersion ==
    /\ version # policy.version
    /\ version' = policy.version
    /\ UNCHANGED <<tables, policy, call, changes, seen, left>>

Next ==
    \/ \E r \in Requests :
          \/ Begin(r) \/ ValidateSession(r) \/ Scope(r)
          \/ PutAgent(r) \/ PutAgentRun(r) \/ Sign(r)
          \/ RecordDecision(r) \/ RecordAuditEvent(r) \/ Abort(r)
    \/ \E u \in Users : RolesChange(u) \/ StatusChange(u)
    \/ \E v \in Versions : UpdatePolicy(v)
    \/ UpdatePolicyVersion

Spec == Init /\ [][Next]_vars

----------------------------------------------------------------------------
(* Properties.                                                             *)

Signed(r) == At(r, "ok") /\ call[r].op \in {"sign", "delegate"}
HasAgentToken(r) == At(r, "ok") /\ call[r].op = "delegate"

\* No token is for more than its actor's roles allowed, under a policy, both of
\* them in force during the call, and an agent's token for no more than was
\* asked: neither a role withdrawn nor a policy replaced before the call counts
\* (service.go:697-712, 1048-1062).
TokenWithinActor ==
    \A r \in Requests : Signed(r) =>
        /\ \E p \in seen[r].policies, R \in seen[r].roles :
              call[r].scopes \subseteq
                  ScopesForActions(Table(p), R, call[r].ask.audience, call[r].ask.actions)
        /\ HasAgentToken(r) /\ call[r].ask.scopes # {} => call[r].scopes \subseteq call[r].ask.scopes

\* A run always has its agent, and an agent its run, except while a delegation
\* is between the two writes or when it failed there: a refused delegation
\* leaves neither (service.go:1058-1080).
AgentsHaveRuns ==
    \A i \in RunIds :
        /\ run[i] # None => agent[i] # None
        /\ agent[i] # None /\ run[i] = None =>
              i \in left \/ \E r \in Requests : At(r, "putRun") /\ call[r].run = i

\* An agent's token leads to whom it acts for: its audit row, if it was
\* written, names the agent and the actor, and its run, if the ID was drawn, is
\* recorded for that actor in his tenant, whatever other delegations do
\* (service.go:1062-1084, 1104-1117).
AgentTraceable ==
    \A r \in Requests : HasAgentToken(r) =>
        LET i == call[r].run
            actor == call[r].who
        IN  /\ audit[r] # None => audit[r].principal = i /\ audit[r].actor = actor
            /\ i \notin Named => /\ run[i] = [actor |-> actor, tenant |-> TenantOf[actor]]
                                 /\ agent[i] = TenantOf[actor]

\* An answer to a call that met no reload carries the version of the policy
\* that its scopes are from, and a policy that the host replaced earlier is
\* gone (service.go:153-157, 175-190; docs/oidc-directory.md:88-89).
QuietAnswersMatch ==
    \A r \in Requests : At(r, "ok") /\ seen[r].quiet =>
        call[r].version = call[r].source

\* Under one policy, a promotion from viewer to operator to administrator takes
\* no scope away that a token could have been signed for (policy.go:60-112).
Ladder == <<"tenant.viewer", "tenant.operator", "tenant.admin">>
Promoted(R, S) ==
    \E i, j \in 1..3 : i < j /\ roleKeys(R) = {Ladder[i]} /\ roleKeys(S) = {Ladder[j]}
PromotionKeepsScopes ==
    [][\A u \in Users : Promoted(roles[u], roles'[u]) /\ Table(policy) = DefaultRoleScopes =>
          ScopesForRoles(Table(policy), roles[u])
              \subseteq ScopesForRoles(Table(policy), roles'[u])]_vars

\* Once a reload is complete, a token of the current version has the scopes of
\* the current policy, so that comparing versions weeds out the others
\* (claims.go:24-26).
VersionTellsScopes ==
    policy.version = version =>
        \A r \in Requests : Signed(r) /\ call[r].version = version => call[r].source = policy.version

\* The run that any agent's token names is recorded for the token's actor.
RunIsOwn ==
    \A r \in Requests : HasAgentToken(r) => run[call[r].run].actor = call[r].who

\* Loading the same configuration again changes nothing.
ReloadIsStable == [][policy'.version = policy.version => policy' = policy]_vars
=============================================================================
