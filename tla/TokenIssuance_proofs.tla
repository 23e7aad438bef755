------------------------ MODULE TokenIssuance_proofs ------------------------
(***************************************************************************)
(* The tokens, delegations and audit rows of TokenIssuance, for any number *)
(* of users, calls and runs and for any configurations, and the role       *)
(* policy they rest on.                                                    *)
(***************************************************************************)
EXTENDS TokenIssuance, TLAPS

----------------------------------------------------------------------------
(* The role policy.                                                        *)

LEMMA NoRolesNoScopes == ASSUME NEW p PROVE ScopesForRoles(p, {}) = {}
  BY DEF ScopesForRoles, roleKeys

LEMMA MoreRolesMoreScopes ==
  ASSUME NEW p, NEW R, NEW S, R \subseteq S
  PROVE  ScopesForRoles(p, R) \subseteq ScopesForRoles(p, S)
<1>1. roleKeys(R) \subseteq roleKeys(S)
  BY DEF roleKeys
<1> QED
  BY <1>1 DEF ScopesForRoles

\* Whatever is asked for, nobody gets a scope that his roles do not grant
\* (Policy.ScopesForActions).
THEOREM ActionsWithinRoles ==
  ASSUME NEW p, NEW R, NEW audience, NEW actions
  PROVE  ScopesForActions(p, R, audience, actions) \subseteq ScopesForRoles(p, R)
  BY DEF ScopesForActions

LEMMA Permitted ==
  ASSUME NEW s, NEW P, NEW audiences, s \in audiences \X P
  PROVE  \E a \in audiences : \E x \in P : s = <<a, x>>
  OBVIOUS

LEMMA PermittedThere ==
  ASSUME NEW a, NEW P, NEW x \in P
  PROVE  <<a, x>> \in Of(a, P)
  BY DEF Of

\* An operator may do all that a viewer may.
LEMMA ViewersWithinOperators == ViewerScopes \subseteq OperatorScopes
<1> DEFINE alone == {"synapse", "chathub", "skillhub", "filestore", "warden"}
<1>1. SUFFICES ASSUME NEW s \in ViewerScopes PROVE s \in OperatorScopes
  OBVIOUS
<1>2. CASE s = <<"stockhub", "retrieve">>
  <2>1. s \in Of("stockhub", {"read", "retrieve", "upload", "write"})
    BY <1>2, PermittedThere
  <2> QED
    BY <2>1 DEF OperatorScopes
<1>3. CASE s # <<"stockhub", "retrieve">>
  <2>1. PICK a \in alone \cup {"sakerweb", "filehub", "aihub", "stockhub"} :
          s = <<a, "read">>
    BY <1>1, <1>3 DEF ViewerScopes
  <2>2. CASE a \in alone
    BY <2>1, <2>2 DEF OperatorScopes
  <2>3. \/ s \in Of("sakerweb", {"read", "write", "run"})
        \/ s \in Of("filehub", {"read", "upload", "write"})
        \/ s \in Of("aihub", {"read", "invoke"})
        \/ s \in Of("stockhub", {"read", "retrieve", "upload", "write"})
        \/ a \in alone
    BY <2>1, PermittedThere
  <2> QED
    BY <2>2, <2>3 DEF OperatorScopes
<1> QED
  BY <1>2, <1>3

\* An administrator may do all that an operator may.
LEMMA OperatorsWithinAll == OperatorScopes \subseteq AllScopes
<1>1. /\ Of("sakerweb", {"read", "write", "run"})
            \subseteq Of("sakerweb", {"read", "write", "run", "terminal"})
      /\ Of("filehub", {"read", "upload", "write"})
            \subseteq Of("filehub", {"read", "upload", "write", "admin"})
      /\ Of("saker", {"run", "execute"}) \subseteq Of("saker", {"run", "execute", "approve"})
      /\ Of("aihub", {"read", "invoke"}) \subseteq Of("aihub", {"read", "invoke", "admin"})
      /\ Of("stockhub", {"read", "retrieve", "upload", "write"})
            \subseteq Of("stockhub", {"read", "retrieve", "upload", "write", "review", "admin"})
  BY DEF Of
<1>2. {"synapse", "chathub", "skillhub", "filestore", "warden"} \X {"read", "write"}
        \subseteq UNION {Of("synapse", {"read", "write", "admin"}),
                         Of("chathub", {"read", "write", "admin"}),
                         Of("skillhub", {"read", "write", "publish", "admin"}),
                         Of("filestore", {"read", "write", "admin"}),
                         Of("warden", {"read", "write", "admin"})}
  BY DEF Of
<1> HIDE DEF Of
<1> QED
  BY <1>1, <1>2 DEF OperatorScopes, AllScopes

LEMMA Ladders == ViewerScopes \subseteq OperatorScopes /\ OperatorScopes \subseteq AllScopes
  BY ViewersWithinOperators, OperatorsWithinAll

LEMMA LadderGrants ==
  ASSUME NEW i \in 1..3
  PROVE  /\ Ladder[i] \in DOMAIN DefaultRoleScopes
         /\ DefaultRoleScopes[Ladder[i]] =
               <<ViewerScopes, OperatorScopes, AllScopes>>[i]
<1>1. Ladder[i] \in KnownRoles
  BY DEF Ladder, KnownRoles, Administrators
<1>2. GrantOf(Ladder[i]) = <<ViewerScopes, OperatorScopes, AllScopes>>[i]
  <2>1. GrantOf("tenant.viewer") = ViewerScopes
    BY DEF GrantOf, Administrators
  <2>2. GrantOf("tenant.operator") = OperatorScopes
    BY DEF GrantOf, Administrators
  <2>3. GrantOf("tenant.admin") = AllScopes
    BY DEF GrantOf, Administrators
  <2>4. i = 1 \/ i = 2 \/ i = 3
    OBVIOUS
  <2> QED
    BY <2>1, <2>2, <2>3, <2>4 DEF Ladder
<1> QED
  BY <1>1, <1>2 DEF DefaultRoleScopes

\* Under the default policy, whoever is promoted from viewer to operator to
\* administrator keeps every scope (DefaultRoleScopes).
LEMMA PromotionGrants ==
  ASSUME NEW R, NEW S, Promoted(R, S)
  PROVE  ScopesForRoles(DefaultRoleScopes, R) \subseteq ScopesForRoles(DefaultRoleScopes, S)
<1>1. PICK i \in 1..3, j \in 1..3 :
        i < j /\ roleKeys(R) = {Ladder[i]} /\ roleKeys(S) = {Ladder[j]}
  BY DEF Promoted
<1> DEFINE grant(n) == <<ViewerScopes, OperatorScopes, AllScopes>>[n]
<1>2. ScopesForRoles(DefaultRoleScopes, R) = grant(i)
  BY <1>1, LadderGrants DEF ScopesForRoles
<1>3. ScopesForRoles(DefaultRoleScopes, S) = grant(j)
  BY <1>1, LadderGrants DEF ScopesForRoles
<1>4. grant(i) \subseteq grant(j)
  <2>1. (i = 1 /\ j = 2) \/ (i = 1 /\ j = 3) \/ (i = 2 /\ j = 3)
    BY <1>1
  <2> QED
    BY <2>1, Ladders
<1> QED
  BY <1>2, <1>3, <1>4

\* No step of any behaviour promotes somebody and takes a scope away from him
\* (DefaultRoleScopes, ScopesForRoles).
THEOREM PromotionsKeepScopes == Spec => PromotionKeepsScopes
<1>1. [Next]_vars =>
        [\A u \in Users : Promoted(roles[u], roles'[u]) /\ Table(policy) = DefaultRoleScopes =>
            ScopesForRoles(Table(policy), roles[u])
                \subseteq ScopesForRoles(Table(policy), roles'[u])]_vars
  BY PromotionGrants
<1> QED
  BY <1>1, PTL DEF Spec, PromotionKeepsScopes

----------------------------------------------------------------------------
(* What each call knows and what it left in the tables.                    *)

\* Past the choice of an agent's run its ID is set.
RunPoints == {"putRun", "sign", "audit", "ok"}

\* Which operation can be where, and which locals it has there.
Fits(c) ==
    /\ c.pc = "idle" => c = Idle
    /\ c.pc \notin {"idle", "ok", "denied"} => c.who \in Users /\ c.op \in Operation
    /\ c.op \in {"sign", "delegate"} => c.who \in Users /\ c.ask \in Asks
    /\ c.pc = "scope" => c.roles \in RoleSets /\ c.op \in {"sign", "delegate", "inspect"}
    /\ c.pc \in {"putAgent", "putRun"} => c.op = "delegate"
    /\ c.pc \in {"refuse", "audit"} => c.op \in {"sign", "delegate"}
    /\ c.pc = "sign" => c.op \in {"sign", "delegate", "inspect"}
    /\ c.pc = "append" => c.op = "record"
    /\ c.op = "delegate" /\ c.pc \in RunPoints => c.run \in RunIds
    /\ c.op = "delegate" /\ c.pc \notin RunPoints => c.run \in Named \cup {None}
    /\ c.run # None => c.op = "delegate"

Locals == \A r \in Requests : Fits(call[r])

Typed == TypeOK /\ Locals

\* An ID that was drawn is in one call, whose agent it is.
DrawnOnce ==
    /\ \A r, q \in Requests :
          call[r].run = call[q].run /\ call[r].run \notin Named \cup {None} => r = q
    /\ \A r \in Requests :
          At(r, "putRun") => agent[call[r].run] # None
    /\ \A r \in Requests :
          call[r].run \notin Named \cup {None} => agent[call[r].run] = TenantOf[call[r].who]

\* Once a call stored its agent's run, the run is there.
RunStored ==
    \A r \in Requests :
        call[r].op = "delegate" /\ call[r].pc \in {"sign", "audit", "ok"}
          /\ call[r].run \notin Named =>
            run[call[r].run] = [actor |-> call[r].who, tenant |-> TenantOf[call[r].who]]

\* No audit row is written before its call ends.
AuditLast ==
    \A r \in Requests :
        /\ Running(r) \/ At(r, "idle") => audit[r] = None
        /\ HasAgentToken(r) /\ audit[r] # None =>
              audit[r].principal = call[r].run /\ audit[r].actor = call[r].who

TableInv == TypeOK /\ Locals /\ DrawnOnce /\ RunStored /\ AuditLast /\ AgentsHaveRuns

\* What the scopes of a call are from was in force during the call.
Met(r) ==
    /\ At(r, "validate") => roles[call[r].who] \in seen[r].roles
    /\ At(r, "validate") \/ At(r, "scope") => policy \in seen[r].policies
    /\ At(r, "scope") => call[r].roles \in seen[r].roles
    /\ call[r].pc \in {"putAgent", "putRun", "sign", "audit", "ok"}
         /\ call[r].op \in {"sign", "delegate"} =>
          /\ \E p \in seen[r].policies, R \in seen[r].roles :
                call[r].scopes \subseteq
                    ScopesForActions(Table(p), R, call[r].ask.audience, call[r].ask.actions)
          /\ call[r].op = "delegate" /\ call[r].ask.scopes # {} =>
                call[r].scopes \subseteq call[r].ask.scopes

\* A call that met no reload: policy and version belong together while it runs,
\* and its scopes are from that policy.
Quiet(r) ==
    seen[r].quiet =>
        /\ ~At(r, "idle") /\ ~At(r, "denied")
        /\ Running(r) => version = policy.version
        /\ call[r].pc \in {"refuse", "putAgent", "putRun", "sign", "audit"} =>
              call[r].source = version
        /\ At(r, "audit") \/ At(r, "ok") => call[r].version = call[r].source

ScopesMet == \A r \in Requests : Met(r)
QuietInv == \A r \in Requests : Quiet(r)

CallInv == ScopesMet /\ QuietInv

IInv == TableInv /\ CallInv
----------------------------------------------------------------------------
(* The invariant holds initially and every step keeps it.                  *)

LEMMA PolicyKnown ==
  ASSUME NEW v \in Versions, NEW p \in Loads(v)
  PROVE  p \in Policies /\ p.version = v
  BY DEF Loads, Policies

LEMMA PolicyHasVersion == ASSUME NEW p \in Policies PROVE p.version \in Versions
  BY DEF Loads, Policies

LEMMA RolesGrantable ==
  ASSUME NEW p \in Policies, NEW R \in RoleSets \cup {{}}
  PROVE  ScopesForRoles(Table(p), R) \subseteq Grantable
<1>1. CASE R \in RoleSets
  BY <1>1 DEF Grantable
<1>2. CASE R = {}
  BY <1>2, NoRolesNoScopes
<1> QED
  BY <1>1, <1>2

LEMMA ScopesOfGrantable ==
  ASSUME TypeOK, Locals, NEW r \in Requests, At(r, "scope")
  PROVE  ScopesOf(r) \in SUBSET Grantable
<1>1. /\ policy \in Policies
      /\ call[r].roles \in RoleSets
      /\ call[r].op \in {"sign", "delegate", "inspect"}
  BY DEF TypeOK, Locals, Fits, At
<1>2. ScopesForRoles(Table(policy), call[r].roles) \subseteq Grantable
  BY <1>1, RolesGrantable
<1>3. ScopesForActions(Table(policy), call[r].roles, call[r].ask.audience, call[r].ask.actions)
        \subseteq Grantable
  BY <1>2, ActionsWithinRoles
<1> QED
  BY <1>1, <1>2, <1>3 DEF ScopesOf, Delegated

LEMMA TypeInit == Init => TypeOK
  BY IssuanceAssumption, PolicyHasVersion
  DEF Init, TypeOK, Call, Idle, Point, Seen, Unseen

LEMMA PointsKnown ==
  {"idle", "validate", "scope", "refuse", "putAgent", "putRun", "sign", "audit", "append", "ok",
   "denied"} \subseteq Point
  BY DEF Point

LEMMA IdleTypes == Idle \in Call /\ [Idle EXCEPT !.pc = "denied"] \in Call
                     /\ [Idle EXCEPT !.pc = "ok"] \in Call
  BY DEF Idle, Call, Point

LEMMA CallTypes == ASSUME TypeOK, NEW r \in Requests PROVE call[r] \in Call
  BY DEF TypeOK

LEMMA BecomeTypes ==
  ASSUME TypeOK, NEW r \in Requests, NEW c \in Call, Become(r, c)
  PROVE  call' \in [Requests -> Call]
  BY DEF TypeOK, Become

LEMMA GotoTypes ==
  ASSUME TypeOK, NEW r \in Requests, NEW point \in Point, Goto(r, point)
  PROVE  call' \in [Requests -> Call]
<1>1. [call[r] EXCEPT !.pc = point] \in Call
  BY DEF TypeOK, Call
<1> QED
  BY <1>1, BecomeTypes DEF Goto

LEMMA UnseenTypes ==
  ASSUME TypeOK, NEW r \in Requests
  PROVE  [seen EXCEPT ![r] = Unseen] \in [Requests -> Seen]
  BY DEF TypeOK, Unseen, Seen

LEMMA DenyTypes ==
  ASSUME TypeOK, NEW r \in Requests, Deny(r)
  PROVE  call' \in [Requests -> Call] /\ seen' \in [Requests -> Seen]
  BY IdleTypes, BecomeTypes, UnseenTypes DEF Deny

LEMMA NoticedTypes ==
  ASSUME TypeOK, NEW f \in [Users \cup {None} -> SUBSET RoleSets], NEW p \in Policies,
         NEW b \in BOOLEAN, Noticed(f, p, b)
  PROVE  seen' \in [Requests -> Seen]
<1>1. SUFFICES ASSUME NEW r \in Requests PROVE seen'[r] \in Seen
  BY DEF Noticed
<1>2. seen[r] \in Seen /\ call[r].who \in Users \cup {None}
  BY DEF TypeOK, Call
<1>3. f[call[r].who] \subseteq RoleSets
  BY <1>2
<1> QED
  BY <1>2, <1>3 DEF Noticed, Seen, Running, At

LEMMA RowTypes ==
  ASSUME TypeOK, Locals, NEW r \in Requests, Running(r), AppendAudit(r)
  PROVE  audit' \in [Requests -> Row \cup {None}]
<1>1. AuditRow(r) \in Row
  BY DEF AuditRow, Decision, Row, TypeOK, Call, Locals, Fits, Running, At
<1> QED
  BY <1>1 DEF AppendAudit, TypeOK

LEMMA TypeNext == TypeOK /\ Locals /\ [Next]_vars => TypeOK'
<1> SUFFICES ASSUME TypeOK, Locals, [Next]_vars PROVE TypeOK'
  OBVIOUS
<1> USE IssuanceAssumption, PointsKnown
<1>1. ASSUME NEW r \in Requests, Begin(r) PROVE TypeOK'
  <2>1. PICK op \in Ops, u \in Users, a \in Asks, i \in Named \cup {None} :
          /\ Become(r, [Idle EXCEPT !.pc = "validate", !.op = op, !.who = u, !.run = i,
                              !.ask = IF op \in {"sign", "delegate"} THEN a ELSE None])
          /\ seen' = [seen EXCEPT ![r] =
                 [roles |-> {roles[u]}, policies |-> {policy}, quiet |-> version = policy.version]]
    BY <1>1 DEF Begin
  <2>2. [Idle EXCEPT !.pc = "validate", !.op = op, !.who = u, !.run = i,
               !.ask = IF op \in {"sign", "delegate"} THEN a ELSE None] \in Call
    BY DEF Idle, Call, Operation
  <2>3. call' \in [Requests -> Call]
    BY <2>1, <2>2, BecomeTypes
  <2>4. seen' \in [Requests -> Seen]
    BY <2>1 DEF TypeOK, Seen
  <2> QED
    BY <1>1, <2>3, <2>4 DEF Begin, TypeOK, tables, host
<1>2. ASSUME NEW r \in Requests, ValidateSession(r) PROVE TypeOK'
  <2>1. CASE Deny(r)
    BY <1>2, <2>1, DenyTypes DEF ValidateSession, TypeOK, tables, host
  <2>2. CASE ~Deny(r)
    <3>1. call[r].who \in Users /\ call[r] \in Call
      BY <1>2 DEF ValidateSession, Locals, Fits, Running, At, TypeOK
    <3>2. [call[r] EXCEPT !.roles = roles[call[r].who],
                 !.pc = IF call[r].op = "record" THEN "append" ELSE "scope"] \in Call
      BY <3>1 DEF TypeOK, Call
    <3> QED
      BY <1>2, <2>2, <3>2, BecomeTypes DEF ValidateSession, TypeOK, tables, host
  <2> QED
    BY <2>1, <2>2
<1>3. ASSUME NEW r \in Requests, Scope(r) PROVE TypeOK'
  <2>1. ScopesOf(r) \in SUBSET Grantable /\ policy.version \in Versions
    BY <1>3, ScopesOfGrantable, PolicyHasVersion DEF Scope, TypeOK
  <2>2. AfterScope(r, ScopesOf(r)) \in Point
    BY DEF AfterScope
  <2>3. [call[r] EXCEPT !.pc = AfterScope(r, ScopesOf(r)), !.scopes = ScopesOf(r), !.roles = {},
               !.source = policy.version] \in Call
    <3>1. {} \in RoleSets \cup {{}}
      OBVIOUS
    <3> QED
      BY <2>1, <2>2, <3>1, CallTypes DEF Call
  <2> QED
    BY <1>3, <2>3, BecomeTypes DEF Scope, TypeOK, tables, host
<1>4. ASSUME NEW r \in Requests, PutAgent(r) PROVE TypeOK'
  <2>1. PICK i \in RunChoice(r) :
          /\ agent' = [agent EXCEPT ![i] = TenantOf[call[r].who]]
          /\ Become(r, [call[r] EXCEPT !.pc = "putRun", !.run = i])
    BY <1>4 DEF PutAgent
  <2>2. i \in RunIds /\ call[r].who \in Users
    BY <1>4 DEF PutAgent, RunChoice, TypeOK, Call, Locals, Fits, Running, At
  <2>3. [call[r] EXCEPT !.pc = "putRun", !.run = i] \in Call
    BY <2>2, CallTypes DEF Call
  <2> QED
    BY <1>4, <2>1, <2>2, <2>3, BecomeTypes DEF PutAgent, TypeOK, host
<1>5. ASSUME NEW r \in Requests, PutAgentRun(r) PROVE TypeOK'
  <2>1. call[r].run \in RunIds /\ call[r].who \in Users
    BY <1>5 DEF PutAgentRun, Locals, Fits, RunPoints, Running, At
  <2>2. [actor |-> call[r].who, tenant |-> TenantOf[call[r].who]] \in RunRow
    BY <2>1 DEF RunRow
  <2>3. call' \in [Requests -> Call]
    BY <1>5, GotoTypes DEF PutAgentRun
  <2> QED
    BY <1>5, <2>1, <2>2, <2>3 DEF PutAgentRun, TypeOK, host
<1>6. ASSUME NEW r \in Requests, Sign(r) PROVE TypeOK'
  <2>1. [call[r] EXCEPT !.version = version,
               !.pc = IF call[r].op = "inspect" THEN "ok" ELSE "audit"] \in Call
    <3>1. version \in Versions
      BY DEF TypeOK
    <3> QED
      BY <3>1, CallTypes DEF Call
  <2> QED
    BY <1>6, <2>1, BecomeTypes DEF Sign, TypeOK, tables, host
<1>7. ASSUME NEW r \in Requests, RecordDecision(r) PROVE TypeOK'
  <2>1. audit' \in [Requests -> Row \cup {None}]
    BY <1>7, RowTypes DEF RecordDecision, TypeOK, Running, At
  <2>2. call' \in [Requests -> Call] /\ seen' \in [Requests -> Seen]
    BY <1>7, DenyTypes, GotoTypes DEF RecordDecision, Answer, TypeOK
  <2> QED
    BY <1>7, <2>1, <2>2 DEF RecordDecision, TypeOK, host
<1>8. ASSUME NEW r \in Requests, RecordAuditEvent(r) PROVE TypeOK'
  <2>1. audit' \in [Requests -> Row \cup {None}]
    BY <1>8, RowTypes DEF RecordAuditEvent, Running, At
  <2>2. call' \in [Requests -> Call] /\ seen' \in [Requests -> Seen]
    BY <1>8, IdleTypes, BecomeTypes, UnseenTypes DEF RecordAuditEvent
  <2> QED
    BY <1>8, <2>1, <2>2 DEF RecordAuditEvent, TypeOK, host
<1>9. ASSUME NEW r \in Requests, Abort(r) PROVE TypeOK'
  <2>1. At(r, "putRun") => call[r].run \in RunIds
    BY DEF Locals, Fits, RunPoints, At
  <2> QED
    BY <1>9, <2>1, DenyTypes DEF Abort, TypeOK, tables, host
<1>10. ASSUME NEW u \in Users, RolesChange(u) PROVE TypeOK'
  <2>1. PICK R \in RoleSets :
          /\ roles' = [roles EXCEPT ![u] = R]
          /\ Noticed([NoNewRoles EXCEPT ![u] = {R}], policy, TRUE)
    BY <1>10 DEF RolesChange
  <2>2. [NoNewRoles EXCEPT ![u] = {R}] \in [Users \cup {None} -> SUBSET RoleSets]
    BY DEF NoNewRoles
  <2>3. seen' \in [Requests -> Seen]
    BY <2>1, <2>2, NoticedTypes DEF TypeOK
  <2> QED
    BY <1>10, <2>1, <2>3 DEF RolesChange, Change, TypeOK, host
<1>11. ASSUME NEW u \in Users, StatusChange(u) PROVE TypeOK'
  BY <1>11 DEF StatusChange, Change, TypeOK, host
<1>12. ASSUME NEW v \in Versions, UpdatePolicy(v) PROVE TypeOK'
  <2>1. policy' \in Policies
    BY <1>12, PolicyKnown DEF UpdatePolicy
  <2>2. NoNewRoles \in [Users \cup {None} -> SUBSET RoleSets]
    BY DEF NoNewRoles
  <2>3. seen' \in [Requests -> Seen]
    BY <1>12, <2>1, <2>2, NoticedTypes DEF UpdatePolicy
  <2> QED
    BY <1>12, <2>1, <2>3 DEF UpdatePolicy, Change, TypeOK, tables
<1>13. CASE UpdatePolicyVersion
  BY <1>13, PolicyHasVersion DEF UpdatePolicyVersion, TypeOK, tables
<1>14. CASE UNCHANGED vars
  BY <1>14 DEF vars, tables, host, TypeOK
<1> QED
  BY <1>1, <1>2, <1>3, <1>4, <1>5, <1>6, <1>7, <1>8, <1>9, <1>10, <1>11, <1>12, <1>13, <1>14
  DEF Next
LEMMA LocalsInit == Init => Locals
  BY IssuanceAssumption DEF Init, Locals, Fits, Idle, Operation

LEMMA LocalsKept ==
  ASSUME TypeOK, Locals, NEW r \in Requests, NEW c, Become(r, c), Fits(c)
  PROVE  Locals'
<1>1. \A q \in Requests : call'[q] = IF q = r THEN c ELSE call[q]
  BY DEF TypeOK, Become
<1> QED
  BY <1>1 DEF Locals

LEMMA LocalsDenied ==
  ASSUME TypeOK, Locals, NEW r \in Requests, Deny(r)
  PROVE  Locals'
<1>1. Fits([Idle EXCEPT !.pc = "denied"])
  BY IssuanceAssumption DEF Fits, Idle, Operation
<1> QED
  BY <1>1, LocalsKept DEF Deny

LEMMA LocalsNext == TypeOK /\ Locals /\ [Next]_vars => Locals'
<1> SUFFICES ASSUME TypeOK, Locals, [Next]_vars PROVE Locals'
  OBVIOUS
<1>0. \A r \in Requests : Fits(call[r]) /\ call[r] \in Call
  BY CallTypes DEF Locals
<1>1. ASSUME NEW r \in Requests, Begin(r) PROVE Locals'
  <2>1. PICK op \in Ops, u \in Users, a \in Asks, i \in Named \cup {None} :
          /\ i # None => op = "delegate"
          /\ Become(r, [Idle EXCEPT !.pc = "validate", !.op = op, !.who = u, !.run = i,
                              !.ask = IF op \in {"sign", "delegate"} THEN a ELSE None])
    BY <1>1 DEF Begin
  <2>2. Fits([Idle EXCEPT !.pc = "validate", !.op = op, !.who = u, !.run = i,
                    !.ask = IF op \in {"sign", "delegate"} THEN a ELSE None])
    BY <2>1, IssuanceAssumption DEF Fits, Idle, RunPoints
  <2> QED
    BY <2>1, <2>2, LocalsKept
<1>2. ASSUME NEW r \in Requests, ValidateSession(r) PROVE Locals'
  <2>1. CASE Deny(r)
    BY <2>1, LocalsDenied
  <2>2. CASE ~Deny(r)
    <3> DEFINE c == [call[r] EXCEPT !.roles = roles[call[r].who],
                            !.pc = IF call[r].op = "record" THEN "append" ELSE "scope"]
    <3>1. Become(r, c)
      BY <1>2, <2>2 DEF ValidateSession
    <3>2. call[r].pc = "validate" /\ roles[call[r].who] \in RoleSets
      BY <1>2, <1>0 DEF ValidateSession, At, Fits, TypeOK
    <3>3. Fits(c)
      BY <3>2, <1>0 DEF Fits, Operation, Call, RunPoints
    <3> QED
      BY <3>1, <3>3, LocalsKept
  <2> QED
    BY <2>1, <2>2
<1>3. ASSUME NEW r \in Requests, Scope(r) PROVE Locals'
  <2> DEFINE c == [call[r] EXCEPT !.pc = AfterScope(r, ScopesOf(r)), !.scopes = ScopesOf(r),
                          !.roles = {}, !.source = policy.version]
  <2>1. Become(r, c) /\ call[r].pc = "scope"
    BY <1>3 DEF Scope, At
  <2>2. Fits(c)
    <3>1. /\ c.pc = AfterScope(r, ScopesOf(r)) /\ c.op = call[r].op /\ c.who = call[r].who
          /\ c.ask = call[r].ask /\ c.run = call[r].run
      BY <1>0 DEF Call
    <3>2. call[r].op \in {"sign", "delegate", "inspect"} /\ call[r].who \in Users
      BY <2>1, <1>0 DEF Fits
    <3>3. \/ c.pc = "refuse" /\ call[r].op \in {"sign", "delegate"}
          \/ c.pc = "putAgent" /\ call[r].op = "delegate"
          \/ c.pc = "sign" /\ call[r].op \in {"sign", "inspect"}
      BY <3>1, <3>2 DEF AfterScope
    <3>4. Fits(call[r])
      BY <1>0
    <3> HIDE DEF c
    <3> QED
      BY <2>1, <3>1, <3>2, <3>3, <3>4 DEF Fits, RunPoints, Operation
  <2> QED
    BY <2>1, <2>2, LocalsKept
<1>4. ASSUME NEW r \in Requests, PutAgent(r) PROVE Locals'
  <2>1. PICK i \in RunChoice(r) : Become(r, [call[r] EXCEPT !.pc = "putRun", !.run = i])
    BY <1>4 DEF PutAgent
  <2>2. i \in RunIds /\ call[r].pc = "putAgent"
    BY <1>4, <1>0 DEF PutAgent, RunChoice, Call, At
  <2>3. Fits([call[r] EXCEPT !.pc = "putRun", !.run = i])
    BY <2>2, <1>0 DEF Fits, Call, RunPoints
  <2> QED
    BY <2>1, <2>3, LocalsKept
<1>5. ASSUME NEW r \in Requests, PutAgentRun(r) PROVE Locals'
  <2>1. Fits([call[r] EXCEPT !.pc = "sign"])
    BY <1>5, <1>0 DEF PutAgentRun, At, Fits, Call, RunPoints
  <2> QED
    BY <1>5, <2>1, LocalsKept DEF PutAgentRun, Goto
<1>6. ASSUME NEW r \in Requests, Sign(r) PROVE Locals'
  <2>1. Fits([call[r] EXCEPT !.version = version,
                    !.pc = IF call[r].op = "inspect" THEN "ok" ELSE "audit"])
    BY <1>6, <1>0 DEF Sign, At, Fits, Call, RunPoints
  <2> QED
    BY <1>6, <2>1, LocalsKept DEF Sign
<1>7. ASSUME NEW r \in Requests, RecordDecision(r) PROVE Locals'
  <2>1. CASE Deny(r)
    BY <2>1, LocalsDenied
  <2>2. CASE ~Deny(r)
    <3>1. Fits([call[r] EXCEPT !.pc = "ok"])
      BY <1>7, <2>2, <1>0 DEF RecordDecision, At, Fits, Call, RunPoints
    <3> QED
      BY <1>7, <2>2, <3>1, LocalsKept DEF RecordDecision, Answer, Goto
  <2> QED
    BY <2>1, <2>2
<1>8. ASSUME NEW r \in Requests, RecordAuditEvent(r) PROVE Locals'
  <2>1. Fits([Idle EXCEPT !.pc = "ok"])
    BY IssuanceAssumption DEF Fits, Idle, Operation
  <2> QED
    BY <1>8, <2>1, LocalsKept DEF RecordAuditEvent
<1>9. ASSUME NEW r \in Requests, Abort(r) PROVE Locals'
  BY <1>9, LocalsDenied DEF Abort
<1>10. CASE UNCHANGED call
  BY <1>10 DEF Locals
<1> QED
  BY <1>1, <1>2, <1>3, <1>4, <1>5, <1>6, <1>7, <1>8, <1>9, <1>10
  DEF Next, RolesChange, StatusChange, UpdatePolicy, UpdatePolicyVersion, vars
LEMMA TypedInit == Init => Typed
  BY TypeInit, LocalsInit DEF Typed

LEMMA TypedNext == Typed /\ [Next]_vars => Typed'
  BY TypeNext, LocalsNext DEF Typed

LEMMA DrawnOnceNext == Typed /\ DrawnOnce /\ [Next]_vars => DrawnOnce'
<1> SUFFICES ASSUME Typed, DrawnOnce, [Next]_vars PROVE DrawnOnce'
  OBVIOUS
<1> USE IssuanceAssumption DEF DrawnOnce, Call, Fits, Idle, RunPoints, At, Become, Goto,
        tables, host
<1>0. \A r \in Requests : call[r] \in Call /\ Fits(call[r])
  BY CallTypes DEF Typed, Locals
<1>00. call \in [Requests -> Call]
  BY DEF Typed, TypeOK
<1>1. ASSUME NEW r \in Requests, Begin(r) PROVE DrawnOnce'
  BY <1>1, <1>0, <1>00 DEF Begin
<1>2. ASSUME NEW r \in Requests, ValidateSession(r) PROVE DrawnOnce'
  <2>1. CASE Deny(r)
    BY <1>0, <1>00, <1>2, <2>1 DEF ValidateSession, Deny
  <2>2. CASE ~Deny(r)
    <3> DEFINE point == IF call[r].op = "record" THEN "append" ELSE "scope"
    <3>1. /\ call' = [call EXCEPT ![r] = [call[r] EXCEPT
                                                !.roles = roles[call[r].who], !.pc = point]]
          /\ agent' = agent
      BY <1>2, <2>2 DEF ValidateSession
    <3>2. /\ call'[r].run = call[r].run /\ call'[r].who = call[r].who
          /\ call'[r].pc # "putRun"
      BY <1>0, <1>00, <3>1
    <3>3. \A q \in Requests : q # r => call'[q] = call[q]
      BY <1>00, <3>1
    <3> QED
      BY <3>1, <3>2, <3>3
  <2> QED
    BY <2>1, <2>2
<1>3. ASSUME NEW r \in Requests, Scope(r) PROVE DrawnOnce'
  BY <1>3, <1>0, <1>00 DEF Scope, AfterScope
<1>4. ASSUME NEW r \in Requests, PutAgent(r) PROVE DrawnOnce'
  <2>1. PICK i \in RunChoice(r) :
          /\ agent' = [agent EXCEPT ![i] = TenantOf[call[r].who]]
          /\ call' = [call EXCEPT ![r] = [call[r] EXCEPT !.pc = "putRun", !.run = i]]
    BY <1>4 DEF PutAgent
  <2>2. i \in RunIds /\ (i \in Named \/ Undrawn(i))
    BY <1>4, <1>0 DEF PutAgent, RunChoice
  <2>3. agent \in [RunIds -> {TenantOf[u] : u \in Users} \cup {None}]
    BY DEF Typed, TypeOK
  <2>4. call[r].who \in Users /\ TenantOf[call[r].who] # None
    BY <1>0, <1>4 DEF PutAgent
  <2>5. call'[r].run = i /\ call'[r].who = call[r].who
    BY <1>0, <1>00, <2>1
  <2>6. \A q \in Requests : q # r => call'[q] = call[q]
    BY <1>00, <2>1
  <2>7. \A q \in Requests : q # r /\ call[q].run \notin Named \cup {None} => call[q].run # i
    BY <2>2 DEF Undrawn
  <2>8. agent'[i] = TenantOf[call[r].who]
    BY <2>1, <2>2, <2>3
  <2>9. \A j \in RunIds : j # i => agent'[j] = agent[j]
    BY <2>1, <2>2, <2>3
  <2>10. \A q \in Requests : call[q].run \in RunIds \cup {None}
    BY <1>0
  <2>11. (\A q \in Requests : At(q, "putRun") => agent[call[q].run] # None)'
    BY <1>0, <2>4, <2>5, <2>6, <2>8, <2>9, <2>10
  <2>12. (\A q \in Requests :
            call[q].run \notin Named \cup {None} => agent[call[q].run] = TenantOf[call[q].who])'
    BY <2>5, <2>6, <2>7, <2>8, <2>9, <2>10
  <2>13. (\A q, s \in Requests :
            call[q].run = call[s].run /\ call[q].run \notin Named \cup {None} => q = s)'
    BY <2>5, <2>6, <2>7
  <2> QED
    BY <2>11, <2>12, <2>13
<1>5. ASSUME NEW r \in Requests, PutAgentRun(r) PROVE DrawnOnce'
  BY <1>5, <1>0, <1>00 DEF PutAgentRun
<1>6. ASSUME NEW r \in Requests, Sign(r) PROVE DrawnOnce'
  BY <1>6, <1>0, <1>00 DEF Sign
<1>7. ASSUME NEW r \in Requests, RecordDecision(r) PROVE DrawnOnce'
  BY <1>7, <1>0, <1>00 DEF RecordDecision, Answer, Deny, AppendAudit, AuditRow, Decision
<1>8. ASSUME NEW r \in Requests, RecordAuditEvent(r) PROVE DrawnOnce'
  BY <1>8, <1>0, <1>00 DEF RecordAuditEvent, AppendAudit, AuditRow, Decision
<1>9. ASSUME NEW r \in Requests, Abort(r) PROVE DrawnOnce'
  BY <1>9, <1>0, <1>00 DEF Abort, Deny
<1>10. ASSUME NEW u \in Users, RolesChange(u) PROVE DrawnOnce'
  BY <1>10, <1>0, <1>00 DEF RolesChange, Change, Noticed, NoNewRoles
<1>11. ASSUME NEW u \in Users, StatusChange(u) PROVE DrawnOnce'
  BY <1>11, <1>0, <1>00 DEF StatusChange, Change
<1>12. ASSUME NEW v \in Versions, UpdatePolicy(v) PROVE DrawnOnce'
  BY <1>12, <1>0, <1>00 DEF UpdatePolicy, Change, Noticed, NoNewRoles
<1>13. CASE UpdatePolicyVersion
  BY <1>13, <1>0, <1>00 DEF UpdatePolicyVersion
<1>14. CASE UNCHANGED vars
  BY <1>14 DEF vars, tables, host
<1> QED
  BY <1>1, <1>2, <1>3, <1>4, <1>5, <1>6, <1>7, <1>8, <1>9, <1>10, <1>11, <1>12, <1>13, <1>14
  DEF Next

LEMMA RunStoredNext == Typed /\ DrawnOnce /\ RunStored /\ [Next]_vars => RunStored'
<1> SUFFICES ASSUME Typed, DrawnOnce, RunStored, [Next]_vars PROVE RunStored'
  OBVIOUS
<1> USE IssuanceAssumption DEF RunStored, Call, Fits, Idle, RunPoints, At, Become, Goto,
        tables, host, DrawnOnce, TypeOK, RunRow
<1>0. \A r \in Requests : call[r] \in Call /\ Fits(call[r])
  BY CallTypes DEF Typed, Locals
<1>00. call \in [Requests -> Call]
  BY DEF Typed, TypeOK
<1>1. ASSUME NEW r \in Requests, Begin(r) PROVE RunStored'
  BY <1>1, <1>0, <1>00 DEF Begin
<1>2. ASSUME NEW r \in Requests, ValidateSession(r) PROVE RunStored'
  <2>1. CASE Deny(r)
    BY <1>0, <1>00, <1>2, <2>1 DEF ValidateSession, Deny
  <2>2. CASE ~Deny(r)
    <3> DEFINE point == IF call[r].op = "record" THEN "append" ELSE "scope"
    <3>1. /\ call' = [call EXCEPT ![r] = [call[r] EXCEPT
                                                !.roles = roles[call[r].who], !.pc = point]]
          /\ run' = run
      BY <1>2, <2>2 DEF ValidateSession
    <3>2. call'[r].pc \notin {"sign", "audit", "ok"}
      BY <1>0, <1>00, <3>1
    <3>3. \A q \in Requests : q # r => call'[q] = call[q]
      BY <1>00, <3>1
    <3> QED
      BY <3>1, <3>2, <3>3
  <2> QED
    BY <2>1, <2>2
<1>3. ASSUME NEW r \in Requests, Scope(r) PROVE RunStored'
  BY <1>3, <1>0, <1>00 DEF Scope, AfterScope
<1>4. ASSUME NEW r \in Requests, PutAgent(r) PROVE RunStored'
  BY <1>4, <1>0, <1>00 DEF PutAgent, RunChoice, Undrawn
<1>5. ASSUME NEW r \in Requests, PutAgentRun(r) PROVE RunStored'
  <2>1. /\ run' = [run EXCEPT ![call[r].run] =
              [actor |-> call[r].who, tenant |-> TenantOf[call[r].who]]]
        /\ call' = [call EXCEPT ![r] = [call[r] EXCEPT !.pc = "sign"]]
        /\ call[r].run \in RunIds
    BY <1>0, <1>5 DEF PutAgentRun
  <2>2. run \in [RunIds -> RunRow \cup {None}]
    BY DEF Typed, TypeOK
  <2>3. run'[call[r].run] = [actor |-> call[r].who, tenant |-> TenantOf[call[r].who]]
    BY <2>1, <2>2
  <2>4. /\ call'[r].who = call[r].who /\ call'[r].run = call[r].run
        /\ \A q \in Requests : q # r => call'[q] = call[q]
    BY <1>0, <1>00, <2>1
  <2>5. ASSUME NEW q \in Requests, q # r, call[q].op = "delegate",
               call[q].pc \in {"sign", "audit", "ok"}, call[q].run \notin Named
        PROVE  run'[call[q].run] = run[call[q].run]
    <3>1. call[q].run \in RunIds
      BY <1>0, <2>5
    <3>2. call[q].run # call[r].run
      BY <2>5, <3>1
    <3> QED
      BY <2>1, <2>2, <3>1, <3>2
  <2> QED
    BY <2>3, <2>4, <2>5
<1>6. ASSUME NEW r \in Requests, Sign(r) PROVE RunStored'
  BY <1>6, <1>0, <1>00 DEF Sign
<1>7. ASSUME NEW r \in Requests, RecordDecision(r) PROVE RunStored'
  BY <1>7, <1>0, <1>00 DEF RecordDecision, Answer, Deny, AppendAudit, AuditRow, Decision
<1>8. ASSUME NEW r \in Requests, RecordAuditEvent(r) PROVE RunStored'
  <2>1. /\ run' = run
        /\ call'[r] = [Idle EXCEPT !.pc = "ok"]
        /\ \A q \in Requests : q # r => call'[q] = call[q]
    BY <1>00, <1>8 DEF RecordAuditEvent
  <2>2. call'[r].op # "delegate"
    BY <2>1 DEF Operation
  <2> QED
    BY <2>1, <2>2
<1>9. ASSUME NEW r \in Requests, Abort(r) PROVE RunStored'
  BY <1>9, <1>0, <1>00 DEF Abort, Deny
<1>10. ASSUME NEW u \in Users, RolesChange(u) PROVE RunStored'
  BY <1>10, <1>0, <1>00 DEF RolesChange, Change, Noticed, NoNewRoles
<1>11. ASSUME NEW u \in Users, StatusChange(u) PROVE RunStored'
  BY <1>11, <1>0, <1>00 DEF StatusChange, Change
<1>12. ASSUME NEW v \in Versions, UpdatePolicy(v) PROVE RunStored'
  BY <1>12, <1>0, <1>00 DEF UpdatePolicy, Change, Noticed, NoNewRoles
<1>13. CASE UpdatePolicyVersion
  BY <1>13, <1>0, <1>00 DEF UpdatePolicyVersion
<1>14. CASE UNCHANGED vars
  BY <1>14 DEF vars, tables, host
<1> QED
  BY <1>1, <1>2, <1>3, <1>4, <1>5, <1>6, <1>7, <1>8, <1>9, <1>10, <1>11, <1>12, <1>13, <1>14
  DEF Next

LEMMA AgentsHaveRunsNext == Typed /\ DrawnOnce /\ AgentsHaveRuns /\ [Next]_vars => AgentsHaveRuns'
<1> SUFFICES ASSUME Typed, DrawnOnce, AgentsHaveRuns, [Next]_vars PROVE AgentsHaveRuns'
  OBVIOUS
<1> USE IssuanceAssumption DEF AgentsHaveRuns, Call, Fits, Idle, RunPoints, At, Become, Goto,
        tables, host, DrawnOnce
<1>0. \A r \in Requests : call[r] \in Call /\ Fits(call[r])
  BY CallTypes DEF Typed, Locals
<1>00. call \in [Requests -> Call]
  BY DEF Typed, TypeOK
<1>1. ASSUME NEW r \in Requests, Begin(r) PROVE AgentsHaveRuns'
  BY <1>1, <1>0, <1>00 DEF Begin
<1>2. ASSUME NEW r \in Requests, ValidateSession(r) PROVE AgentsHaveRuns'
  BY <1>2, <1>0, <1>00 DEF ValidateSession, Deny
<1>3. ASSUME NEW r \in Requests, Scope(r) PROVE AgentsHaveRuns'
  BY <1>3, <1>0, <1>00 DEF Scope, AfterScope
<1>4. ASSUME NEW r \in Requests, PutAgent(r) PROVE AgentsHaveRuns'
  BY <1>4, <1>0, <1>00 DEF PutAgent, RunChoice, Undrawn
<1>5. ASSUME NEW r \in Requests, PutAgentRun(r) PROVE AgentsHaveRuns'
  <2> DEFINE row == [actor |-> call[r].who, tenant |-> TenantOf[call[r].who]]
  <2>1. /\ run' = [run EXCEPT ![call[r].run] = row]
        /\ call' = [call EXCEPT ![r] = [call[r] EXCEPT !.pc = "sign"]]
        /\ agent' = agent /\ left' = left
        /\ call[r].run \in RunIds /\ call[r].who \in Users /\ agent[call[r].run] # None
    BY <1>0, <1>5 DEF PutAgentRun
  <2>2. run \in [RunIds -> RunRow \cup {None}]
    BY DEF Typed, TypeOK
  <2>3. row # None
    BY <2>1 DEF RunRow
  <2> HIDE DEF row
  <2>4. run'[call[r].run] # None
    BY <2>1, <2>2, <2>3
  <2>5. \A i \in RunIds : i # call[r].run => run'[i] = run[i]
    BY <2>1, <2>2
  <2>6. \A q \in Requests : q # r => call'[q] = call[q]
    BY <1>00, <2>1
  <2> QED
    BY <2>1, <2>4, <2>5, <2>6
<1>6. ASSUME NEW r \in Requests, Sign(r) PROVE AgentsHaveRuns'
  BY <1>6, <1>0, <1>00 DEF Sign
<1>7. ASSUME NEW r \in Requests, RecordDecision(r) PROVE AgentsHaveRuns'
  BY <1>7, <1>0, <1>00 DEF RecordDecision, Answer, Deny, AppendAudit, AuditRow, Decision
<1>8. ASSUME NEW r \in Requests, RecordAuditEvent(r) PROVE AgentsHaveRuns'
  BY <1>8, <1>0, <1>00 DEF RecordAuditEvent, AppendAudit, AuditRow, Decision
<1>9. ASSUME NEW r \in Requests, Abort(r) PROVE AgentsHaveRuns'
  BY <1>9, <1>0, <1>00 DEF Abort, Deny
<1>10. ASSUME NEW u \in Users, RolesChange(u) PROVE AgentsHaveRuns'
  BY <1>10, <1>0, <1>00 DEF RolesChange, Change, Noticed, NoNewRoles
<1>11. ASSUME NEW u \in Users, StatusChange(u) PROVE AgentsHaveRuns'
  BY <1>11, <1>0, <1>00 DEF StatusChange, Change
<1>12. ASSUME NEW v \in Versions, UpdatePolicy(v) PROVE AgentsHaveRuns'
  BY <1>12, <1>0, <1>00 DEF UpdatePolicy, Change, Noticed, NoNewRoles
<1>13. CASE UpdatePolicyVersion
  BY <1>13, <1>0, <1>00 DEF UpdatePolicyVersion
<1>14. CASE UNCHANGED vars
  BY <1>14 DEF vars, tables, host
<1> QED
  BY <1>1, <1>2, <1>3, <1>4, <1>5, <1>6, <1>7, <1>8, <1>9, <1>10, <1>11, <1>12, <1>13, <1>14
  DEF Next

LEMMA AuditLastNext == Typed /\ AuditLast /\ [Next]_vars => AuditLast'
<1> SUFFICES ASSUME Typed, AuditLast, [Next]_vars PROVE AuditLast'
  OBVIOUS
<1> USE IssuanceAssumption DEF AuditLast, Call, Fits, Idle, RunPoints, At, Become, Goto,
        tables, host, HasAgentToken, Running
<1>0. \A r \in Requests : call[r] \in Call /\ Fits(call[r])
  BY CallTypes DEF Typed, Locals
<1>00. call \in [Requests -> Call]
  BY DEF Typed, TypeOK
<1>1. ASSUME NEW r \in Requests, Begin(r) PROVE AuditLast'
  BY <1>1, <1>0, <1>00 DEF Begin
<1>2. ASSUME NEW r \in Requests, ValidateSession(r) PROVE AuditLast'
  BY <1>2, <1>0, <1>00 DEF ValidateSession, Deny
<1>3. ASSUME NEW r \in Requests, Scope(r) PROVE AuditLast'
  BY <1>3, <1>0, <1>00 DEF Scope, AfterScope
<1>4. ASSUME NEW r \in Requests, PutAgent(r) PROVE AuditLast'
  BY <1>4, <1>0, <1>00 DEF PutAgent, RunChoice, Undrawn
<1>5. ASSUME NEW r \in Requests, PutAgentRun(r) PROVE AuditLast'
  BY <1>5, <1>0, <1>00 DEF PutAgentRun
<1>6. ASSUME NEW r \in Requests, Sign(r) PROVE AuditLast'
  BY <1>6, <1>0, <1>00 DEF Sign
<1>7. ASSUME NEW r \in Requests, RecordDecision(r) PROVE AuditLast'
  <2>1. /\ \A q \in Requests : q # r => call'[q] = call[q] /\ audit'[q] = audit[q]
        /\ audit'[r] = audit[r] \/ audit'[r] = AuditRow(r)
    BY <1>00, <1>7 DEF RecordDecision, Answer, Deny, AppendAudit, Typed, TypeOK
  <2>2. CASE At(r, "refuse")
    BY <1>7, <1>00, <2>1, <2>2 DEF RecordDecision, Answer, Deny
  <2>3. CASE At(r, "audit")
    <3>1. call'[r].pc = "ok" /\ call'[r].op = call[r].op /\ call'[r].run = call[r].run
            /\ call'[r].who = call[r].who
      BY <1>0, <1>00, <1>7, <2>3 DEF RecordDecision, Answer
    <3>2. audit[r] = None
      BY <2>3
    <3>3. call[r].op = "delegate" =>
            AuditRow(r).principal = call[r].run /\ AuditRow(r).actor = call[r].who
      BY <1>0, <2>3 DEF AuditRow
    <3> QED
      BY <2>1, <3>1, <3>2, <3>3
  <2> QED
    BY <1>7, <2>2, <2>3 DEF RecordDecision
<1>8. ASSUME NEW r \in Requests, RecordAuditEvent(r) PROVE AuditLast'
  <2>1. /\ \A q \in Requests : q # r => call'[q] = call[q] /\ audit'[q] = audit[q]
        /\ call'[r] = [Idle EXCEPT !.pc = "ok"]
    BY <1>00, <1>8 DEF RecordAuditEvent, AppendAudit, Typed, TypeOK
  <2>2. call'[r].op # "delegate" /\ call'[r].pc = "ok"
    BY <2>1 DEF Operation
  <2> QED
    BY <2>1, <2>2
<1>9. ASSUME NEW r \in Requests, Abort(r) PROVE AuditLast'
  BY <1>9, <1>0, <1>00 DEF Abort, Deny
<1>10. ASSUME NEW u \in Users, RolesChange(u) PROVE AuditLast'
  BY <1>10, <1>0, <1>00 DEF RolesChange, Change, Noticed, NoNewRoles
<1>11. ASSUME NEW u \in Users, StatusChange(u) PROVE AuditLast'
  BY <1>11, <1>0, <1>00 DEF StatusChange, Change
<1>12. ASSUME NEW v \in Versions, UpdatePolicy(v) PROVE AuditLast'
  BY <1>12, <1>0, <1>00 DEF UpdatePolicy, Change, Noticed, NoNewRoles
<1>13. CASE UpdatePolicyVersion
  BY <1>13, <1>0, <1>00 DEF UpdatePolicyVersion
<1>14. CASE UNCHANGED vars
  BY <1>14 DEF vars, tables, host
<1> QED
  BY <1>1, <1>2, <1>3, <1>4, <1>5, <1>6, <1>7, <1>8, <1>9, <1>10, <1>11, <1>12, <1>13, <1>14
  DEF Next

LEMMA TableInit == Init => TableInv
<1> SUFFICES ASSUME Init PROVE TableInv
  OBVIOUS
<1>1. \A r \in Requests : call[r].pc = "idle" /\ call[r].op = None /\ call[r].run = None
  BY DEF Init, Idle
<1>2. DrawnOnce /\ RunStored /\ AuditLast /\ AgentsHaveRuns
  BY <1>1, IssuanceAssumption
  DEF Init, DrawnOnce, RunStored, AuditLast, AgentsHaveRuns, At, HasAgentToken, Operation
<1> QED
  BY <1>2, TypeInit, LocalsInit DEF TableInv

LEMMA TableNext == TableInv /\ [Next]_vars => TableInv'
  BY TypedNext, DrawnOnceNext, RunStoredNext, AgentsHaveRunsNext, AuditLastNext DEF Typed, TableInv

LEMMA CallInit == Init => CallInv
  BY DEF Init, CallInv, ScopesMet, QuietInv, Met, Quiet, At, Idle, Unseen

\* What one call does concerns no other.
LEMMA OneCall ==
  ASSUME CallInv, NEW r \in Requests, UNCHANGED <<roles, policy, version>>,
         \A q \in Requests : q # r => call'[q] = call[q] /\ seen'[q] = seen[q],
         Met(r)', Quiet(r)'
  PROVE  CallInv'
<1>1. ASSUME NEW q \in Requests, q # r PROVE Met(q)' /\ Quiet(q)'
  <2>1. Met(q) /\ Quiet(q) /\ call'[q] = call[q] /\ seen'[q] = seen[q]
    BY <1>1 DEF CallInv, ScopesMet, QuietInv
  <2> QED
    BY <2>1 DEF Met, Quiet, At, Running
<1> QED
  BY <1>1 DEF CallInv, ScopesMet, QuietInv

LEMMA DeniedCall ==
  ASSUME Typed, CallInv, NEW r \in Requests, Deny(r), UNCHANGED <<roles, policy, version>>
  PROVE  CallInv'
<1>1. /\ call'[r] = [Idle EXCEPT !.pc = "denied"] /\ seen'[r] = Unseen
      /\ \A q \in Requests : q # r => call'[q] = call[q] /\ seen'[q] = seen[q]
  BY DEF Deny, Become, Typed, TypeOK
<1>2. call'[r].pc = "denied" /\ ~seen'[r].quiet
  BY <1>1 DEF Idle, Unseen
<1> QED
  BY <1>1, <1>2, OneCall DEF Met, Quiet, At, Running

LEMMA CallNext == Typed /\ CallInv /\ [Next]_vars => CallInv'
<1> SUFFICES ASSUME Typed, CallInv, [Next]_vars PROVE CallInv'
  OBVIOUS
<1>0. ASSUME NEW r \in Requests
      PROVE  call[r] \in Call /\ seen[r] \in Seen /\ Fits(call[r]) /\ Met(r) /\ Quiet(r)
  BY CallTypes DEF Typed, TypeOK, Locals, CallInv, ScopesMet, QuietInv
<1>00. call \in [Requests -> Call] /\ seen \in [Requests -> Seen]
  BY DEF Typed, TypeOK
<1>1. ASSUME NEW r \in Requests, Begin(r) PROVE CallInv'
  <2>1. PICK op \in Ops, u \in Users, a \in Asks, i \in Named \cup {None} :
          /\ Become(r, [Idle EXCEPT !.pc = "validate", !.op = op, !.who = u, !.run = i,
                              !.ask = IF op \in {"sign", "delegate"} THEN a ELSE None])
          /\ seen' = [seen EXCEPT ![r] =
                 [roles |-> {roles[u]}, policies |-> {policy}, quiet |-> version = policy.version]]
    BY <1>1 DEF Begin
  <2>2. /\ call'[r].pc = "validate" /\ call'[r].who = u
        /\ seen'[r] = [roles |-> {roles[u]}, policies |-> {policy},
                        quiet |-> version = policy.version]
        /\ \A q \in Requests : q # r => call'[q] = call[q] /\ seen'[q] = seen[q]
    BY <1>00, <2>1 DEF Become, Idle
  <2>3. UNCHANGED <<roles, policy, version>>
    BY <1>1 DEF Begin, tables, host
  <2>4. seen'[r].roles = {roles[u]} /\ seen'[r].policies = {policy}
          /\ seen'[r].quiet = (version = policy.version)
    BY <2>2
  <2>5. Met(r)'
    BY <2>2, <2>3, <2>4 DEF Met, At
  <2>6. Quiet(r)'
    BY <2>2, <2>3, <2>4 DEF Quiet, At, Running
  <2> QED
    BY <2>2, <2>3, <2>5, <2>6, OneCall
<1>2. ASSUME NEW r \in Requests, ValidateSession(r) PROVE CallInv'
  <2>1. UNCHANGED <<roles, policy, version>>
    BY <1>2 DEF ValidateSession, tables, host
  <2>2. CASE Deny(r)
    BY <2>1, <2>2, DeniedCall
  <2>3. CASE ~Deny(r)
    <3> DEFINE point == IF call[r].op = "record" THEN "append" ELSE "scope"
    <3>1. /\ call' = [call EXCEPT ![r] = [call[r] EXCEPT
                                                !.roles = roles[call[r].who], !.pc = point]]
          /\ seen' = seen /\ call[r].pc = "validate"
      BY <1>2, <2>3 DEF ValidateSession, Become, At
    <3>2. /\ call'[r].roles = roles[call[r].who]
          /\ call'[r].pc \in {"scope", "append"}
          /\ \A q \in Requests : q # r => call'[q] = call[q] /\ seen'[q] = seen[q]
      BY <1>0, <1>00, <3>1 DEF Call
    <3>3. Met(r) /\ Quiet(r)
      BY <1>0
    <3>4. Met(r)' /\ Quiet(r)'
      BY <2>1, <3>1, <3>2, <3>3 DEF Met, Quiet, At, Running
    <3> QED
      BY <2>1, <3>2, <3>4, OneCall
  <2> QED
    BY <2>2, <2>3
<1>3. ASSUME NEW r \in Requests, Scope(r) PROVE CallInv'
  <2> DEFINE c == call[r]
  <2> DEFINE point == AfterScope(r, ScopesOf(r))
  <2>1. /\ UNCHANGED <<roles, policy, version>> /\ seen' = seen /\ c.pc = "scope"
        /\ call' = [call EXCEPT ![r] = [call[r] EXCEPT !.pc = point, !.scopes = ScopesOf(r),
                                               !.roles = {}, !.source = policy.version]]
    BY <1>3 DEF Scope, Become, tables, host, At
  <2>2. /\ call'[r].pc = point /\ call'[r].scopes = ScopesOf(r)
        /\ call'[r].source = policy.version
        /\ call'[r].op = c.op /\ call'[r].ask = c.ask
        /\ \A q \in Requests : q # r => call'[q] = call[q] /\ seen'[q] = seen[q]
    BY <1>0, <1>00, <2>1 DEF Call
  <2>3. /\ policy \in seen[r].policies /\ c.roles \in seen[r].roles
        /\ c.op \in {"sign", "delegate", "inspect"}
        /\ seen[r].quiet => version = policy.version
    BY <1>0, <2>1 DEF Met, Quiet, Fits, At, Running
  <2>4. point \in {"refuse", "putAgent", "sign"}
    BY DEF AfterScope
  <2>5. c.op \in {"sign", "delegate"} =>
          /\ ScopesOf(r) \subseteq
                ScopesForActions(Table(policy), c.roles, c.ask.audience, c.ask.actions)
          /\ c.op = "delegate" /\ c.ask.scopes # {} => ScopesOf(r) \subseteq c.ask.scopes
    BY DEF ScopesOf, Delegated
  <2>6. Quiet(r)'
    BY <2>1, <2>2, <2>3, <2>4 DEF Quiet, At, Running
  <2>7. Met(r)'
    <3> HIDE DEF c, point
    <3>1. CASE c.op = "inspect"
      BY <2>2, <2>4, <3>1 DEF Met, At
    <3>2. CASE c.op \in {"sign", "delegate"}
      <4>1. \E p \in seen'[r].policies, R \in seen'[r].roles :
              call'[r].scopes \subseteq
                  ScopesForActions(Table(p), R, call'[r].ask.audience, call'[r].ask.actions)
        BY <2>1, <2>2, <2>3, <2>5, <3>2
      <4>2. call'[r].op = "delegate" /\ call'[r].ask.scopes # {} =>
              call'[r].scopes \subseteq call'[r].ask.scopes
        BY <2>2, <2>5, <3>2
      <4> QED
        BY <2>2, <2>4, <4>1, <4>2 DEF Met, At
    <3> QED
      BY <2>3, <3>1, <3>2
  <2> QED
    BY <2>1, <2>2, <2>6, <2>7, OneCall
<1>4. ASSUME NEW r \in Requests, PutAgent(r) \/ PutAgentRun(r) PROVE CallInv'
  <2>1. /\ UNCHANGED <<roles, policy, version>> /\ seen' = seen
        /\ call[r].pc \in {"putAgent", "putRun"}
    BY <1>4 DEF PutAgent, PutAgentRun, host, At
  <2>2. /\ call'[r].pc \in {"putRun", "sign"} /\ call'[r].scopes = call[r].scopes
        /\ call'[r].source = call[r].source
        /\ call'[r].op = call[r].op /\ call'[r].ask = call[r].ask
        /\ \A q \in Requests : q # r => call'[q] = call[q] /\ seen'[q] = seen[q]
    <3>1. CASE PutAgent(r)
      <4>1. PICK i \in RunChoice(r) :
              call' = [call EXCEPT ![r] = [call[r] EXCEPT !.pc = "putRun", !.run = i]]
        BY <3>1 DEF PutAgent, Become
      <4> QED
        BY <1>0, <1>00, <2>1, <4>1 DEF Call
    <3>2. CASE PutAgentRun(r)
      <4>1. call' = [call EXCEPT ![r] = [call[r] EXCEPT !.pc = "sign"]]
        BY <3>2 DEF PutAgentRun, Goto, Become
      <4> QED
        BY <1>0, <1>00, <2>1, <4>1 DEF Call
    <3> QED
      BY <1>4, <3>1, <3>2
  <2>3. Met(r) /\ Quiet(r)
    BY <1>0
  <2>4. Met(r)'
    BY <2>1, <2>2, <2>3 DEF Met, At
  <2>5. Quiet(r)'
    BY <2>1, <2>2, <2>3 DEF Quiet, At, Running
  <2> QED
    BY <2>1, <2>2, <2>4, <2>5, OneCall
<1>5. ASSUME NEW r \in Requests, Sign(r) PROVE CallInv'
  <2> DEFINE point == IF call[r].op = "inspect" THEN "ok" ELSE "audit"
  <2>1. /\ UNCHANGED <<roles, policy, version>> /\ seen' = seen /\ call[r].pc = "sign"
        /\ call' = [call EXCEPT ![r] = [call[r] EXCEPT !.version = version, !.pc = point]]
    BY <1>5 DEF Sign, Become, tables, host, At
  <2>2. /\ call'[r].pc \in {"ok", "audit"} /\ call'[r].scopes = call[r].scopes
        /\ call'[r].source = call[r].source /\ call'[r].version = version
        /\ call'[r].op = call[r].op /\ call'[r].ask = call[r].ask
        /\ \A q \in Requests : q # r => call'[q] = call[q] /\ seen'[q] = seen[q]
    BY <1>0, <1>00, <2>1 DEF Call
  <2>3. Met(r) /\ Quiet(r)
    BY <1>0
  <2>4. Met(r)'
    BY <2>1, <2>2, <2>3 DEF Met, At
  <2>5. Quiet(r)'
    BY <2>1, <2>2, <2>3 DEF Quiet, At, Running
  <2> QED
    BY <2>1, <2>2, <2>4, <2>5, OneCall
<1>6. ASSUME NEW r \in Requests, RecordDecision(r) PROVE CallInv'
  <2>1. UNCHANGED <<roles, policy, version>>
    BY <1>6 DEF RecordDecision, host
  <2>2. CASE Deny(r)
    BY <2>1, <2>2, DeniedCall
  <2>3. CASE ~Deny(r)
    <3>1. /\ seen' = seen /\ call[r].pc = "audit"
          /\ call' = [call EXCEPT ![r] = [call[r] EXCEPT !.pc = "ok"]]
      BY <1>6, <2>3 DEF RecordDecision, Answer, Goto, Become, At
    <3>2. /\ call'[r].pc = "ok" /\ call'[r].scopes = call[r].scopes
          /\ call'[r].source = call[r].source /\ call'[r].version = call[r].version
          /\ call'[r].op = call[r].op /\ call'[r].ask = call[r].ask
          /\ \A q \in Requests : q # r => call'[q] = call[q] /\ seen'[q] = seen[q]
      BY <1>0, <1>00, <3>1 DEF Call
    <3>3. Met(r) /\ Quiet(r)
      BY <1>0
    <3>4. Met(r)'
      BY <2>1, <3>1, <3>2, <3>3 DEF Met, At
    <3>5. Quiet(r)'
      BY <2>1, <3>1, <3>2, <3>3 DEF Quiet, At, Running
    <3> QED
      BY <2>1, <3>2, <3>4, <3>5, OneCall
  <2> QED
    BY <2>2, <2>3
<1>7. ASSUME NEW r \in Requests, RecordAuditEvent(r) PROVE CallInv'
  <2>1. /\ UNCHANGED <<roles, policy, version>>
        /\ call'[r] = [Idle EXCEPT !.pc = "ok"] /\ seen'[r] = Unseen
        /\ \A q \in Requests : q # r => call'[q] = call[q] /\ seen'[q] = seen[q]
    BY <1>7, <1>00 DEF RecordAuditEvent, Become, host
  <2>2. call'[r].pc = "ok" /\ call'[r].op \notin {"sign", "delegate"} /\ ~seen'[r].quiet
    BY <2>1, IssuanceAssumption DEF Idle, Unseen, Operation
  <2>3. Met(r)' /\ Quiet(r)'
    BY <2>2 DEF Met, Quiet, At
  <2> QED
    BY <2>1, <2>3, OneCall
<1>8. ASSUME NEW r \in Requests, Abort(r) PROVE CallInv'
  BY <1>8, DeniedCall DEF Abort, tables, host
<1>9. ASSUME NEW u \in Users, RolesChange(u) PROVE CallInv'
  <2>1. PICK R \in RoleSets :
          /\ roles' = [roles EXCEPT ![u] = R]
          /\ Noticed([NoNewRoles EXCEPT ![u] = {R}], policy, TRUE)
    BY <1>9 DEF RolesChange
  <2>2. UNCHANGED <<policy, version, call>>
    BY <1>9 DEF RolesChange, host
  <2>3. SUFFICES ASSUME NEW r \in Requests PROVE Met(r)' /\ Quiet(r)'
    BY DEF CallInv, ScopesMet, QuietInv
  <2> DEFINE new == [NoNewRoles EXCEPT ![u] = {R}]
  <2>4. /\ seen'[r].roles =
              IF At(r, "validate") THEN seen[r].roles \cup new[call[r].who] ELSE seen[r].roles
        /\ seen'[r].policies =
              IF At(r, "validate") \/ At(r, "scope")
              THEN seen[r].policies \cup {policy} ELSE seen[r].policies
        /\ seen'[r].quiet = seen[r].quiet
    BY <1>0, <2>1 DEF Noticed, Seen
  <2>5. Met(r) /\ Quiet(r) /\ roles \in [Users -> RoleSets]
    BY <1>0 DEF Typed, TypeOK
  <2>6. At(r, "validate") => roles'[call[r].who] \in seen'[r].roles
    <3> SUFFICES ASSUME At(r, "validate") PROVE roles'[call[r].who] \in seen'[r].roles
      OBVIOUS
    <3>1. call[r].who \in Users
      BY <1>0 DEF Fits, At
    <3>2. CASE call[r].who = u
      BY <2>1, <2>4, <2>5, <3>1, <3>2 DEF NoNewRoles
    <3>3. CASE call[r].who # u
      BY <2>1, <2>4, <2>5, <3>1, <3>3 DEF Met
    <3> QED
      BY <3>2, <3>3
  <2>7. seen[r].roles \subseteq seen'[r].roles /\ seen[r].policies \subseteq seen'[r].policies
    BY <2>4
  <2>8. Met(r)'
    <3> HIDE DEF new
    <3> QED
      BY <2>2, <2>4, <2>5, <2>6, <2>7 DEF Met, At
  <2>9. Quiet(r)'
    BY <2>2, <2>4, <2>5 DEF Quiet, At, Running
  <2> QED
    BY <2>8, <2>9
<1>10. ASSUME NEW v \in Versions, UpdatePolicy(v) PROVE CallInv'
  <2>1. UNCHANGED <<roles, version, call>> /\ Noticed(NoNewRoles, policy', FALSE)
    BY <1>10 DEF UpdatePolicy, tables
  <2>2. SUFFICES ASSUME NEW r \in Requests PROVE Met(r)' /\ Quiet(r)'
    BY DEF CallInv, ScopesMet, QuietInv
  <2>3. call[r].who \in Users \cup {None}
    BY <1>0 DEF Call
  <2>4. /\ seen'[r].roles = seen[r].roles
        /\ seen'[r].policies =
              IF At(r, "validate") \/ At(r, "scope")
              THEN seen[r].policies \cup {policy'} ELSE seen[r].policies
        /\ seen'[r].quiet => seen[r].quiet /\ ~Running(r)
    BY <1>0, <2>1, <2>3 DEF Noticed, Seen, NoNewRoles
  <2>5. Met(r) /\ Quiet(r)
    BY <1>0
  <2>6. Met(r)'
    BY <2>1, <2>4, <2>5 DEF Met, At
  <2>7. Quiet(r)'
    BY <2>1, <2>4, <2>5 DEF Quiet, At, Running
  <2> QED
    BY <2>6, <2>7
<1>11. CASE UpdatePolicyVersion
  <2>1. SUFFICES ASSUME NEW r \in Requests PROVE Met(r)' /\ Quiet(r)'
    BY DEF CallInv, ScopesMet, QuietInv
  <2>2. UNCHANGED <<roles, policy, call, seen>> /\ version # policy.version
    BY <1>11 DEF UpdatePolicyVersion, tables
  <2>3. Met(r) /\ Quiet(r)
    BY <1>0
  <2> QED
    BY <2>2, <2>3 DEF Met, Quiet, At, Running
<1>12. CASE UNCHANGED <<roles, policy, version, call, seen>>
  BY <1>12 DEF CallInv, ScopesMet, QuietInv, Met, Quiet, At, Running
<1> QED
  BY <1>1, <1>2, <1>3, <1>4, <1>5, <1>6, <1>7, <1>8, <1>9, <1>10, <1>11, <1>12
  DEF Next, StatusChange, vars, tables, host
----------------------------------------------------------------------------
(* What follows for every behaviour.                                       *)

\* Tables, calls and history keep their shape, calls know what their operation
\* needs, and what they answer rests on what was in force while they ran
\* (service.go:697-712, 1048-1084).
THEOREM IssuanceInvariant == Spec => []IInv
<1>1. Init => IInv
  BY TableInit, CallInit DEF IInv
<1>2. IInv /\ [Next]_vars => IInv'
  BY TableNext, CallNext DEF IInv, TableInv, Typed
<1> QED
  BY <1>1, <1>2, PTL DEF Spec

\* A token is for no more than the actor's roles allowed during the call, and an
\* agent's token for no more than was asked besides (SignInternalJWT,
\* DelegateAgent).
THEOREM TokensWithinActor == Spec => []TokenWithinActor
<1>1. IInv => TokenWithinActor
  BY DEF IInv, CallInv, ScopesMet, Met, TokenWithinActor, Signed, HasAgentToken, At
<1> QED
  BY <1>1, IssuanceInvariant, PTL

\* A run has its agent, and an agent without a run is being made or was left by
\* a failed delegation (DelegateAgent).
THEOREM RunsHaveAgents == Spec => []AgentsHaveRuns
<1>1. IInv => AgentsHaveRuns
  BY DEF IInv, TableInv
<1> QED
  BY <1>1, IssuanceInvariant, PTL

\* An agent's token leads to whom it acts for, through the audit row and, if its
\* ID was drawn, through the stored run (DelegateAgent, auditWithActor).
THEOREM AgentsTraceable == Spec => []AgentTraceable
<1>1. IInv => AgentTraceable
  <2> SUFFICES ASSUME IInv, NEW r \in Requests, HasAgentToken(r)
               PROVE  LET i == call[r].run
                          actor == call[r].who
                      IN  /\ audit[r] # None => audit[r].principal = i /\ audit[r].actor = actor
                          /\ i \notin Named =>
                                /\ run[i] = [actor |-> actor, tenant |-> TenantOf[actor]]
                                /\ agent[i] = TenantOf[actor]
    BY DEF AgentTraceable
  <2>1. call[r].run \in RunIds
    BY DEF IInv, TableInv, Locals, Fits, RunPoints, HasAgentToken, At
  <2>2. call[r].run # None
    BY <2>1, IssuanceAssumption
  <2> QED
    BY <2>2 DEF IInv, TableInv, AuditLast, DrawnOnce, RunStored, HasAgentToken, At
<1> QED
  BY <1>1, IssuanceInvariant, PTL

\* Without a reload during the call the version of an answer is that of the
\* policy its scopes are from (UpdatePolicy, UpdatePolicyVersion).
THEOREM QuietAnswers == Spec => []QuietAnswersMatch
<1>1. IInv => QuietAnswersMatch
  BY DEF IInv, CallInv, QuietInv, Quiet, QuietAnswersMatch
<1> QED
  BY <1>1, IssuanceInvariant, PTL
=============================================================================
