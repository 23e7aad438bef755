---------------------- MODULE WardenCredentials_proofs ----------------------
(***************************************************************************)
(* API keys, device codes and service accounts of WardenCredentials, for   *)
(* any number of people, accounts, keys, codes and requests.               *)
(***************************************************************************)
EXTENDS WardenCredentials, TLAPS

----------------------------------------------------------------------------
(* The invariant.                                                          *)

\* Which points each operation passes, and which locals it has there.
Shape(c) ==
    \/ c.pc \in Finished \cup {"idle"} /\ c = [Idle EXCEPT !.pc = c.pc]
    \/ c.op = "createKey" /\ c.pc \in {"authorize", "scope", "putKey"} /\ c.who \in Users
    \/ /\ c.op = "createAccount" /\ c.who \in Users
       /\ \/ c.pc \in {"authorize", "scope"}
          \/ c.pc \in {"putPrincipal", "putAccount", "putKey"} /\ c.arg \in Created
    \/ /\ c.op = "disableAccount" /\ c.who \in Users /\ c.arg \in Accounts
       /\ c.pc \in {"authorize", "disableAccount", "disablePrincipal"}
    \/ /\ c.op = "revokeKey" /\ c.who \in Users /\ c.arg \in KeyIds
       /\ c.pc \in {"authorize", "revokeKey"}
    \/ /\ c.op = "approve" /\ c.who \in Users /\ c.arg \in Codes
       /\ c.pc \in {"authorize", "readUserCode", "putApproval"}
    \/ /\ c.op = "exchange" /\ c.arg \in Codes
       /\ \/ c.pc = "readCode"
          \/ c.pc \in {"readOwner", "putKey", "consume"} /\ c.who \in Users
          \/ c.pc = "scope" /\ c.who \in Users /\ c.roles \in RoleSets
    \/ /\ c.op \in KeyOps /\ c.arg \in KeyIds
       /\ \/ c.pc = "readKey"
          \/ c.pc \in {"readOwner", "touch", "ok"} /\ c.who \in Holders
          \/ c.pc = "sign" /\ c.op = "useKey" /\ c.who \in Holders
    \/ /\ c.op = "client" /\ c.arg \in Projected /\ c.who = c.arg
       /\ c.pc \in {"readTenant", "putTenant", "projectPrincipal", "projectAccount", "sign"}

Shapes == \A r \in Requests : Shape(call[r])

\* Whoever a code or a call of the device flow acts for asked to approve it.
DeviceApproved ==
    \A c \in Codes : device[c] # Unissued /\ device[c].status # "pending" =>
        <<device[c].principal, c>> \in approvals
CallApproved(c) ==
    /\ \/ c.op = "approve" /\ c.pc \in {"readUserCode", "putApproval"}
       \/ c.op = "exchange" /\ c.pc \in {"readOwner", "scope", "putKey", "consume"}
       => <<c.who, c.arg>> \in approvals
    /\ \/ c.op = "approve" /\ c.pc = "putApproval"
       \/ c.op = "exchange" /\ c.pc \in {"readOwner", "scope", "putKey", "consume"}
       => device[c.arg] # Unissued
Approvals ==
    /\ DeviceApproved /\ DeviceKeyWasApproved
    /\ \A k \in KeyIds : key[k] = Unissued => origin[k] = None
    /\ \A r \in Requests : CallApproved(call[r])

Base == TypeOK /\ Shapes /\ Approvals

\* An account that is being created is nobody else's, and has its rows in order.
Creating(c) == c.op = "createAccount" /\ c.pc \in {"putPrincipal", "putAccount", "putKey"}
Creation(c) ==
    /\ Creating(c) =>
          /\ c.pc \in {"putPrincipal", "putAccount"} => account[c.arg] = Unissued
          /\ c.pc \in {"putAccount", "putKey"} => status[c.arg] # "none"
          /\ c.pc = "putKey" => account[c.arg] # Unissued /\ account[c.arg].createdBy = c.who
    /\ c.pc = "disablePrincipal" => account[c.arg] # Unissued
    /\ c.pc = "projectAccount" => status[c.arg] # "none"
OwnAccounts ==
    \A r, q \in Requests :
        Creating(call[r]) /\ Creating(call[q]) /\ call[r].arg = call[q].arg => r = q
Creations == OwnAccounts /\ \A r \in Requests : Creation(call[r])

\* Accounts that are off have their rows, and no running call makes them anew.
IsOff(a) == account[a] # Unissued /\ status[a] = "disabled"
RowsInOrder == \A a \in Accounts : account[a] # Unissued => status[a] # "none"
KeyOwners ==
    \A k \in KeyIds : key[k] # Unissued =>
        /\ key[k].owner \in Users \cup Created
        /\ key[k].owner \in Created =>
              account[key[k].owner] # Unissued /\ account[key[k].owner].createdBy \in Users
OffRows == \A a \in off : IsOff(a)
Tables == RowsInOrder /\ KeyOwners /\ KeysWithinGrant /\ OffRows

\* The roles and the policy of now are on a running call's record.  Roles that it
\* has read to look up their scopes are, and scopes that it has looked up were
\* allowed at a moment of the call.
Recorded(r) ==
    Running(r) => policy \in past[r].policies /\ \A u \in Users : roles[u] \in past[r].held[u]
HasRoles(c) ==
    \/ c.op \in {"createKey", "createAccount", "exchange"} /\ c.pc = "scope"
    \/ c.op = "useKey" /\ c.pc \in {"touch", "sign"}
HasScopes(c) ==
    \/ c.op \in {"createKey", "createAccount", "exchange"}
       /\ c.pc \in {"putPrincipal", "putAccount", "putKey"}
    \/ c.op = "useKey" /\ c.pc = "ok"
Limit(r) ==
    /\ Recorded(r)
    /\ HasRoles(call[r]) => call[r].roles \in RolesDuring(r)
    /\ HasScopes(call[r]) => \E S \in Moments(r) : call[r].scopes \subseteq S
Limits == \A r \in Requests : Limit(r)

\* What a use of a key knows, and what was so when it began.
Use(r) ==
    UsesKey(r) =>
        /\ past[r].revoked \subseteq Revoked
        /\ Running(r) => \A a \in past[r].off : IsOff(a)
        /\ ~At(r, "readKey") =>
              /\ key[call[r].arg] # Unissued /\ call[r].arg \notin past[r].revoked
              /\ call[r].who = key[call[r].arg].owner
              /\ call[r].op = "useKey" => call[r].scopes \subseteq key[call[r].arg].scopes
        /\ call[r].pc \in {"touch", "sign", "ok"} => call[r].who \notin past[r].off
Uses == \A r \in Requests : Use(r)

IInv == Base /\ Creations /\ Limits /\ Tables /\ Uses
----------------------------------------------------------------------------
(* Types.                                                                  *)

LEMMA TypeInit == Init => TypeOK
<1> SUFFICES ASSUME Init PROVE TypeOK
  OBVIOUS
<1>1. call \in [Requests -> Call] /\ past \in [Requests -> Past]
  BY DEF Init, Call, Idle, Point, Finished, Past, NoPast
<1>2. key \in [KeyIds -> KeyRow \cup {Unissued}]
  <2>1. roles \in [Users -> RoleSets] /\ policy \in [RoleSets -> SUBSET Scopes]
    BY CredentialsAssumption DEF Init
  <2> DEFINE first(u) ==
               [owner |-> u, scopes |-> policy[roles[u]], status |-> "active", expired |-> FALSE]
  <2>2. ASSUME NEW u \in Users PROVE first(u) \in KeyRow
    BY <2>1 DEF KeyRow, Holders
  <2>3. ASSUME NEW k \in KeyIds, key[k] # Unissued PROVE \E u \in Users : key[k] = first(u)
    BY <2>3 DEF Init
  <2>4. \A k \in KeyIds : key[k] \in KeyRow \cup {Unissued}
    BY <2>2, <2>3
  <2>5. key = [k \in KeyIds |-> key[k]]
    BY DEF Init
  <2> QED
    BY <2>4, <2>5
<1>3. granted \in [KeyIds -> SUBSET SUBSET Scopes]
  <2>1. granted = [k \in KeyIds |-> IF key[k] = Unissued THEN {} ELSE {key[k].scopes}]
    BY DEF Init
  <2>2. ASSUME NEW k \in KeyIds, key[k] # Unissued PROVE key[k].scopes \in SUBSET Scopes
    BY <1>2, <2>2 DEF KeyRow
  <2> QED
    BY <2>1, <2>2
<1> QED
  BY <1>1, <1>2, <1>3, CredentialsAssumption DEF Init, TypeOK, Holders

LEMMA PointsKnown ==
  {"ok", "denied", "idle", "authorize", "scope", "putPrincipal", "putAccount", "putKey", "disableAccount",
   "disablePrincipal", "revokeKey", "readUserCode", "putApproval", "readCode", "consume",
   "readKey", "readOwner", "touch", "sign", "readTenant", "putTenant", "projectPrincipal",
   "projectAccount"} = Point
  BY DEF Point, Finished

LEMMA CallTypes == ASSUME TypeOK, NEW r \in Requests PROVE call[r] \in Call
  BY DEF TypeOK

LEMMA IdleTypes == ASSUME NEW point \in Point PROVE [Idle EXCEPT !.pc = point] \in Call
  BY DEF Idle, Call

LEMMA NoPastTypes == NoPast \in Past
  BY DEF NoPast, Past

LEMMA BecomeTypes ==
  ASSUME TypeOK, NEW r \in Requests, NEW c \in Call, Become(r, c)
  PROVE  call' \in [Requests -> Call]
  BY DEF TypeOK, Become

LEMMA GotoTypes ==
  ASSUME TypeOK, NEW r \in Requests, NEW point \in Point, Goto(r, point)
  PROVE  call' \in [Requests -> Call]
<1>1. [call[r] EXCEPT !.pc = point] \in Call
  BY DEF TypeOK, Call
<1> QED
  BY <1>1, BecomeTypes DEF Goto

LEMMA SucceedTypes ==
  ASSUME TypeOK, NEW r \in Requests, Succeed(r)
  PROVE  call' \in [Requests -> Call]
  BY IdleTypes, BecomeTypes, PointsKnown DEF Succeed

LEMMA DenyTypes ==
  ASSUME TypeOK, NEW r \in Requests, Deny(r)
  PROVE  TypeOK'
<1>1. call' \in [Requests -> Call]
  BY IdleTypes, BecomeTypes, PointsKnown DEF Deny
<1>2. past' \in [Requests -> Past]
  BY NoPastTypes DEF Deny, TypeOK
<1> QED
  BY <1>1, <1>2 DEF Deny, TypeOK, tables, rules

\* What a creation does next.
LEMMA CreationSteps ==
  ASSUME NEW r \in Requests
  PROVE  /\ After(r, "putPrincipal") <=> Goto(r, "putAccount")
         /\ After(r, "putAccount") <=> Goto(r, "putKey")
         /\ After(r, "putKey") <=> Succeed(r)
         /\ CreationOrder["scope"] = "putPrincipal"
<1>1. /\ CreationOrder["scope"] = "putPrincipal"
      /\ CreationOrder["putPrincipal"] = "putAccount"
      /\ CreationOrder["putAccount"] = "putKey"
      /\ CreationOrder["putKey"] = "ok"
  BY DEF CreationOrder
<1> QED
  BY <1>1 DEF After

LEMMA FirstSteps ==
  /\ FirstStep["createKey"] = "scope" /\ FirstStep["createAccount"] = "scope"
  /\ FirstStep["disableAccount"] = "disableAccount" /\ FirstStep["revokeKey"] = "revokeKey"
  /\ FirstStep["approve"] = "readUserCode"
  BY DEF FirstStep

\* What is recorded of the roles and the policies during a call.
LEMMA MomentTypes ==
  ASSUME TypeOK, NEW r \in Requests
  PROVE  RolesDuring(r) \subseteq RoleSets /\ Moments(r) \in SUBSET SUBSET Scopes
<1>1. past[r] \in Past /\ AccountRoles \in RoleSets /\ Policies \subseteq [RoleSets -> SUBSET Scopes]
  BY CredentialsAssumption DEF TypeOK
<1>2. RolesDuring(r) \subseteq RoleSets
  BY <1>1 DEF RolesDuring, Past
<1>3. past[r].policies \subseteq [RoleSets -> SUBSET Scopes]
  BY <1>1 DEF Past
<1>4. ASSUME NEW p \in past[r].policies, NEW R \in RolesDuring(r) PROVE p[R] \in SUBSET Scopes
  BY <1>2, <1>3, <1>4
<1> QED
  BY <1>2, <1>4 DEF Moments

LEMMA NowTypes == ASSUME TypeOK, NEW op PROVE Now(op) \in Past
<1>1. [u \in Users |-> {roles[u]}] \in [Users -> SUBSET RoleSets]
  BY DEF TypeOK
<1> QED
  BY <1>1 DEF Now, TypeOK, Past, Revoked

LEMMA BeginTypes ==
  ASSUME TypeOK, NEW r \in Requests, NEW op, NEW who \in Holders \cup {None},
         NEW arg \in Codes \cup KeyIds \cup Accounts \cup {None}, NEW scopes \in SUBSET Scopes,
         NEW point \in Point, Begin(r, op, who, arg, scopes, point)
  PROVE  TypeOK'
<1>1. op \in Operation
  BY CredentialsAssumption DEF Begin
<1>2. [pc |-> point, op |-> op, who |-> who, arg |-> arg, roles |-> None, scopes |-> scopes] \in Call
  BY <1>1 DEF Call
<1>3. call' \in [Requests -> Call]
  BY <1>2, BecomeTypes DEF Begin
<1>4. past' \in [Requests -> Past]
  BY NowTypes DEF Begin, TypeOK
<1> QED
  BY <1>3, <1>4 DEF Begin, TypeOK, tables, rules

LEMMA StartTypes == ASSUME TypeOK, NEW r \in Requests, Start(r) PROVE TypeOK'
<1> USE BeginTypes, PointsKnown, CredentialsAssumption DEF Holders, Accounts
<1>1. CASE StartCreateAPIKey(r)
  BY <1>1 DEF StartCreateAPIKey
<1>2. CASE StartCreateServiceAccount(r)
  BY <1>2 DEF StartCreateServiceAccount
<1>3. CASE StartDisableServiceAccount(r)
  BY <1>3 DEF StartDisableServiceAccount
<1>4. CASE StartRevokeAPIKey(r)
  BY <1>4 DEF StartRevokeAPIKey
<1>5. CASE StartApprove(r)
  BY <1>5 DEF StartApprove
<1>6. CASE StartExchange(r)
  BY <1>6 DEF StartExchange
<1>7. CASE StartUseKey(r)
  BY <1>7 DEF StartUseKey
<1>8. CASE StartValidateKey(r)
  BY <1>8 DEF StartValidateKey
<1>9. CASE StartClientCredentials(r)
  BY <1>9 DEF StartClientCredentials
<1> QED
  BY <1>1, <1>2, <1>3, <1>4, <1>5, <1>6, <1>7, <1>8, <1>9 DEF Start

LEMMA SessionTypes == ASSUME Base, NEW r \in Requests, WithSession(r) PROVE TypeOK'
<1> USE PointsKnown
<1>0. call[r] \in Call /\ TypeOK /\ Shape(call[r])
  BY CallTypes DEF Base, Shapes
<1>1. CASE Authorize(r)
  <2>1. CASE Deny(r)
    BY <1>0, <2>1, DenyTypes
  <2>2. CASE ~Deny(r)
    <3>1. /\ At(r, "authorize")
          /\ Become(r, [call[r] EXCEPT !.pc = FirstStep[call[r].op], !.roles = roles[call[r].who]])
      BY <1>1, <2>2 DEF Authorize
    <3>2. call[r].op \in SessionOps /\ call[r].who \in Users
      BY <1>0, <3>1 DEF Shape, At, Finished, Idle, SessionOps, KeyOps
    <3>3. approvals' \subseteq Users \X Codes
      <4>1. call[r].op = "approve" => call[r].arg \in Codes
        BY <1>0, <3>1 DEF Shape, At, Finished, Idle, KeyOps
      <4>2. approvals' = IF call[r].op # "approve" THEN approvals
                         ELSE approvals \cup {<<call[r].who, call[r].arg>>}
        BY <1>1, <2>2 DEF Authorize
      <4>3. approvals \subseteq Users \X Codes
        BY <1>0 DEF TypeOK
      <4> QED
        BY <3>2, <4>1, <4>2, <4>3
    <3>4. call' \in [Requests -> Call]
      <4>1. FirstStep[call[r].op] \in Point
        BY <3>2, FirstSteps DEF SessionOps
      <4>2. roles[call[r].who] \in RoleSets
        BY <1>0, <3>2 DEF TypeOK
      <4>3. [call[r] EXCEPT !.pc = FirstStep[call[r].op], !.roles = roles[call[r].who]] \in Call
        BY <1>0, <4>1, <4>2 DEF Call
      <4> QED
        BY <1>0, <3>1, <4>3, BecomeTypes
    <3> QED
      BY <1>0, <1>1, <2>2, <3>3, <3>4 DEF Authorize, TypeOK, tables, rules
  <2> QED
    BY <2>1, <2>2
<1>8. CASE CheckScopes(r)
  <2>1. CASE Deny(r)
    BY <1>0, <2>1, DenyTypes
  <2>2. CASE ~Deny(r)
    <3>1. \/ Goto(r, "putKey")
          \/ \E a \in Created : Become(r, [call[r] EXCEPT !.pc = "putPrincipal", !.arg = a])
      BY <1>8, <2>2, CreationSteps DEF CheckScopes
    <3>2. ASSUME NEW a \in Created PROVE [call[r] EXCEPT !.pc = "putPrincipal", !.arg = a] \in Call
      BY <1>0 DEF Call, Accounts
    <3>3. call' \in [Requests -> Call]
      BY <1>0, <3>1, <3>2, GotoTypes, BecomeTypes
    <3> QED
      BY <1>0, <1>8, <2>2, <3>3 DEF CheckScopes, TypeOK, tables, history, rules
  <2> QED
    BY <2>1, <2>2
<1>9. CASE GrantDeviceScopes(r)
  <2>1. call[r].roles \in RoleSets
    BY <1>0, <1>9 DEF GrantDeviceScopes, Shape, At, Finished, KeyOps
  <2>2. AllowedScopes(r) \in SUBSET Scopes
    BY <1>0, <2>1, CredentialsAssumption DEF AllowedScopes, TypeOK
  <2>3. [call[r] EXCEPT !.pc = "putKey", !.scopes = AllowedScopes(r)] \in Call
    BY <1>0, <2>2 DEF Call
  <2>4. call' \in [Requests -> Call]
    BY <1>0, <1>9, <2>3, BecomeTypes DEF GrantDeviceScopes
  <2> QED
    BY <1>0, <1>9, <2>4 DEF GrantDeviceScopes, TypeOK, tables, history, rules
<1>2. CASE PutPrincipal(r)
  <2>1. call' \in [Requests -> Call]
    BY <1>0, <1>2, CreationSteps, GotoTypes DEF PutPrincipal
  <2> QED
    BY <1>0, <1>2, <2>1 DEF PutPrincipal, TypeOK, history, rules
<1>3. CASE PutServiceAccount(r)
  <2>1. call' \in [Requests -> Call]
    BY <1>0, <1>3, CreationSteps, GotoTypes DEF PutServiceAccount
  <2>2. [status |-> "active", createdBy |-> call[r].who] \in AccountRow
    BY <1>0, <1>3 DEF PutServiceAccount, Shape, At, Finished, AccountRow, KeyOps
  <2> QED
    BY <1>0, <1>3, <2>1, <2>2 DEF PutServiceAccount, TypeOK, history, rules
<1>4. CASE PutAPIKey(r)
  <2>1. PICK k \in KeyIds :
          /\ key' = [key EXCEPT ![k] = [owner |-> Owner(r), scopes |-> call[r].scopes,
                                       status |-> "active", expired |-> FALSE]]
          /\ origin' = IF call[r].op = "exchange"
                       THEN [origin EXCEPT ![k] = call[r].arg] ELSE origin
          /\ granted' = [granted EXCEPT ![k] = Moments(r)]
    BY <1>4 DEF PutAPIKey
  <2>2. Owner(r) \in Holders /\ (call[r].op = "exchange" => call[r].arg \in Codes)
        /\ call[r].op \in {"createKey", "createAccount", "exchange"}
    BY <1>0, <1>4 DEF PutAPIKey, Owner, Shape, At, Finished, KeyOps, Holders, Accounts
  <2>3. [owner |-> Owner(r), scopes |-> call[r].scopes, status |-> "active", expired |-> FALSE]
          \in KeyRow
    BY <1>0, <2>2 DEF KeyRow, Call
  <2>4. call' \in [Requests -> Call]
    BY <1>0, <1>4, <2>2, CreationSteps, GotoTypes, SucceedTypes DEF PutAPIKey
  <2>5. granted' \in [KeyIds -> SUBSET SUBSET Scopes]
    BY <1>0, <2>1, MomentTypes DEF TypeOK
  <2> QED
    BY <1>0, <1>4, <2>1, <2>2, <2>3, <2>4, <2>5 DEF PutAPIKey, TypeOK, rules
<1>5. CASE DisableAccountRow(r)
  <2>1. CASE Deny(r)
    BY <1>0, <2>1, DenyTypes
  <2>2. CASE ~Deny(r)
    <3>1. call' \in [Requests -> Call]
      BY <1>0, <1>5, <2>2, GotoTypes DEF DisableAccountRow
    <3>2. account' \in [Accounts -> AccountRow \cup {Unissued}]
      BY <1>0, <1>5, <2>2 DEF DisableAccountRow, TypeOK, AccountRow
    <3> QED
      BY <1>0, <1>5, <2>2, <3>1, <3>2 DEF DisableAccountRow, TypeOK, history, rules
  <2> QED
    BY <2>1, <2>2
<1>6. CASE DisablePrincipalRow(r)
  <2>1. call' \in [Requests -> Call]
    BY <1>0, <1>6, SucceedTypes DEF DisablePrincipalRow
  <2>2. call[r].arg \in Accounts
    BY <1>0, <1>6 DEF DisablePrincipalRow, Shape, At, Finished, KeyOps
  <2> QED
    BY <1>0, <1>6, <2>1, <2>2 DEF DisablePrincipalRow, TypeOK, Holders, rules
<1>7. CASE RevokeAPIKey(r)
  <2>1. CASE Deny(r)
    BY <1>0, <2>1, DenyTypes
  <2>2. CASE ~Deny(r)
    <3>1. call' \in [Requests -> Call]
      BY <1>0, <1>7, <2>2, SucceedTypes DEF RevokeAPIKey
    <3>2. key' \in [KeyIds -> KeyRow \cup {Unissued}]
      BY <1>0, <1>7, <2>2 DEF RevokeAPIKey, TypeOK, KeyRow
    <3> QED
      BY <1>0, <1>7, <2>2, <3>1, <3>2 DEF RevokeAPIKey, TypeOK, history, rules
  <2> QED
    BY <2>1, <2>2
<1> QED
  BY <1>1, <1>2, <1>3, <1>4, <1>5, <1>6, <1>7, <1>8, <1>9 DEF WithSession

LEMMA UpdateTypes ==
  ASSUME Base, NEW r \in Requests, NEW u \in Users, NEW st \in {"approved", "consumed"},
         At(r, "putApproval") \/ At(r, "consume"), UpdateDeviceCode(call[r].arg, st, u)
  PROVE  device' \in [Codes -> DeviceRow \cup {Unissued}]
<1>1. Shape(call[r]) /\ CallApproved(call[r]) /\ device \in [Codes -> DeviceRow \cup {Unissued}]
  BY DEF Base, Shapes, Approvals, TypeOK
<1>2. call[r].arg \in Codes /\ device[call[r].arg] # Unissued
  BY <1>1 DEF Shape, CallApproved, At, Finished, KeyOps
<1>3. device[call[r].arg] \in DeviceRow
  BY <1>1, <1>2
<1>4. [device[call[r].arg] EXCEPT !.status = st, !.principal = u] \in DeviceRow
  BY <1>3 DEF DeviceRow
<1> QED
  BY <1>1, <1>4 DEF UpdateDeviceCode

LEMMA DeviceTypes == ASSUME Base, NEW r \in Requests, DeviceFlow(r) PROVE TypeOK'
<1> USE PointsKnown
<1>0. call[r] \in Call /\ TypeOK /\ Shape(call[r])
  BY CallTypes DEF Base, Shapes
<1>1. CASE ReadUserCode(r)
  <2>1. CASE Deny(r)
    BY <1>0, <2>1, DenyTypes
  <2>2. CASE ~Deny(r)
    <3>1. PICK c \in CodesByUserCode(call[r].arg) :
            Become(r, [call[r] EXCEPT !.pc = "putApproval", !.arg = c])
      BY <1>1, <2>2 DEF ReadUserCode
    <3>2. c = call[r].arg
      BY <3>1 DEF CodesByUserCode
    <3>3. [call[r] EXCEPT !.pc = "putApproval", !.arg = c] \in Call
      BY <1>0, <3>2 DEF Call
    <3>4. call' \in [Requests -> Call]
      BY <1>0, <3>1, <3>3, BecomeTypes
    <3> QED
      BY <1>0, <1>1, <2>2, <3>4 DEF ReadUserCode, TypeOK, tables, history, rules
  <2> QED
    BY <2>1, <2>2
<1>2. CASE PutApproval(r)
  <2>1. call' \in [Requests -> Call]
    BY <1>0, <1>2, SucceedTypes DEF PutApproval
  <2>2. call[r].who \in Users
    BY <1>0, <1>2 DEF PutApproval, Shape, At, Finished, KeyOps
  <2>3. device' \in [Codes -> DeviceRow \cup {Unissued}]
    BY <1>0, <1>2, <2>2, UpdateTypes DEF PutApproval, At, Shape, Finished, KeyOps
  <2> QED
    BY <1>0, <1>2, <2>1, <2>3 DEF PutApproval, TypeOK, history, rules
<1>3. CASE ReadCode(r)
  <2>1. CASE Deny(r)
    BY <1>0, <2>1, DenyTypes
  <2>2. CASE ~Deny(r)
    <3>1. /\ Become(r, [call[r] EXCEPT !.pc = "readOwner", !.who = device[call[r].arg].principal])
          /\ device[call[r].arg] # Unissued /\ device[call[r].arg].status = "approved"
      BY <1>3, <2>2 DEF ReadCode
    <3>2. device[call[r].arg].principal \in Users
      BY <1>0, <1>3, <3>1
      DEF ReadCode, Shape, At, Finished, KeyOps, Base, Approvals, DeviceApproved, TypeOK
    <3>3. [call[r] EXCEPT !.pc = "readOwner", !.who = device[call[r].arg].principal] \in Call
      BY <1>0, <3>2 DEF Call, Holders
    <3>4. call' \in [Requests -> Call]
      BY <1>0, <3>1, <3>3, BecomeTypes
    <3> QED
      BY <1>0, <1>3, <2>2, <3>4 DEF ReadCode, TypeOK, tables, history, rules
  <2> QED
    BY <2>1, <2>2
<1>4. CASE Consume(r)
  <2>1. call' \in [Requests -> Call]
    BY <1>0, <1>4, SucceedTypes DEF Consume
  <2>2. call[r].who \in Users
    BY <1>0, <1>4 DEF Consume, Shape, At, Finished, KeyOps
  <2>3. device' \in [Codes -> DeviceRow \cup {Unissued}]
    BY <1>0, <1>4, <2>2, UpdateTypes DEF Consume, At, Shape, Finished, KeyOps
  <2> QED
    BY <1>0, <1>4, <2>1, <2>3 DEF Consume, TypeOK, history, rules
<1> QED
  BY <1>1, <1>2, <1>3, <1>4 DEF DeviceFlow

LEMMA RolesTypes == ASSUME TypeOK, NEW h PROVE RolesOf(h) \in RoleSets
  BY CredentialsAssumption DEF RolesOf, TypeOK

LEMMA ReadTypes ==
  ASSUME NEW c \in Call, NEW R \in RoleSets, NEW point \in Point
  PROVE  [c EXCEPT !.roles = R, !.pc = point] \in Call
  BY DEF Call

LEMMA UseTypes == ASSUME Base, NEW r \in Requests, KeyUse(r) PROVE TypeOK'
<1> USE PointsKnown
<1>0. call[r] \in Call /\ TypeOK /\ Shape(call[r])
  BY CallTypes DEF Base, Shapes
<1>d. CASE Deny(r)
  BY <1>0, <1>d, DenyTypes
<1>c. ASSUME call' \in [Requests -> Call], ~Deny(r) PROVE TypeOK'
  BY <1>0, <1>c DEF KeyUse, ReadKey, ReadOwner, Touch, Sign, TypeOK, tables, history, rules
<1>1. CASE ReadKey(r) /\ ~Deny(r)
  <2>1. /\ Become(r, [call[r] EXCEPT !.pc = "readOwner", !.who = key[call[r].arg].owner,
                             !.scopes = key[call[r].arg].scopes])
        /\ key[call[r].arg] # Unissued
    BY <1>1 DEF ReadKey
  <2>2. key[call[r].arg] \in KeyRow
    BY <1>0, <1>1, <2>1 DEF ReadKey, Shape, At, Finished, KeyOps, TypeOK
  <2>3. [call[r] EXCEPT !.pc = "readOwner", !.who = key[call[r].arg].owner,
                !.scopes = key[call[r].arg].scopes] \in Call
    BY <1>0, <2>2 DEF Call, KeyRow
  <2> QED
    BY <1>0, <1>1, <1>c, <2>1, <2>3, BecomeTypes
<1>2. CASE ReadOwner(r) /\ ~Deny(r)
  <2> DEFINE point == IF call[r].op = "exchange" THEN "scope" ELSE "touch"
             R == RolesOf(call[r].who)
  <2>1. Become(r, [call[r] EXCEPT !.roles = R, !.pc = point])
    BY <1>2 DEF ReadOwner
  <2>3. R \in RoleSets
    BY <1>0, RolesTypes
  <2>4. point \in Point
    OBVIOUS
  <2>5. [call[r] EXCEPT !.roles = R, !.pc = point] \in Call
    BY <1>0, <2>3, <2>4, ReadTypes
  <2> QED
    BY <1>0, <1>2, <1>c, <2>1, <2>5, BecomeTypes
<1>3. CASE Touch(r) /\ ~Deny(r)
  BY <1>0, <1>3, <1>c, GotoTypes DEF Touch, AfterTouch
<1>4. CASE Sign(r) /\ ~Deny(r)
  <2>1. Signable(r) \in SUBSET Scopes
    BY <1>0 DEF Signable, Call
  <2>2. [call[r] EXCEPT !.pc = "ok", !.scopes = Signable(r)] \in Call
    BY <1>0, <2>1 DEF Call
  <2> QED
    BY <1>0, <1>4, <1>c, <2>2, SucceedTypes, BecomeTypes DEF Sign
<1> QED
  BY <1>d, <1>1, <1>2, <1>3, <1>4 DEF KeyUse

LEMMA TurnedOnTypes ==
  ASSUME TypeOK, NEW a, TurnedOn(a)
  PROVE  off' \subseteq Accounts /\ past' \in [Requests -> Past]
<1>1. ASSUME NEW r \in Requests PROVE [past[r] EXCEPT !.off = @ \ {a}] \in Past
  BY DEF TypeOK, Past
<1> QED
  BY <1>1 DEF TurnedOn, TypeOK

LEMMA ClientTypes == ASSUME Base, NEW r \in Requests, ClientCredentials(r) PROVE TypeOK'
<1> USE PointsKnown
<1>0. call[r] \in Call /\ TypeOK /\ Shape(call[r])
  BY CallTypes DEF Base, Shapes
<1>1. CASE ClientTenant(r)
  <2>1. CASE Deny(r)
    BY <1>0, <2>1, DenyTypes
  <2>2. CASE ~Deny(r)
    <3>1. call' \in [Requests -> Call]
      BY <1>0, <1>1, <2>2, GotoTypes DEF ClientTenant
    <3> QED
      BY <1>0, <1>1, <2>2, <3>1 DEF ClientTenant, TypeOK, tables, history, rules
  <2> QED
    BY <2>1, <2>2
<1>2. CASE PutTenant(r)
  <2>1. call' \in [Requests -> Call]
    BY <1>0, <1>2, GotoTypes DEF PutTenant
  <2> QED
    BY <1>0, <1>2, <2>1 DEF PutTenant, TypeOK, history, rules
<1>3. CASE ProjectPrincipal(r)
  <2>1. call' \in [Requests -> Call]
    BY <1>0, <1>3, GotoTypes DEF ProjectPrincipal
  <2>2. off' \subseteq Accounts /\ past' \in [Requests -> Past]
    BY <1>0, <1>3, TurnedOnTypes DEF ProjectPrincipal
  <2> QED
    BY <1>0, <1>3, <2>1, <2>2 DEF ProjectPrincipal, TypeOK, rules
<1>4. CASE ProjectAccount(r)
  <2>1. [call[r] EXCEPT !.pc = "sign", !.roles = AccountRoles] \in Call
    BY <1>0, CredentialsAssumption DEF Call
  <2>2. call' \in [Requests -> Call]
    BY <1>0, <1>4, <2>1, BecomeTypes DEF ProjectAccount
  <2>3. [status |-> "active", createdBy |-> None] \in AccountRow
    BY DEF AccountRow
  <2> QED
    BY <1>0, <1>4, <2>2, <2>3 DEF ProjectAccount, TypeOK, history, rules
<1> QED
  BY <1>1, <1>2, <1>3, <1>4 DEF ClientCredentials

LEMMA EnvironmentTypes == ASSUME Base, Environment PROVE TypeOK'
<1>0. TypeOK
  BY DEF Base
<1>1. ASSUME NEW k \in KeyIds, ExpireKey(k) PROVE TypeOK'
  <2>1. key[k] \in KeyRow
    BY <1>0, <1>1 DEF ExpireKey, TypeOK
  <2>2. [key[k] EXCEPT !.expired = TRUE] \in KeyRow
    BY <2>1 DEF KeyRow
  <2> QED
    BY <1>0, <1>1, <2>2 DEF ExpireKey, TypeOK, history, rules
<1>2. ASSUME NEW c \in Codes, StartDeviceAuth(c) PROVE TypeOK'
  BY <1>0, <1>2 DEF StartDeviceAuth, TypeOK, DeviceRow, history, rules
<1>3. ASSUME NEW c \in Codes, ExpireCode(c) PROVE TypeOK'
  BY <1>0, <1>3 DEF ExpireCode, TypeOK, DeviceRow, history, rules
<1>c. Change => events' \in 0..MaxEvents
  BY <1>0, CredentialsAssumption DEF Change, TypeOK
<1>4. ASSUME NEW u \in Users, RolesChange(u) PROVE TypeOK'
  <2>1. PICK R \in RoleSets :
          /\ roles' = [roles EXCEPT ![u] = R]
          /\ past' = [r \in Requests |->
                 IF Running(r) THEN [past[r] EXCEPT !.held[u] = @ \cup {R}] ELSE past[r]]
    BY <1>4 DEF RolesChange
  <2>2. ASSUME NEW r \in Requests PROVE [past[r] EXCEPT !.held[u] = @ \cup {R}] \in Past
    <3>1. past[r] \in Past
      BY <1>0 DEF TypeOK
    <3>2. past[r].held \in [Users -> SUBSET RoleSets]
      BY <3>1 DEF Past
    <3>3. [past[r].held EXCEPT ![u] = @ \cup {R}] \in [Users -> SUBSET RoleSets]
      BY <3>2
    <3> QED
      BY <3>1, <3>3 DEF Past
  <2>3. past' \in [Requests -> Past]
    BY <1>0, <2>1, <2>2 DEF TypeOK
  <2>4. roles' \in [Users -> RoleSets]
    BY <1>0, <2>1 DEF TypeOK
  <2> QED
    BY <1>0, <1>4, <1>c, <2>3, <2>4 DEF RolesChange, TypeOK, tables, rules
<1>7. ASSUME NEW p \in Policies, UpdatePolicy(p) PROVE TypeOK'
  <2>1. ASSUME NEW r \in Requests PROVE [past[r] EXCEPT !.policies = @ \cup {p}] \in Past
    BY <1>0 DEF TypeOK, Past
  <2>2. past' \in [Requests -> Past]
    BY <1>0, <1>7, <2>1 DEF UpdatePolicy, TypeOK
  <2> QED
    BY <1>0, <1>7, <1>c, <2>2 DEF UpdatePolicy, TypeOK, tables, rules
<1>5. ASSUME NEW h \in Holders, StatusChange(h) PROVE TypeOK'
  <2>1. off' \subseteq Accounts /\ past' \in [Requests -> Past]
    BY <1>0, <1>5, TurnedOnTypes DEF StatusChange, TypeOK
  <2> QED
    BY <1>0, <1>5, <1>c, <2>1 DEF StatusChange, TypeOK, rules
<1>6. CASE DisableTenant
  BY <1>0, <1>6 DEF DisableTenant, TypeOK, history, rules
<1> QED
  BY <1>1, <1>2, <1>3, <1>4, <1>5, <1>6, <1>7 DEF Environment

LEMMA TypeNext == Base /\ [Next]_vars => TypeOK'
<1>1. Base /\ UNCHANGED vars => TypeOK'
  BY DEF Base, TypeOK, vars, tables, history, rules
<1>2. ASSUME Base, NEW r \in Requests, Abort(r) PROVE TypeOK'
  BY <1>2, DenyTypes DEF Abort, Base
<1> QED
  BY <1>1, <1>2, StartTypes, SessionTypes, DeviceTypes, UseTypes, ClientTypes, EnvironmentTypes
  DEF Next, Base
----------------------------------------------------------------------------
(* How a call moves.                                                       *)

LEMMA Moved ==
  ASSUME TypeOK, NEW r \in Requests, NEW c, Become(r, c)
  PROVE  call'[r] = c /\ \A q \in Requests : q # r => call'[q] = call[q]
  BY DEF TypeOK, Become

LEMMA Went ==
  ASSUME TypeOK, NEW r \in Requests, NEW point, Goto(r, point)
  PROVE  /\ call'[r].pc = point /\ call'[r].op = call[r].op /\ call'[r].who = call[r].who
         /\ call'[r].arg = call[r].arg /\ call'[r].scopes = call[r].scopes
         /\ call'[r].roles = call[r].roles
         /\ \A q \in Requests : q # r => call'[q] = call[q]
<1>1. call'[r] = [call[r] EXCEPT !.pc = point] /\ \A q \in Requests : q # r => call'[q] = call[q]
  BY Moved DEF Goto
<1> QED
  BY <1>1, CallTypes DEF Call

LEMMA Ended ==
  ASSUME NEW point \in Finished, NEW c, c = [Idle EXCEPT !.pc = point]
  PROVE  c.pc = point /\ c.op = None /\ c.who = None /\ c.arg = None /\ c.scopes = {} /\ Shape(c)
  BY DEF Idle, Shape

LEMMA Denied ==
  ASSUME TypeOK, NEW r \in Requests, Deny(r)
  PROVE  /\ call'[r] = [Idle EXCEPT !.pc = "denied"] /\ past'[r] = NoPast
         /\ \A q \in Requests : q # r => call'[q] = call[q] /\ past'[q] = past[q]
         /\ UNCHANGED <<tables, rules, events, origin, approvals, granted, off>>
  BY Moved DEF Deny, TypeOK

LEMMA Succeeded ==
  ASSUME TypeOK, NEW r \in Requests, Succeed(r)
  PROVE  /\ call'[r] = [Idle EXCEPT !.pc = "ok"]
         /\ \A q \in Requests : q # r => call'[q] = call[q]
  BY Moved DEF Succeed

\* What a call knows when it begins.
BeginPoints == {"authorize", "readCode", "readKey", "readTenant"}

LEMMA Begun ==
  ASSUME TypeOK, NEW r \in Requests, NEW op, NEW who, NEW arg, NEW scopes, NEW point,
         Begin(r, op, who, arg, scopes, point)
  PROVE  /\ call[r].pc = "idle" /\ call'[r].pc = point /\ call'[r].op = op /\ call'[r].arg = arg
         /\ call'[r].who = who /\ call'[r].scopes = scopes
         /\ \A q \in Requests : q # r => call'[q] = call[q] /\ past'[q] = past[q]
         /\ past'[r] = Now(op)
         /\ UNCHANGED <<tables, rules, events, origin, approvals, granted, off>>
  BY Moved DEF Begin, At, TypeOK

LEMMA Started ==
  ASSUME TypeOK, NEW r \in Requests, Start(r)
  PROVE  /\ call[r].pc = "idle" /\ call'[r].pc \in BeginPoints
         /\ call'[r].op \in KeyOps => call'[r].pc = "readKey"
         /\ past'[r] = Now(call'[r].op)
         /\ \A q \in Requests : q # r => call'[q] = call[q] /\ past'[q] = past[q]
         /\ UNCHANGED <<tables, rules, events, origin, approvals, granted, off>>
<1> USE Begun DEF BeginPoints, KeyOps
<1>1. CASE StartCreateAPIKey(r)
  BY <1>1 DEF StartCreateAPIKey
<1>2. CASE StartCreateServiceAccount(r)
  BY <1>2 DEF StartCreateServiceAccount
<1>3. CASE StartDisableServiceAccount(r)
  BY <1>3 DEF StartDisableServiceAccount
<1>4. CASE StartRevokeAPIKey(r)
  BY <1>4 DEF StartRevokeAPIKey
<1>5. CASE StartApprove(r)
  BY <1>5 DEF StartApprove
<1>6. CASE StartExchange(r)
  BY <1>6 DEF StartExchange
<1>7. CASE StartUseKey(r)
  BY <1>7 DEF StartUseKey
<1>8. CASE StartValidateKey(r)
  BY <1>8 DEF StartValidateKey
<1>9. CASE StartClientCredentials(r)
  BY <1>9 DEF StartClientCredentials
<1> QED
  BY <1>1, <1>2, <1>3, <1>4, <1>5, <1>6, <1>7, <1>8, <1>9 DEF Start

\* No operation is the unset local.
LEMMA Unset == None \notin Operation /\ None \notin KeyOps
  BY CredentialsAssumption DEF Operation

----------------------------------------------------------------------------
(* Calls keep their shape.                                                 *)

LEMMA ShapeKept ==
  ASSUME Base, NEW r \in Requests, \A q \in Requests : q # r => call'[q] = call[q],
         Shape(call'[r])
  PROVE  Shapes'
  BY DEF Base, Shapes

LEMMA ShapeDenied == ASSUME Base, NEW r \in Requests, Deny(r) PROVE Shapes'
<1>1. /\ call'[r] = [Idle EXCEPT !.pc = "denied"]
      /\ \A q \in Requests : q # r => call'[q] = call[q]
  BY Denied DEF Base
<1>2. Shape(call'[r])
  BY <1>1, Ended DEF Finished
<1> QED
  BY <1>1, <1>2, ShapeKept

LEMMA ShapeDone ==
  ASSUME Base, NEW r \in Requests, Succeed(r) PROVE Shapes'
<1>1. /\ call'[r] = [Idle EXCEPT !.pc = "ok"]
      /\ \A q \in Requests : q # r => call'[q] = call[q]
  BY Succeeded DEF Base
<1>2. Shape(call'[r])
  BY <1>1, Ended DEF Finished
<1> QED
  BY <1>1, <1>2, ShapeKept

LEMMA ShapeGone ==
  ASSUME Base, NEW r \in Requests, NEW point, Goto(r, point),
         \/ call[r].op = "createAccount" /\ point \in {"putAccount", "putKey"}
            /\ call[r].pc \in {"putPrincipal", "putAccount"}
         \/ call[r].op = "createKey" /\ call[r].pc = "scope" /\ point = "putKey"
         \/ call[r].pc = "disableAccount" /\ point = "disablePrincipal"
         \/ call[r].pc = "putKey" /\ call[r].op = "exchange" /\ point = "consume"
         \/ call[r].pc = "touch" /\ point = IF call[r].op = "useKey" THEN "sign" ELSE "ok"
         \/ call[r].pc \in {"readTenant", "putTenant", "projectPrincipal"}
            /\ point \in {"putTenant", "projectPrincipal", "projectAccount"}
  PROVE  Shapes'
<1>1. /\ call'[r].pc = point /\ call'[r].op = call[r].op /\ call'[r].who = call[r].who
      /\ call'[r].arg = call[r].arg
      /\ \A q \in Requests : q # r => call'[q] = call[q]
  BY Went DEF Base
<1>2. Shape(call[r])
  BY DEF Base, Shapes
<1>3. Shape(call'[r])
  BY <1>1, <1>2 DEF Shape, Finished, KeyOps
<1> QED
  BY <1>1, <1>3, ShapeKept

LEMMA ShapeBegun ==
  ASSUME Base, NEW r \in Requests, NEW op, NEW who, NEW arg, NEW scopes, NEW point,
         Begin(r, op, who, arg, scopes, point),
         Shape([pc |-> point, op |-> op, who |-> who, arg |-> arg, roles |-> None,
                scopes |-> scopes])
  PROVE  Shapes'
  BY Moved, ShapeKept DEF Begin, Base

LEMMA ShapeStart == ASSUME Base, NEW r \in Requests, Start(r) PROVE Shapes'
<1> USE ShapeBegun DEF Shape, KeyOps
<1>1. CASE StartCreateAPIKey(r)
  BY <1>1 DEF StartCreateAPIKey
<1>2. CASE StartCreateServiceAccount(r)
  BY <1>2 DEF StartCreateServiceAccount
<1>3. CASE StartDisableServiceAccount(r)
  BY <1>3 DEF StartDisableServiceAccount
<1>4. CASE StartRevokeAPIKey(r)
  BY <1>4 DEF StartRevokeAPIKey
<1>5. CASE StartApprove(r)
  BY <1>5 DEF StartApprove
<1>6. CASE StartExchange(r)
  BY <1>6 DEF StartExchange
<1>7. CASE StartUseKey(r)
  BY <1>7 DEF StartUseKey
<1>8. CASE StartValidateKey(r)
  BY <1>8 DEF StartValidateKey
<1>9. CASE StartClientCredentials(r)
  BY <1>9 DEF StartClientCredentials
<1> QED
  BY <1>1, <1>2, <1>3, <1>4, <1>5, <1>6, <1>7, <1>8, <1>9 DEF Start

LEMMA ShapesNext == Base /\ [Next]_vars => Shapes'
<1> SUFFICES ASSUME Base, [Next]_vars PROVE Shapes'
  OBVIOUS
<1>0. ASSUME NEW r \in Requests PROVE TypeOK /\ Shape(call[r]) /\ call[r] \in Call
  BY CallTypes DEF Base, Shapes
<1>1. ASSUME NEW r \in Requests, Start(r) PROVE Shapes'
  BY <1>1, ShapeStart
<1>2. ASSUME NEW r \in Requests, Deny(r) PROVE Shapes'
  BY <1>2, ShapeDenied
<1>3. ASSUME NEW r \in Requests, Authorize(r), ~Deny(r) PROVE Shapes'
  <2>1. call[r].pc = "authorize" /\ call[r].op \in SessionOps
    BY <1>0, <1>3 DEF Authorize, At, Shape, Finished, Idle, SessionOps, KeyOps
  <2>2. /\ call'[r] = [call[r] EXCEPT !.pc = FirstStep[call[r].op], !.roles = roles[call[r].who]]
        /\ \A q \in Requests : q # r => call'[q] = call[q]
    BY <1>0, <1>3, Moved DEF Authorize
  <2>3. /\ call'[r].pc = FirstStep[call[r].op] /\ call'[r].op = call[r].op
        /\ call'[r].who = call[r].who /\ call'[r].arg = call[r].arg
    BY <1>0, <2>2 DEF Call
  <2>5. /\ call[r].who \in Users
        /\ call[r].op = "disableAccount" => call[r].arg \in Accounts
        /\ call[r].op = "revokeKey" => call[r].arg \in KeyIds
        /\ call[r].op = "approve" => call[r].arg \in Codes
    BY <1>0, <2>1 DEF Shape, Finished, KeyOps, SessionOps
  <2>4. Shape(call'[r])
    BY <2>1, <2>3, <2>5, FirstSteps DEF Shape, SessionOps
  <2> QED
    BY <2>2, <2>4, ShapeKept
<1>17. ASSUME NEW r \in Requests, CheckScopes(r), ~Deny(r) PROVE Shapes'
  <2>1. CASE call[r].op = "createKey"
    BY <1>17, <2>1, ShapeGone DEF CheckScopes, At
  <2>2. CASE call[r].op # "createKey"
    <3>1. PICK a \in Created : Become(r, [call[r] EXCEPT !.pc = "putPrincipal", !.arg = a])
      BY <1>17, <2>2, CreationSteps DEF CheckScopes
    <3>2. /\ call'[r] = [call[r] EXCEPT !.pc = "putPrincipal", !.arg = a]
          /\ \A q \in Requests : q # r => call'[q] = call[q]
      BY <1>0, <3>1, Moved
    <3>3. call[r].op = "createAccount" /\ call[r].pc = "scope"
      BY <1>17, <2>2 DEF CheckScopes, At
    <3>4. Shape(call'[r])
      BY <1>0, <3>2, <3>3 DEF Shape, Finished, Call, KeyOps
    <3> QED
      BY <3>2, <3>4, ShapeKept
  <2> QED
    BY <2>1, <2>2
<1>18. ASSUME NEW r \in Requests, GrantDeviceScopes(r) PROVE Shapes'
  <2>1. /\ call'[r] = [call[r] EXCEPT !.pc = "putKey", !.scopes = AllowedScopes(r)]
        /\ \A q \in Requests : q # r => call'[q] = call[q]
    BY <1>0, <1>18, Moved DEF GrantDeviceScopes
  <2>2. /\ call'[r].pc = "putKey" /\ call'[r].op = call[r].op /\ call'[r].who = call[r].who
        /\ call'[r].arg = call[r].arg
    BY <1>0, <2>1 DEF Call
  <2>3. Shape(call'[r])
    BY <1>0, <1>18, <2>2 DEF GrantDeviceScopes, At, Shape, Finished, KeyOps
  <2> QED
    BY <2>1, <2>3, ShapeKept
<1>4. ASSUME NEW r \in Requests, PutPrincipal(r) \/ PutServiceAccount(r) PROVE Shapes'
  <2>1. call[r].op = "createAccount" /\ call[r].pc \in {"putPrincipal", "putAccount"}
    BY <1>0, <1>4 DEF PutPrincipal, PutServiceAccount, At, Shape, Finished, Idle, KeyOps
  <2> QED
    BY <1>4, <2>1, CreationSteps, ShapeGone DEF PutPrincipal, PutServiceAccount
<1>5. ASSUME NEW r \in Requests, PutAPIKey(r) PROVE Shapes'
  <2>1. call[r].pc = "putKey" /\ call[r].op \in {"createKey", "createAccount", "exchange"}
    BY <1>0, <1>5 DEF PutAPIKey, At, Shape, Finished, Idle, KeyOps
  <2> QED
    BY <1>5, <2>1, CreationSteps, ShapeGone, ShapeDone DEF PutAPIKey
<1>6. ASSUME NEW r \in Requests, DisableAccountRow(r), ~Deny(r) PROVE Shapes'
  BY <1>6, ShapeGone DEF DisableAccountRow, At
<1>7. ASSUME NEW r \in Requests,
             \/ DisablePrincipalRow(r) \/ RevokeAPIKey(r) \/ PutApproval(r) \/ Consume(r), ~Deny(r)
      PROVE  Shapes'
  BY <1>7, ShapeDone DEF DisablePrincipalRow, RevokeAPIKey, PutApproval, Consume
<1>8. ASSUME NEW r \in Requests, ReadUserCode(r), ~Deny(r) PROVE Shapes'
  <2>1. PICK c \in CodesByUserCode(call[r].arg) :
          Become(r, [call[r] EXCEPT !.pc = "putApproval", !.arg = c])
    BY <1>8 DEF ReadUserCode
  <2>2. c = call[r].arg
    BY <2>1 DEF CodesByUserCode
  <2>3. /\ call'[r] = [call[r] EXCEPT !.pc = "putApproval", !.arg = c]
        /\ \A q \in Requests : q # r => call'[q] = call[q]
    BY <1>0, <2>1, Moved
  <2>4. Shape(call'[r])
    BY <1>0, <1>8, <2>2, <2>3 DEF ReadUserCode, At, Shape, Finished, Idle, Call, KeyOps
  <2> QED
    BY <2>3, <2>4, ShapeKept
<1>9. ASSUME NEW r \in Requests, ReadCode(r), ~Deny(r) PROVE Shapes'
  <2>1. /\ Become(r, [call[r] EXCEPT !.pc = "readOwner", !.who = device[call[r].arg].principal])
        /\ device[call[r].arg] # Unissued /\ device[call[r].arg].status = "approved"
    BY <1>9 DEF ReadCode
  <2>2. call[r].op = "exchange" /\ call[r].arg \in Codes
    BY <1>0, <1>9 DEF ReadCode, At, Shape, Finished, Idle, KeyOps
  <2>3. device[call[r].arg].principal \in Users
    BY <2>1, <2>2 DEF Base, Approvals, DeviceApproved, TypeOK
  <2>4. /\ call'[r] = [call[r] EXCEPT !.pc = "readOwner", !.who = device[call[r].arg].principal]
        /\ \A q \in Requests : q # r => call'[q] = call[q]
    BY <1>0, <2>1, Moved
  <2>5. Shape(call'[r])
    BY <1>0, <2>2, <2>3, <2>4 DEF Shape, Call
  <2> QED
    BY <2>4, <2>5, ShapeKept
<1>10. ASSUME NEW r \in Requests, ReadKey(r), ~Deny(r) PROVE Shapes'
  <2>1. /\ Become(r, [call[r] EXCEPT !.pc = "readOwner", !.who = key[call[r].arg].owner,
                             !.scopes = key[call[r].arg].scopes])
        /\ key[call[r].arg] # Unissued
    BY <1>10 DEF ReadKey
  <2>2. call[r].op \in KeyOps /\ call[r].arg \in KeyIds
    BY <1>0, <1>10 DEF ReadKey, At, Shape, Finished, Idle
  <2>3. key[call[r].arg].owner \in Holders
    BY <1>0, <2>1, <2>2 DEF TypeOK, KeyRow
  <2>4. /\ call'[r] = [call[r] EXCEPT !.pc = "readOwner", !.who = key[call[r].arg].owner,
                             !.scopes = key[call[r].arg].scopes]
        /\ \A q \in Requests : q # r => call'[q] = call[q]
    BY <1>0, <2>1, Moved
  <2>5. Shape(call'[r])
    BY <1>0, <2>2, <2>3, <2>4 DEF Shape, Call
  <2> QED
    BY <2>4, <2>5, ShapeKept
<1>11. ASSUME NEW r \in Requests, ReadOwner(r), ~Deny(r) PROVE Shapes'
  <2> DEFINE point == IF call[r].op = "exchange" THEN "scope" ELSE "touch"
  <2>1. /\ call'[r] = [call[r] EXCEPT !.roles = RolesOf(call[r].who), !.pc = point]
        /\ \A q \in Requests : q # r => call'[q] = call[q]
    BY <1>0, <1>11, Moved DEF ReadOwner
  <2>2. /\ call'[r].pc = point /\ call'[r].op = call[r].op /\ call'[r].who = call[r].who
        /\ call'[r].arg = call[r].arg /\ call'[r].roles \in RoleSets
    BY <1>0, <2>1, RolesTypes DEF Call
  <2>3. Shape(call'[r])
    BY <1>0, <1>11, <2>2 DEF ReadOwner, At, Shape, Finished, Idle, KeyOps
  <2> QED
    BY <2>1, <2>3, ShapeKept
<1>12. ASSUME NEW r \in Requests, Touch(r) PROVE Shapes'
  BY <1>12, ShapeGone DEF Touch, AfterTouch, At
<1>13. ASSUME NEW r \in Requests, Sign(r), ~Deny(r) PROVE Shapes'
  <2>1. CASE UsesKey(r)
    <3>1. /\ call'[r] = [call[r] EXCEPT !.pc = "ok", !.scopes = Signable(r)]
          /\ \A q \in Requests : q # r => call'[q] = call[q]
      BY <1>0, <1>13, <2>1, Moved DEF Sign
    <3>2. /\ call'[r].pc = "ok" /\ call'[r].op = call[r].op /\ call'[r].who = call[r].who
          /\ call'[r].arg = call[r].arg
      BY <1>0, <3>1 DEF Call
    <3>3. Shape(call'[r])
      BY <1>0, <1>13, <2>1, <3>2 DEF Sign, At, UsesKey, Shape, Finished, KeyOps
    <3> QED
      BY <3>1, <3>3, ShapeKept
  <2>2. CASE ~UsesKey(r)
    BY <1>13, <2>2, ShapeDone DEF Sign
  <2> QED
    BY <2>1, <2>2
<1>14. ASSUME NEW r \in Requests,
              ClientTenant(r) \/ PutTenant(r) \/ ProjectPrincipal(r), ~Deny(r)
       PROVE  Shapes'
  BY <1>14, ShapeGone DEF ClientTenant, PutTenant, ProjectPrincipal, At
<1>15. ASSUME NEW r \in Requests, ProjectAccount(r) PROVE Shapes'
  <2>1. /\ call'[r] = [call[r] EXCEPT !.pc = "sign", !.roles = AccountRoles]
        /\ \A q \in Requests : q # r => call'[q] = call[q]
    BY <1>0, <1>15, Moved DEF ProjectAccount
  <2>2. Shape(call'[r])
    BY <1>0, <1>15, <2>1 DEF ProjectAccount, At, Shape, Finished, Idle, Call, KeyOps
  <2> QED
    BY <2>1, <2>2, ShapeKept
<1>16. CASE UNCHANGED call
  BY <1>16 DEF Base, Shapes
<1> QED
  BY <1>1, <1>2, <1>3, <1>4, <1>5, <1>6, <1>7, <1>8, <1>9, <1>10, <1>11, <1>12, <1>13, <1>14,
     <1>15, <1>16, <1>17, <1>18
  DEF Next, WithSession, DeviceFlow, KeyUse, ClientCredentials, Abort, Environment, ExpireKey,
      StartDeviceAuth, ExpireCode, RolesChange, UpdatePolicy, StatusChange, DisableTenant, vars, rules

----------------------------------------------------------------------------
(* Approvals.                                                              *)

\* Where a call does not act for an approver yet, or no longer.
Elsewhere(c) ==
    \/ c.op \notin {"approve", "exchange"}
    \/ c.pc \notin {"readUserCode", "putApproval", "readOwner", "scope", "putKey", "consume"}

LEMMA ApprovalsKept ==
  ASSUME Base, NEW r \in Requests, \A q \in Requests : q # r => call'[q] = call[q],
         approvals \subseteq approvals', UNCHANGED <<device, key, origin>>,
         CallApproved(call[r])'
  PROVE  Approvals'
<1>1. ASSUME NEW q \in Requests, q # r PROVE CallApproved(call[q])'
  <2>1. CallApproved(call[q]) /\ call'[q] = call[q]
    BY <1>1 DEF Base, Approvals
  <2> QED
    BY <2>1 DEF CallApproved
<1>2. DeviceApproved' /\ DeviceKeyWasApproved'
  BY DEF Base, Approvals, DeviceApproved, DeviceKeyWasApproved
<1>3. (\A k \in KeyIds : key[k] = Unissued => origin[k] = None)'
  BY DEF Base, Approvals
<1> QED
  BY <1>1, <1>2, <1>3 DEF Approvals

LEMMA ElsewhereApproved ==
  ASSUME NEW r \in Requests, Elsewhere(call'[r]) PROVE CallApproved(call[r])'
  BY DEF Elsewhere, CallApproved

LEMMA ApprovalsElsewhere ==
  ASSUME Base, NEW r \in Requests, \A q \in Requests : q # r => call'[q] = call[q],
         approvals \subseteq approvals', UNCHANGED <<device, key, origin>>, Elsewhere(call'[r])
  PROVE  Approvals'
  BY ApprovalsKept, ElsewhereApproved

LEMMA ApprovalsDenied == ASSUME Base, NEW r \in Requests, Deny(r) PROVE Approvals'
<1>1. /\ call'[r] = [Idle EXCEPT !.pc = "denied"]
      /\ \A q \in Requests : q # r => call'[q] = call[q]
      /\ UNCHANGED <<tables, origin, approvals>>
  BY Denied DEF Base
<1>2. Elsewhere(call'[r])
  BY <1>1 DEF Elsewhere, Idle
<1> QED
  BY <1>1, <1>2, ApprovalsElsewhere DEF tables, rules

\* A call that succeeds no longer acts for anybody in the device flow.
LEMMA SucceededElsewhere ==
  ASSUME TypeOK, NEW r \in Requests, Succeed(r)
  PROVE  Elsewhere(call'[r]) /\ \A q \in Requests : q # r => call'[q] = call[q]
  BY Succeeded DEF Elsewhere, Idle

LEMMA WentElsewhere ==
  ASSUME TypeOK, NEW r \in Requests, NEW point, Goto(r, point),
         call[r].op \notin {"approve", "exchange"}
  PROVE  Elsewhere(call'[r]) /\ \A q \in Requests : q # r => call'[q] = call[q]
  BY Went DEF Elsewhere

\* Updating an approved code for its approver keeps codes and keys approved.
LEMMA UpdateApproved ==
  ASSUME Base, NEW c \in Codes, NEW u \in Users, NEW st \in {"approved", "consumed"},
         device[c] # Unissued, <<u, c>> \in approvals,
         UpdateDeviceCode(c, st, u), UNCHANGED <<approvals, key, origin>>
  PROVE  /\ DeviceApproved' /\ DeviceKeyWasApproved'
         /\ (\A k \in KeyIds : key[k] = Unissued => origin[k] = None)'
         /\ \A d \in Codes : device[d] # Unissued => device'[d] # Unissued
<1>1. device \in [Codes -> DeviceRow \cup {Unissued}] /\ device[c] \in DeviceRow
  BY DEF Base, TypeOK
<1>2. /\ device'[c] = [device[c] EXCEPT !.status = st, !.principal = u]
      /\ \A d \in Codes : d # c => device'[d] = device[d]
  BY <1>1 DEF UpdateDeviceCode
<1>3. device'[c].principal = u
  BY <1>1, <1>2 DEF DeviceRow
<1>4. DeviceApproved'
  BY <1>2, <1>3 DEF Base, Approvals, DeviceApproved
<1>5. device'[c] # Unissued
  <2>1. device'[c] \in DeviceRow
    BY <1>1, <1>2 DEF DeviceRow
  <2> QED
    BY <2>1, CredentialsAssumption
<1> QED
  BY <1>2, <1>4, <1>5 DEF Base, Approvals, DeviceKeyWasApproved

\* Where a call updates a device code it acts for an approver.
LEMMA ActsForApprover ==
  ASSUME Base, NEW r \in Requests,
         \/ call[r].pc \in {"putApproval", "consume"}
         \/ call[r].op = "exchange" /\ call[r].pc = "putKey"
  PROVE  /\ call[r].arg \in Codes /\ call[r].who \in Users
         /\ device[call[r].arg] # Unissued /\ <<call[r].who, call[r].arg>> \in approvals
<1>1. Shape(call[r]) /\ CallApproved(call[r])
  BY DEF Base, Shapes, Approvals
<1>2. /\ call[r].arg \in Codes /\ call[r].who \in Users
      /\ \/ call[r].op = "approve" /\ call[r].pc = "putApproval"
         \/ call[r].op = "exchange" /\ call[r].pc \in {"putKey", "consume"}
  BY <1>1 DEF Shape, Finished, KeyOps
<1> QED
  BY <1>1, <1>2 DEF CallApproved

\* Codes that are known stay known, so that calls keep acting for approvers.
LEMMA DevicesStay ==
  ASSUME Base, NEW r \in Requests, \A q \in Requests : q # r => call'[q] = call[q],
         Elsewhere(call'[r]), UNCHANGED approvals,
         \A d \in Codes : device[d] # Unissued => device'[d] # Unissued
  PROVE  \A q \in Requests : CallApproved(call[q])'
<1>1. CallApproved(call[r])'
  BY ElsewhereApproved
<1>2. ASSUME NEW q \in Requests, q # r PROVE CallApproved(call[q])'
  <2>1. CallApproved(call[q]) /\ Shape(call[q]) /\ call'[q] = call[q]
    BY <1>2 DEF Base, Approvals, Shapes
  <2>2. call[q].op \in {"approve", "exchange"}
          /\ call[q].pc \in {"readUserCode", "putApproval", "readOwner", "scope", "putKey", "consume"}
        => call[q].arg \in Codes
    BY <2>1 DEF Shape, Finished, KeyOps
  <2> QED
    BY <2>1, <2>2 DEF CallApproved
<1> QED
  BY <1>1, <1>2

\* Revoking or expiring a key leaves its owner.
LEMMA KeyUpdated ==
  ASSUME Base, NEW r \in Requests, \A q \in Requests : q # r => call'[q] = call[q],
         Elsewhere(call'[r]), NEW k \in KeyIds, key[k] # Unissued,
         key' = [key EXCEPT ![k].status = "revoked"], UNCHANGED <<device, origin, approvals>>
  PROVE  Approvals'
<1>1. /\ key'[k].owner = key[k].owner /\ key[k] \in KeyRow
      /\ \A l \in KeyIds : l # k => key'[l] = key[l]
  BY DEF Base, TypeOK, KeyRow
<1>2. DeviceApproved' /\ DeviceKeyWasApproved'
  BY <1>1 DEF Base, Approvals, DeviceApproved, DeviceKeyWasApproved
<1>3. (\A l \in KeyIds : key[l] = Unissued => origin[l] = None)'
  <2>1. key'[k] \in KeyRow
    BY <1>1 DEF Base, TypeOK, KeyRow
  <2> QED
    BY <1>1, <2>1, CredentialsAssumption DEF Base, Approvals
<1>4. \A q \in Requests : CallApproved(call[q])'
  BY DevicesStay
<1> QED
  BY <1>2, <1>3, <1>4 DEF Approvals

LEMMA KeyExpired == ASSUME Base, NEW k \in KeyIds, ExpireKey(k) PROVE Approvals'
<1>1. /\ key[k] # Unissued /\ key' = [key EXCEPT ![k].expired = TRUE]
      /\ UNCHANGED <<call, device, origin, approvals>>
  BY DEF ExpireKey, history, rules
<1>2. /\ key'[k].owner = key[k].owner /\ key'[k] \in KeyRow
      /\ \A l \in KeyIds : l # k => key'[l] = key[l]
  <2>1. key \in [KeyIds -> KeyRow \cup {Unissued}] /\ key[k] \in KeyRow
    BY <1>1 DEF Base, TypeOK
  <2> QED
    BY <1>1, <2>1 DEF KeyRow
<1>3. DeviceApproved' /\ DeviceKeyWasApproved'
  BY <1>1, <1>2 DEF Base, Approvals, DeviceApproved, DeviceKeyWasApproved
<1>4. (\A l \in KeyIds : key[l] = Unissued => origin[l] = None)'
  BY <1>1, <1>2, CredentialsAssumption DEF Base, Approvals
<1>5. \A q \in Requests : CallApproved(call[q])'
  BY <1>1 DEF Base, Approvals, CallApproved
<1> QED
  BY <1>3, <1>4, <1>5 DEF Approvals

LEMMA CodeChanged ==
  ASSUME Base, NEW c \in Codes, StartDeviceAuth(c) \/ ExpireCode(c) PROVE Approvals'
<1>1. /\ device'[c] # Unissued
      /\ device'[c].status # "pending" =>
            /\ device[c] # Unissued /\ device[c].status # "pending"
            /\ device'[c].principal = device[c].principal
      /\ \A d \in Codes : d # c => device'[d] = device[d]
  <2>1. CASE StartDeviceAuth(c)
    <3>1. device' = [device EXCEPT ![c] =
              [status |-> "pending", principal |-> None, expired |-> FALSE]]
      BY <2>1 DEF StartDeviceAuth
    <3>2. [status |-> "pending", principal |-> None, expired |-> FALSE] \in DeviceRow
      BY DEF DeviceRow
    <3> QED
      BY <3>1, <3>2, CredentialsAssumption DEF Base, TypeOK
  <2>2. CASE ExpireCode(c)
    <3>1. device[c] # Unissued /\ device' = [device EXCEPT ![c].expired = TRUE]
      BY <2>2 DEF ExpireCode
    <3>2. device[c] \in DeviceRow /\ device'[c] = [device[c] EXCEPT !.expired = TRUE]
      BY <3>1 DEF Base, TypeOK
    <3>3. /\ device'[c] \in DeviceRow /\ device'[c].status = device[c].status
          /\ device'[c].principal = device[c].principal
      BY <3>2 DEF DeviceRow
    <3> QED
      BY <3>1, <3>3, CredentialsAssumption DEF Base, TypeOK
  <2> QED
    BY <2>1, <2>2
<1>2. UNCHANGED <<call, key, origin, approvals>>
  BY DEF StartDeviceAuth, ExpireCode, history, rules
<1>3. DeviceApproved'
  BY <1>1, <1>2 DEF Base, Approvals, DeviceApproved
<1>4. ASSUME NEW q \in Requests PROVE CallApproved(call[q])'
  <2>1. CallApproved(call[q]) /\ \A d \in Codes : device[d] # Unissued => device'[d] # Unissued
    BY <1>1 DEF Base, Approvals
  <2>2. Shape(call[q])
    BY DEF Base, Shapes
  <2>3. call[q].op \in {"approve", "exchange"}
          /\ call[q].pc \in {"readUserCode", "putApproval", "readOwner", "scope", "putKey", "consume"}
        => call[q].arg \in Codes
    BY <2>2 DEF Shape, Finished, KeyOps
  <2> QED
    BY <1>2, <2>1, <2>3 DEF CallApproved
<1> QED
  BY <1>2, <1>3, <1>4 DEF Base, Approvals, DeviceKeyWasApproved

LEMMA ApprovalsNext == Base /\ [Next]_vars => Approvals'
<1> SUFFICES ASSUME Base, [Next]_vars PROVE Approvals'
  OBVIOUS
<1>0. ASSUME NEW r \in Requests
      PROVE  TypeOK /\ Shape(call[r]) /\ call[r] \in Call /\ CallApproved(call[r])
  BY CallTypes DEF Base, Shapes, Approvals
<1>1. ASSUME NEW r \in Requests, Start(r) PROVE Approvals'
  <2>1. /\ call'[r].pc \in BeginPoints /\ \A q \in Requests : q # r => call'[q] = call[q]
        /\ UNCHANGED <<tables, origin, approvals>>
    BY <1>0, <1>1, Started
  <2>2. Elsewhere(call'[r])
    BY <2>1 DEF Elsewhere, BeginPoints
  <2> QED
    BY <2>1, <2>2, ApprovalsElsewhere DEF tables, rules
<1>2. ASSUME NEW r \in Requests, Deny(r) PROVE Approvals'
  BY <1>2, ApprovalsDenied
<1>3. ASSUME NEW r \in Requests, Authorize(r), ~Deny(r) PROVE Approvals'
  <2>1. call[r].pc = "authorize" /\ call[r].op \in SessionOps
    BY <1>0, <1>3 DEF Authorize, At, Shape, Finished, Idle, SessionOps, KeyOps
  <2>2. /\ approvals' = IF call[r].op # "approve" THEN approvals
                        ELSE approvals \cup {<<call[r].who, call[r].arg>>}
        /\ UNCHANGED <<tables, origin>>
    BY <1>3 DEF Authorize
  <2>3. /\ call'[r] = [call[r] EXCEPT !.pc = FirstStep[call[r].op], !.roles = roles[call[r].who]]
        /\ \A q \in Requests : q # r => call'[q] = call[q]
    BY <1>0, <1>3, Moved DEF Authorize
  <2>4. /\ call'[r].pc = FirstStep[call[r].op] /\ call'[r].op = call[r].op
        /\ call'[r].who = call[r].who /\ call'[r].arg = call[r].arg
    BY <1>0, <2>3 DEF Call
  <2>5. CallApproved(call[r])'
    BY <2>1, <2>2, <2>4, FirstSteps DEF CallApproved, SessionOps
  <2> QED
    BY <2>2, <2>3, <2>5, ApprovalsKept DEF tables, rules
<1>17. ASSUME NEW r \in Requests, CheckScopes(r), ~Deny(r) PROVE Approvals'
  <2>1. UNCHANGED <<device, key, origin, approvals>> /\ call[r].op \in {"createKey", "createAccount"}
    BY <1>17 DEF CheckScopes, tables, history, rules
  <2>2. CASE call[r].op = "createKey"
    BY <1>0, <1>17, <2>1, <2>2, WentElsewhere, ApprovalsElsewhere DEF CheckScopes
  <2>3. CASE call[r].op = "createAccount"
    <3>1. PICK a \in Created : Become(r, [call[r] EXCEPT !.pc = "putPrincipal", !.arg = a])
      BY <1>17, <2>3, CreationSteps DEF CheckScopes
    <3>2. /\ call'[r] = [call[r] EXCEPT !.pc = "putPrincipal", !.arg = a]
          /\ \A q \in Requests : q # r => call'[q] = call[q]
      BY <1>0, <3>1, Moved
    <3>3. Elsewhere(call'[r])
      BY <1>0, <2>3, <3>2 DEF Elsewhere, Call
    <3> QED
      BY <2>1, <3>2, <3>3, ApprovalsElsewhere
  <2> QED
    BY <2>1, <2>2, <2>3
<1>18. ASSUME NEW r \in Requests, GrantDeviceScopes(r) PROVE Approvals'
  <2>1. /\ call'[r] = [call[r] EXCEPT !.pc = "putKey", !.scopes = AllowedScopes(r)]
        /\ \A q \in Requests : q # r => call'[q] = call[q]
        /\ UNCHANGED <<device, key, origin, approvals>>
        /\ call[r].op = "exchange" /\ call[r].pc = "scope"
    BY <1>0, <1>18, Moved DEF GrantDeviceScopes, At, tables, history, rules
  <2>2. /\ call'[r].pc = "putKey" /\ call'[r].op = call[r].op /\ call'[r].who = call[r].who
        /\ call'[r].arg = call[r].arg
    BY <1>0, <2>1 DEF Call
  <2>3. CallApproved(call[r])'
    BY <1>0, <2>1, <2>2 DEF CallApproved
  <2> QED
    BY <2>1, <2>3, ApprovalsKept
<1>4. ASSUME NEW r \in Requests,
             \/ PutPrincipal(r) \/ PutServiceAccount(r) \/ DisableAccountRow(r)
             \/ Touch(r) \/ ClientTenant(r) \/ PutTenant(r) \/ ProjectPrincipal(r),
             ~Deny(r)
      PROVE  Approvals'
  <2>1. call[r].op \notin {"approve", "exchange"}
    BY <1>0, <1>4
    DEF PutPrincipal, PutServiceAccount, DisableAccountRow, Touch, ClientTenant, PutTenant,
        ProjectPrincipal, At, Shape, Finished, Idle, KeyOps
  <2>2. UNCHANGED <<device, key, origin, approvals>> /\ \E point \in Point : Goto(r, point)
    BY <1>4, CreationSteps, PointsKnown
    DEF PutPrincipal, PutServiceAccount, DisableAccountRow, Touch, AfterTouch, ClientTenant,
        PutTenant, ProjectPrincipal, tables, history, rules
  <2> QED
    BY <1>0, <2>1, <2>2, WentElsewhere, ApprovalsElsewhere
<1>5. ASSUME NEW r \in Requests, PutAPIKey(r) PROVE Approvals'
  <2>1. PICK k \in KeyIds :
          /\ key[k] = Unissued
          /\ key' = [key EXCEPT ![k] = [owner |-> Owner(r), scopes |-> call[r].scopes,
                                       status |-> "active", expired |-> FALSE]]
          /\ origin' = IF call[r].op = "exchange"
                       THEN [origin EXCEPT ![k] = call[r].arg] ELSE origin
    BY <1>5 DEF PutAPIKey
  <2>2. UNCHANGED <<device, approvals>> /\ call[r].pc = "putKey"
    BY <1>5 DEF PutAPIKey, At
  <2>3. key \in [KeyIds -> KeyRow \cup {Unissued}] /\ origin \in [KeyIds -> Codes \cup {None}]
    BY DEF Base, TypeOK
  <2>6. /\ key'[k] # Unissued /\ \A l \in KeyIds : l # k => key'[l] = key[l] /\ origin'[l] = origin[l]
        /\ \A l \in KeyIds : key[l] = Unissued => origin[l] = None
    <3>1. call[r].op \in {"createKey", "createAccount", "exchange"} /\ Owner(r) \in Holders
      BY <1>0, <2>2 DEF Owner, Shape, Finished, Idle, KeyOps, Holders, Accounts
    <3>2. [owner |-> Owner(r), scopes |-> call[r].scopes, status |-> "active", expired |-> FALSE]
            \in KeyRow
      BY <1>0, <3>1 DEF KeyRow, Call
    <3> QED
      BY <2>1, <2>3, <3>2, CredentialsAssumption DEF Base, Approvals
  <2>4. CASE call[r].op = "exchange"
    <3>1. <<call[r].who, call[r].arg>> \in approvals /\ device[call[r].arg] # Unissued
      BY <2>2, <2>4, ActsForApprover
    <3>2. Goto(r, "consume")
      BY <1>5, <2>4 DEF PutAPIKey
    <3>3. /\ call'[r].pc = "consume" /\ call'[r].op = call[r].op /\ call'[r].who = call[r].who
          /\ call'[r].arg = call[r].arg
          /\ \A q \in Requests : q # r => call'[q] = call[q]
      BY <1>0, <3>2, Went
    <3>4. DeviceKeyWasApproved'
      BY <2>1, <2>2, <2>3, <2>4, <3>1 DEF Base, Approvals, DeviceKeyWasApproved, Owner
    <3>5. DeviceApproved'
      BY <2>2 DEF Base, Approvals, DeviceApproved
    <3>7. (\A l \in KeyIds : key[l] = Unissued => origin[l] = None)'
      BY <2>1, <2>6
    <3>6. ASSUME NEW q \in Requests PROVE CallApproved(call[q])'
      <4>1. CASE q = r
        BY <2>2, <2>4, <3>1, <3>3, <4>1 DEF CallApproved
      <4>2. CASE q # r
        BY <1>0, <2>2, <3>3, <4>2 DEF CallApproved
      <4> QED
        BY <4>1, <4>2
    <3> QED
      BY <3>4, <3>5, <3>6, <3>7 DEF Approvals
  <2>5. CASE call[r].op # "exchange"
    <3>1. Succeed(r)
      BY <1>0, <1>5, <2>2, <2>5, CreationSteps DEF PutAPIKey, Shape, Finished, Idle, KeyOps
    <3>2. Elsewhere(call'[r]) /\ \A q \in Requests : q # r => call'[q] = call[q]
      BY <1>0, <3>1, SucceededElsewhere
    <3>3. DeviceKeyWasApproved'
      <4> SUFFICES ASSUME NEW l \in KeyIds, origin'[l] # None
                   PROVE  <<key'[l].owner, origin'[l]>> \in approvals'
        BY DEF DeviceKeyWasApproved
      <4>1. origin'[l] = origin[l]
        BY <2>1, <2>5
      <4>2. CASE l # k
        BY <2>1, <2>2, <2>3, <4>1, <4>2 DEF Base, Approvals, DeviceKeyWasApproved
      <4>3. CASE l = k
        BY <2>1, <4>1, <4>3 DEF Base, Approvals
      <4> QED
        BY <4>2, <4>3
    <3>4. DeviceApproved'
      BY <2>2 DEF Base, Approvals, DeviceApproved
    <3>6. (\A l \in KeyIds : key[l] = Unissued => origin[l] = None)'
      BY <2>1, <2>5, <2>6
    <3>5. ASSUME NEW q \in Requests PROVE CallApproved(call[q])'
      BY <1>0, <2>2, <3>2, ElsewhereApproved DEF CallApproved
    <3> QED
      BY <3>3, <3>4, <3>5, <3>6 DEF Approvals
  <2> QED
    BY <2>4, <2>5
<1>6. ASSUME NEW r \in Requests, DisablePrincipalRow(r) PROVE Approvals'
  <2>1. Succeed(r) /\ UNCHANGED <<device, key, origin, approvals>>
    BY <1>6 DEF DisablePrincipalRow
  <2> QED
    BY <1>0, <2>1, SucceededElsewhere, ApprovalsElsewhere
<1>19. ASSUME NEW r \in Requests, Sign(r), ~Deny(r) PROVE Approvals'
  <2>1. UNCHANGED <<device, key, origin, approvals>>
    BY <1>19 DEF Sign, tables, history, rules
  <2>2. CASE UsesKey(r)
    <3>1. /\ call'[r] = [call[r] EXCEPT !.pc = "ok", !.scopes = Signable(r)]
          /\ \A q \in Requests : q # r => call'[q] = call[q]
      BY <1>0, <1>19, <2>2, Moved DEF Sign
    <3>2. call'[r].pc = "ok"
      BY <1>0, <3>1 DEF Call
    <3>3. Elsewhere(call'[r])
      BY <3>2 DEF Elsewhere
    <3> QED
      BY <2>1, <3>1, <3>3, ApprovalsElsewhere
  <2>3. CASE ~UsesKey(r)
    BY <1>0, <1>19, <2>1, <2>3, SucceededElsewhere, ApprovalsElsewhere DEF Sign
  <2> QED
    BY <2>2, <2>3
<1>7. ASSUME NEW r \in Requests, RevokeAPIKey(r), ~Deny(r) PROVE Approvals'
  <2>1. /\ key[call[r].arg] # Unissued /\ Succeed(r)
        /\ key' = [key EXCEPT ![call[r].arg].status = "revoked"]
        /\ UNCHANGED <<device, origin, approvals>>
    BY <1>7 DEF RevokeAPIKey, history, rules
  <2>2. Elsewhere(call'[r]) /\ \A q \in Requests : q # r => call'[q] = call[q]
    BY <1>0, <2>1, SucceededElsewhere
  <2>3. call[r].arg \in KeyIds
    BY <1>0, <1>7 DEF RevokeAPIKey, At, Shape, Finished, Idle, KeyOps
  <2> QED
    BY <2>1, <2>2, <2>3, KeyUpdated
<1>8. ASSUME NEW r \in Requests, ReadUserCode(r), ~Deny(r) PROVE Approvals'
  <2>1. PICK c \in CodesByUserCode(call[r].arg) :
          Become(r, [call[r] EXCEPT !.pc = "putApproval", !.arg = c])
    BY <1>8 DEF ReadUserCode
  <2>2. c = call[r].arg /\ device[c] # Unissued
    BY <2>1 DEF CodesByUserCode
  <2>3. /\ call'[r] = [call[r] EXCEPT !.pc = "putApproval", !.arg = c]
        /\ \A q \in Requests : q # r => call'[q] = call[q]
        /\ UNCHANGED <<device, key, origin, approvals>>
    BY <1>0, <1>8, <2>1, Moved DEF ReadUserCode, tables, history, rules
  <2>4. call[r].op = "approve" /\ call[r].pc = "readUserCode"
    BY <1>0, <1>8 DEF ReadUserCode, At, Shape, Finished, Idle, KeyOps
  <2>5. CallApproved(call[r])'
    BY <1>0, <2>2, <2>3, <2>4 DEF CallApproved, Call
  <2> QED
    BY <2>3, <2>5, ApprovalsKept
<1>9. ASSUME NEW r \in Requests, PutApproval(r) \/ Consume(r) PROVE Approvals'
  <2>1. PICK st \in {"approved", "consumed"} : UpdateDeviceCode(call[r].arg, st, call[r].who)
    BY <1>9 DEF PutApproval, Consume
  <2>2. Succeed(r) /\ call[r].pc \in {"putApproval", "consume"} /\ UNCHANGED <<key, origin, approvals>>
    BY <1>9 DEF PutApproval, Consume, At, history, rules
  <2>3. /\ call[r].arg \in Codes /\ call[r].who \in Users
        /\ device[call[r].arg] # Unissued /\ <<call[r].who, call[r].arg>> \in approvals
    BY <2>2, ActsForApprover
  <2>4. /\ DeviceApproved' /\ DeviceKeyWasApproved'
        /\ (\A k \in KeyIds : key[k] = Unissued => origin[k] = None)'
        /\ \A d \in Codes : device[d] # Unissued => device'[d] # Unissued
    BY <2>1, <2>2, <2>3, UpdateApproved
  <2>5. Elsewhere(call'[r]) /\ \A q \in Requests : q # r => call'[q] = call[q]
    BY <1>0, <2>2, SucceededElsewhere
  <2>6. \A q \in Requests : CallApproved(call[q])'
    BY <2>2, <2>4, <2>5, DevicesStay
  <2> QED
    BY <2>4, <2>6 DEF Approvals
<1>10. ASSUME NEW r \in Requests, ReadCode(r), ~Deny(r) PROVE Approvals'
  <2>1. /\ Become(r, [call[r] EXCEPT !.pc = "readOwner", !.who = device[call[r].arg].principal])
        /\ device[call[r].arg] # Unissued /\ device[call[r].arg].status = "approved"
        /\ UNCHANGED <<device, key, origin, approvals>>
    BY <1>10 DEF ReadCode, tables, history, rules
  <2>2. call[r].op = "exchange" /\ call[r].arg \in Codes
    BY <1>0, <1>10 DEF ReadCode, At, Shape, Finished, Idle, KeyOps
  <2>3. <<device[call[r].arg].principal, call[r].arg>> \in approvals
    BY <2>1, <2>2 DEF Base, Approvals, DeviceApproved
  <2>4. /\ call'[r] = [call[r] EXCEPT !.pc = "readOwner", !.who = device[call[r].arg].principal]
        /\ \A q \in Requests : q # r => call'[q] = call[q]
    BY <1>0, <2>1, Moved
  <2>5. CallApproved(call[r])'
    BY <1>0, <2>1, <2>2, <2>3, <2>4 DEF CallApproved, Call
  <2> QED
    BY <2>1, <2>4, <2>5, ApprovalsKept
<1>11. ASSUME NEW r \in Requests, ReadKey(r), ~Deny(r) PROVE Approvals'
  <2>1. /\ call'[r] = [call[r] EXCEPT !.pc = "readOwner", !.who = key[call[r].arg].owner,
                             !.scopes = key[call[r].arg].scopes]
        /\ \A q \in Requests : q # r => call'[q] = call[q]
        /\ UNCHANGED <<device, key, origin, approvals>>
    BY <1>0, <1>11, Moved DEF ReadKey, tables, history, rules
  <2>2. call[r].op \in KeyOps
    BY <1>0, <1>11 DEF ReadKey, At, Shape, Finished, Idle
  <2>3. Elsewhere(call'[r])
    BY <1>0, <2>1, <2>2 DEF Elsewhere, Call, KeyOps
  <2> QED
    BY <2>1, <2>3, ApprovalsElsewhere
<1>12. ASSUME NEW r \in Requests, ReadOwner(r), ~Deny(r) PROVE Approvals'
  <2> DEFINE point == IF call[r].op = "exchange" THEN "scope" ELSE "touch"
  <2>1. /\ call'[r] = [call[r] EXCEPT !.roles = RolesOf(call[r].who), !.pc = point]
        /\ \A q \in Requests : q # r => call'[q] = call[q]
        /\ UNCHANGED <<device, key, origin, approvals>>
    BY <1>0, <1>12, Moved DEF ReadOwner, tables, history, rules
  <2>2. /\ call'[r].pc = point /\ call'[r].op = call[r].op /\ call'[r].who = call[r].who
        /\ call'[r].arg = call[r].arg
    BY <1>0, <2>1 DEF Call
  <2>3. call[r].pc = "readOwner" /\ call[r].op # "approve"
    BY <1>0, <1>12 DEF ReadOwner, At, Shape, Finished, Idle, KeyOps
  <2>4. CallApproved(call[r])'
    BY <1>0, <2>1, <2>2, <2>3 DEF CallApproved
  <2> QED
    BY <2>1, <2>4, ApprovalsKept
<1>13. ASSUME NEW r \in Requests, ProjectAccount(r) PROVE Approvals'
  <2>1. /\ call'[r] = [call[r] EXCEPT !.pc = "sign", !.roles = AccountRoles]
        /\ \A q \in Requests : q # r => call'[q] = call[q]
        /\ UNCHANGED <<device, key, origin, approvals>>
    BY <1>0, <1>13, Moved DEF ProjectAccount, history, rules
  <2>2. Elsewhere(call'[r])
    BY <1>0, <2>1 DEF Elsewhere, Call
  <2> QED
    BY <2>1, <2>2, ApprovalsElsewhere
<1>14. ASSUME NEW k \in KeyIds, ExpireKey(k) PROVE Approvals'
  BY <1>14, KeyExpired
<1>15. ASSUME NEW c \in Codes, StartDeviceAuth(c) \/ ExpireCode(c) PROVE Approvals'
  BY <1>15, CodeChanged
<1>16. CASE UNCHANGED <<call, device, key, origin, approvals>>
  BY <1>16 DEF Base, Approvals, DeviceApproved, DeviceKeyWasApproved, CallApproved
<1> QED
  BY <1>1, <1>2, <1>3, <1>4, <1>5, <1>6, <1>7, <1>8, <1>9, <1>10, <1>11, <1>12, <1>13, <1>14,
     <1>15, <1>16, <1>17, <1>18, <1>19
  DEF Next, WithSession, DeviceFlow, KeyUse, ClientCredentials, Abort, Environment, RolesChange,
      UpdatePolicy, StatusChange, DisableTenant, vars, tables, history, rules

LEMMA BaseNext == Base /\ [Next]_vars => Base'
  BY TypeNext, ShapesNext, ApprovalsNext DEF Base

----------------------------------------------------------------------------
(* Accounts, their rows and their keys.                                    *)

\* Rows stay, with whoever created them.
RowsGrow ==
    /\ \A a \in Accounts :
          /\ account[a] # Unissued => account'[a] # Unissued
          /\ status[a] # "none" => status'[a] # "none"
    /\ \A a \in Created :
          account[a] # Unissued => account'[a].createdBy = account[a].createdBy

\* A new row is of an external client or of the call that creates the account.
NewRows ==
    \A a \in Accounts : account[a] = Unissued /\ account'[a] # Unissued =>
        /\ status[a] # "none"
        /\ a \in Projected \/ \E r \in Requests : PutServiceAccount(r) /\ call[r].arg = a

\* What is off stays off unless it is turned on, and what is newly off is.
OffUntilOn ==
    /\ \A a \in Accounts : IsOff(a) => IsOff(a)' \/ TurnedOn(a)
    /\ \A a \in off' : a \in off \/ IsOff(a)'

Steady == RowsGrow /\ NewRows /\ OffUntilOn

LEMMA SteadyTables ==
  ASSUME UNCHANGED <<account, status, off>> PROVE Steady
  BY DEF Steady, RowsGrow, NewRows, OffUntilOn, IsOff

LEMMA SteadyNext == Base /\ Creations /\ Tables /\ [Next]_vars => Steady
<1> SUFFICES ASSUME Base, Creations, Tables, [Next]_vars PROVE Steady
  OBVIOUS
<1>0. ASSUME NEW r \in Requests
      PROVE  TypeOK /\ Shape(call[r]) /\ call[r] \in Call /\ Creation(call[r])
  BY CallTypes DEF Base, Shapes, Creations
<1>t. /\ account \in [Accounts -> AccountRow \cup {Unissued}]
      /\ status \in [Holders -> {"none", "active", "disabled"}]
      /\ Unissued \notin AccountRow
      /\ Accounts \subseteq Holders /\ Created \subseteq Accounts /\ Projected \subseteq Accounts
      /\ Created \cap Projected = {} /\ off \subseteq Accounts
  BY CredentialsAssumption DEF Base, TypeOK, Holders, Accounts
<1>1. ASSUME NEW r \in Requests, PutPrincipal(r) PROVE Steady
  <2>1. /\ status' = [status EXCEPT ![call[r].arg] = "active"]
        /\ UNCHANGED <<account, off>> /\ call[r].pc = "putPrincipal"
    BY <1>1 DEF PutPrincipal, At, history, rules
  <2>2. call[r].arg \in Created /\ account[call[r].arg] = Unissued
    BY <1>0, <2>1 DEF Shape, Finished, Idle, KeyOps, Creation, Creating
  <2> QED
    BY <1>t, <2>1, <2>2 DEF Steady, RowsGrow, NewRows, OffUntilOn, IsOff
<1>2. ASSUME NEW r \in Requests, PutServiceAccount(r) PROVE Steady
  <2> DEFINE row == [status |-> "active", createdBy |-> call[r].who]
  <2>1. /\ account' = [account EXCEPT ![call[r].arg] = row]
        /\ UNCHANGED <<status, off>> /\ call[r].pc = "putAccount"
    BY <1>2 DEF PutServiceAccount, At, history, rules
  <2>2. /\ call[r].arg \in Created /\ call[r].who \in Users
        /\ account[call[r].arg] = Unissued /\ status[call[r].arg] # "none"
    BY <1>0, <2>1 DEF Shape, Finished, Idle, KeyOps, Creation, Creating
  <2>3. row # Unissued
    BY <1>t, <2>2 DEF AccountRow
  <2> HIDE DEF row
  <2>4. /\ account'[call[r].arg] = row
        /\ \A a \in Accounts : a # call[r].arg => account'[a] = account[a]
    BY <1>t, <2>1, <2>2
  <2> QED
    BY <1>2, <1>t, <2>1, <2>2, <2>3, <2>4 DEF Steady, RowsGrow, NewRows, OffUntilOn, IsOff
<1>3. ASSUME NEW r \in Requests, DisableAccountRow(r), ~Deny(r) PROVE Steady
  <2> DEFINE a == call[r].arg
  <2>1. /\ account[a] # Unissued /\ account' = [account EXCEPT ![a].status = "disabled"]
        /\ UNCHANGED <<status, off>> /\ call[r].pc = "disableAccount"
    BY <1>3 DEF DisableAccountRow, At, history, rules
  <2>2. a \in Accounts /\ account[a] \in AccountRow
    BY <1>0, <1>t, <2>1 DEF Shape, Finished, Idle, KeyOps
  <2>3. account'[a] \in AccountRow /\ account'[a].createdBy = account[a].createdBy
    BY <1>t, <2>1, <2>2 DEF AccountRow
  <2> HIDE DEF a
  <2>4. account'[a] # Unissued /\ \A b \in Accounts : b # a => account'[b] = account[b]
    BY <1>t, <2>1, <2>2, <2>3
  <2> QED
    BY <1>t, <2>1, <2>2, <2>3, <2>4 DEF Steady, RowsGrow, NewRows, OffUntilOn, IsOff
<1>4. ASSUME NEW r \in Requests, DisablePrincipalRow(r) PROVE Steady
  <2> DEFINE a == call[r].arg
  <2>1. /\ status' = [status EXCEPT ![a] = IF @ = "none" THEN @ ELSE "disabled"]
        /\ off' = off \cup {a}
        /\ UNCHANGED account /\ call[r].pc = "disablePrincipal"
    BY <1>4 DEF DisablePrincipalRow, At
  <2>2. a \in Accounts /\ account[a] # Unissued
    BY <1>0, <2>1 DEF Shape, Finished, Idle, KeyOps, Creation
  <2>3. status[a] # "none"
    BY <2>2 DEF Tables, RowsInOrder
  <2> HIDE DEF a
  <2>4. status'[a] = "disabled" /\ \A b \in Accounts : b # a => status'[b] = status[b]
    BY <1>t, <2>1, <2>2, <2>3
  <2> QED
    BY <1>t, <2>1, <2>2, <2>4 DEF Steady, RowsGrow, NewRows, OffUntilOn, IsOff
<1>5. ASSUME NEW r \in Requests, ProjectPrincipal(r) PROVE Steady
  <2>1. /\ status' = [status EXCEPT ![call[r].arg] = "active"] /\ TurnedOn(call[r].arg)
        /\ UNCHANGED account /\ call[r].pc = "projectPrincipal"
    BY <1>5 DEF ProjectPrincipal, At
  <2>2. call[r].arg \in Accounts
    BY <1>0, <1>t, <2>1 DEF Shape, Finished, Idle, KeyOps
  <2>3. off' \subseteq off
    BY <2>1 DEF TurnedOn
  <2>4. /\ status'[call[r].arg] = "active"
        /\ \A b \in Accounts : b # call[r].arg => status'[b] = status[b]
    BY <1>t, <2>1, <2>2
  <2> QED
    BY <1>t, <2>1, <2>2, <2>3, <2>4 DEF Steady, RowsGrow, NewRows, OffUntilOn, IsOff
<1>6. ASSUME NEW r \in Requests, ProjectAccount(r) PROVE Steady
  <2> DEFINE row == [status |-> "active", createdBy |-> None]
  <2>1. /\ account' = [account EXCEPT ![call[r].arg] = row]
        /\ UNCHANGED <<status, off>> /\ call[r].pc = "projectAccount"
    BY <1>6 DEF ProjectAccount, At, history, rules
  <2>2. call[r].arg \in Projected /\ status[call[r].arg] # "none"
    BY <1>0, <2>1 DEF Shape, Finished, Idle, KeyOps, Creation
  <2>3. row # Unissued
    BY <1>t DEF AccountRow
  <2> HIDE DEF row
  <2>4. /\ account'[call[r].arg] = row
        /\ \A a \in Accounts : a # call[r].arg => account'[a] = account[a]
    BY <1>t, <2>1, <2>2
  <2> QED
    BY <1>t, <2>1, <2>2, <2>3, <2>4 DEF Steady, RowsGrow, NewRows, OffUntilOn, IsOff
<1>7. ASSUME \/ \E u \in Users : RolesChange(u)
             \/ \E p \in Policies : UpdatePolicy(p)
      PROVE  UNCHANGED <<account, status, off>>
  BY <1>7 DEF RolesChange, UpdatePolicy, tables, rules
<1>8. ASSUME NEW h \in Holders, StatusChange(h) PROVE Steady
  <2>1. /\ \/ status' = [status EXCEPT ![h] = "disabled"] /\ off' = off
           \/ status' = [status EXCEPT ![h] = "active"] /\ TurnedOn(h)
        /\ status[h] # "none" /\ UNCHANGED account
    BY <1>8 DEF StatusChange
  <2>2. off' \subseteq off
    BY <2>1 DEF TurnedOn
  <2>3. /\ \A b \in Holders : b # h => status'[b] = status[b]
        /\ status'[h] \in {"active", "disabled"}
        /\ status'[h] = "disabled" \/ TurnedOn(h)
    BY <1>t, <2>1
  <2> QED
    BY <1>t, <2>1, <2>2, <2>3 DEF Steady, RowsGrow, NewRows, OffUntilOn, IsOff
<1>9. CASE UNCHANGED <<account, status, off>>
  BY <1>9, SteadyTables
<1>10. ASSUME NEW r \in Requests, \/ Authorize(r) \/ CheckScopes(r) \/ GrantDeviceScopes(r)
                                 \/ PutAPIKey(r) \/ RevokeAPIKey(r)
                                 \/ DeviceFlow(r) \/ KeyUse(r)
                                 \/ ClientTenant(r) \/ PutTenant(r)
                                 \/ Start(r) \/ Deny(r)
       PROVE  UNCHANGED <<account, status, off>>
  BY <1>0, <1>10, Started
  DEF Authorize, CheckScopes, GrantDeviceScopes, PutAPIKey, RevokeAPIKey, DeviceFlow, ReadUserCode, PutApproval, ReadCode, Consume,
      KeyUse, ReadKey, ReadOwner, Touch, Sign, ClientTenant, PutTenant, Deny, tables, history, rules
<1> QED
  BY <1>1, <1>2, <1>3, <1>4, <1>5, <1>6, <1>7, <1>8, <1>9, <1>10
  DEF Next, WithSession, ClientCredentials, Abort, Environment, ExpireKey, StartDeviceAuth,
      ExpireCode, DisableTenant, vars, tables, history, rules

\* Keys stay, with their owner, their scopes and their creator's grant, and a
\* revoked one stays revoked.
KeysStay ==
    \A k \in KeyIds : key[k] # Unissued =>
        /\ key'[k] # Unissued
        /\ key'[k].owner = key[k].owner /\ key'[k].scopes = key[k].scopes
        /\ granted'[k] = granted[k]
        /\ key[k].status = "revoked" => key'[k].status = "revoked"

\* A new key is of the call that stores it.
NewKeys ==
    \A k \in KeyIds : key[k] = Unissued /\ key'[k] # Unissued =>
        \E r \in Requests :
            /\ PutAPIKey(r) /\ key'[k].owner = Owner(r) /\ key'[k].scopes = call[r].scopes
            /\ granted'[k] = Moments(r)

LEMMA KeysNext == Base /\ [Next]_vars => KeysStay /\ NewKeys
<1> SUFFICES ASSUME Base, [Next]_vars PROVE KeysStay /\ NewKeys
  OBVIOUS
<1>t. /\ key \in [KeyIds -> KeyRow \cup {Unissued}] /\ Unissued \notin KeyRow
      /\ granted \in [KeyIds -> SUBSET SUBSET Scopes]
      /\ \A r \in Requests : TypeOK /\ Shape(call[r]) /\ call[r] \in Call
  BY CallTypes, CredentialsAssumption DEF Base, TypeOK, Shapes
<1>1. ASSUME NEW r \in Requests, PutAPIKey(r) PROVE KeysStay /\ NewKeys
  <2> DEFINE row == [owner |-> Owner(r), scopes |-> call[r].scopes,
                     status |-> "active", expired |-> FALSE]
  <2>1. PICK k \in KeyIds : /\ key[k] = Unissued /\ key' = [key EXCEPT ![k] = row]
                            /\ granted' = [granted EXCEPT ![k] = Moments(r)]
    BY <1>1 DEF PutAPIKey
  <2>2. row.owner = Owner(r) /\ row.scopes = call[r].scopes
    OBVIOUS
  <2> HIDE DEF row
  <2>3. /\ key'[k] = row /\ granted'[k] = Moments(r)
        /\ \A l \in KeyIds : l # k => key'[l] = key[l] /\ granted'[l] = granted[l]
    BY <1>t, <2>1
  <2> QED
    BY <1>1, <2>1, <2>2, <2>3 DEF KeysStay, NewKeys
<1>2. ASSUME NEW k \in KeyIds, key[k] # Unissued, UNCHANGED granted,
             \/ key' = [key EXCEPT ![k].status = "revoked"]
             \/ key' = [key EXCEPT ![k].expired = TRUE]
      PROVE  KeysStay /\ NewKeys
  <2>1. key[k] \in KeyRow
    BY <1>t, <1>2
  <2>3. /\ \/ key'[k] = [key[k] EXCEPT !.status = "revoked"]
           \/ key'[k] = [key[k] EXCEPT !.expired = TRUE]
        /\ \A l \in KeyIds : l # k => key'[l] = key[l]
    BY <1>t, <1>2
  <2>2. /\ key'[k] \in KeyRow /\ key'[k].owner = key[k].owner /\ key'[k].scopes = key[k].scopes
        /\ key'[k].status = key[k].status \/ key'[k].status = "revoked"
    BY <2>1, <2>3 DEF KeyRow
  <2> QED
    BY <1>t, <1>2, <2>2, <2>3 DEF KeysStay, NewKeys
<1>3. ASSUME NEW r \in Requests, RevokeAPIKey(r), ~Deny(r) PROVE KeysStay /\ NewKeys
  <2>1. call[r].arg \in KeyIds
    BY <1>t, <1>3 DEF RevokeAPIKey, At, Shape, Finished, Idle, KeyOps
  <2> QED
    BY <1>2, <1>3, <2>1 DEF RevokeAPIKey, history, rules
<1>4. ASSUME NEW k \in KeyIds, ExpireKey(k) PROVE KeysStay /\ NewKeys
  BY <1>2, <1>4 DEF ExpireKey, history, rules
<1>5. CASE UNCHANGED <<key, granted>>
  BY <1>5 DEF KeysStay, NewKeys
<1>6. ASSUME NEW r \in Requests,
             \/ Authorize(r) \/ CheckScopes(r) \/ GrantDeviceScopes(r) \/ PutPrincipal(r)
             \/ PutServiceAccount(r) \/ DisableAccountRow(r) \/ DisablePrincipalRow(r)
             \/ DeviceFlow(r) \/ KeyUse(r) \/ ClientCredentials(r)
             \/ Start(r) \/ Deny(r)
      PROVE  UNCHANGED <<key, granted>>
  BY <1>t, <1>6, Started
  DEF Authorize, CheckScopes, GrantDeviceScopes, PutPrincipal, PutServiceAccount, DisableAccountRow, DisablePrincipalRow,
      DeviceFlow, ReadUserCode, PutApproval, ReadCode, Consume, KeyUse, ReadKey, ReadOwner, Touch,
      Sign, ClientCredentials, ClientTenant, PutTenant, ProjectPrincipal, ProjectAccount, Deny,
      tables, history, rules
<1> QED
  BY <1>1, <1>3, <1>4, <1>5, <1>6
  DEF Next, WithSession, Abort, Environment, StartDeviceAuth, ExpireCode, RolesChange, UpdatePolicy,
      StatusChange, DisableTenant, vars, tables, history, rules

\* The call that stores a key was allowed its scopes, and its owner is the
\* caller or the account that the caller creates.
LEMMA StoredWithinGrant ==
  ASSUME Base, Creations, Limits, NEW r \in Requests, PutAPIKey(r)
  PROVE  /\ call[r].who \in Users
         /\ \E S \in Moments(r) : call[r].scopes \subseteq S
         /\ \/ Owner(r) = call[r].who
            \/ /\ Owner(r) \in Created /\ account[Owner(r)] # Unissued
               /\ account[Owner(r)].createdBy = call[r].who
<1>1. Shape(call[r]) /\ Creation(call[r]) /\ Limit(r) /\ call[r].pc = "putKey"
  BY DEF Base, Shapes, Creations, Limits, PutAPIKey, At
<1>2. /\ call[r].op \in {"createKey", "createAccount", "exchange"} /\ call[r].who \in Users
      /\ call[r].op = "createAccount" => call[r].arg \in Created
  BY <1>1 DEF Shape, Finished, Idle, KeyOps
<1>3. \E S \in Moments(r) : call[r].scopes \subseteq S
  BY <1>1, <1>2 DEF Limit, HasScopes
<1> QED
  BY <1>1, <1>2, <1>3 DEF Creation, Creating, Owner

LEMMA TablesNext == Base /\ Creations /\ Limits /\ Tables /\ [Next]_vars => Tables'
<1> SUFFICES ASSUME Base, Creations, Limits, Tables, [Next]_vars PROVE Tables'
  OBVIOUS
<1>1. RowsGrow /\ NewRows /\ OffUntilOn /\ KeysStay /\ NewKeys
  BY SteadyNext, KeysNext DEF Steady
<1>t. Created \subseteq Accounts /\ Users \cap Created = {}
  BY CredentialsAssumption DEF Accounts
<1>2. RowsInOrder'
  BY <1>1 DEF RowsGrow, NewRows, Tables, RowsInOrder
<1>3. ASSUME NEW k \in KeyIds, key'[k] # Unissued
      PROVE  /\ \E S \in granted'[k] : key'[k].scopes \subseteq S
             /\ key'[k].owner \in Users \cup Created
             /\ key'[k].owner \in Created =>
                   /\ account'[key'[k].owner] # Unissued
                   /\ account'[key'[k].owner].createdBy \in Users
  <2>1. CASE key[k] # Unissued
    <3>1. /\ key'[k].owner = key[k].owner /\ key'[k].scopes = key[k].scopes
          /\ granted'[k] = granted[k]
      BY <1>1, <2>1 DEF KeysStay
    <3>2. /\ \E S \in granted[k] : key[k].scopes \subseteq S
          /\ key[k].owner \in Users \cup Created
          /\ key[k].owner \in Created =>
                account[key[k].owner] # Unissued /\ account[key[k].owner].createdBy \in Users
      BY <2>1 DEF Tables, KeyOwners, KeysWithinGrant
    <3> QED
      BY <1>1, <1>t, <3>1, <3>2 DEF RowsGrow
  <2>2. CASE key[k] = Unissued
    <3>1. PICK r \in Requests :
            /\ PutAPIKey(r) /\ key'[k].owner = Owner(r) /\ key'[k].scopes = call[r].scopes
            /\ granted'[k] = Moments(r)
      BY <1>1, <1>3, <2>2 DEF NewKeys
    <3>2. UNCHANGED account
      BY <3>1 DEF PutAPIKey
    <3> QED
      BY <1>t, <3>1, <3>2, StoredWithinGrant
  <2> QED
    BY <2>1, <2>2
<1>4. KeyOwners' /\ KeysWithinGrant'
  BY <1>3, <1>t DEF KeyOwners, KeysWithinGrant
<1>6. OffRows'
  <2>1. ASSUME NEW a \in off' PROVE IsOff(a)'
    <3>1. CASE a \in off
      <4>1. IsOff(a) /\ a \in Accounts
        BY <3>1 DEF Tables, OffRows, Base, TypeOK
      <4>2. ~TurnedOn(a)
        BY <2>1 DEF TurnedOn
      <4> QED
        BY <1>1, <4>1, <4>2 DEF OffUntilOn
    <3> QED
      BY <1>1, <2>1, <3>1 DEF OffUntilOn
  <2> QED
    BY <2>1 DEF OffRows, IsOff
<1> QED
  BY <1>2, <1>4, <1>6 DEF Tables

----------------------------------------------------------------------------
(* How calls go on.                                                        *)

\* A step is of one call, which begins or is running.
LEMMA StepsAlone ==
  ASSUME Base, NEW r \in Requests,
         \/ Start(r) \/ WithSession(r) \/ DeviceFlow(r) \/ KeyUse(r) \/ ClientCredentials(r)
         \/ Abort(r)
  PROVE  /\ \A q \in Requests : q # r => call'[q] = call[q]
         /\ Start(r) \/ Running(r)
<1>0. TypeOK
  BY DEF Base
<1>1. CASE Start(r)
  BY <1>0, <1>1, Started
<1>2. ASSUME NEW c, Become(r, c) PROVE \A q \in Requests : q # r => call'[q] = call[q]
  BY <1>0, <1>2, Moved
<1>3. CASE WithSession(r)
  <2> DEFINE Moves == \E c : Become(r, c)
  <2>3. ASSUME NEW point, After(r, point) \/ Goto(r, point) \/ Succeed(r) \/ Deny(r) PROVE Moves
    BY <2>3 DEF After, Goto, Succeed, Deny
  <2>4. ASSUME Authorize(r) \/ CheckScopes(r) \/ GrantDeviceScopes(r) PROVE Moves
    BY <2>3, <2>4 DEF Authorize, CheckScopes, GrantDeviceScopes
  <2>5. ASSUME PutAPIKey(r) PROVE Moves
    <3>1. Shape(call[r]) /\ call[r].pc = "putKey"
      BY <2>5 DEF PutAPIKey, At, Base, Shapes
    <3>2. call[r].op \in {"createKey", "createAccount", "exchange"}
      BY <3>1 DEF Shape, Finished, KeyOps
    <3> HIDE DEF Moves
    <3> QED
      BY <2>3, <2>5, <3>2 DEF PutAPIKey
  <2>1. Moves
    <3> HIDE DEF Moves
    <3> QED
      BY <1>3, <2>3, <2>4, <2>5
      DEF WithSession, PutPrincipal, PutServiceAccount, DisableAccountRow, DisablePrincipalRow,
          RevokeAPIKey
  <2>2. Running(r)
    BY <1>3
    DEF WithSession, Authorize, CheckScopes, GrantDeviceScopes, PutPrincipal, PutServiceAccount,
        PutAPIKey, DisableAccountRow, DisablePrincipalRow, RevokeAPIKey, At, Running, Finished
  <2> QED
    BY <1>2, <2>1, <2>2
<1>4. CASE DeviceFlow(r)
  <2>1. \E c : Become(r, c)
    BY <1>4 DEF DeviceFlow, ReadUserCode, PutApproval, ReadCode, Consume, Succeed, Deny
  <2>2. Running(r)
    BY <1>4 DEF DeviceFlow, ReadUserCode, PutApproval, ReadCode, Consume, At, Running, Finished
  <2> QED
    BY <1>2, <2>1, <2>2
<1>5. CASE KeyUse(r)
  <2>1. \E c : Become(r, c)
    BY <1>5 DEF KeyUse, ReadKey, ReadOwner, Touch, AfterTouch, Sign, Goto, Succeed, Deny
  <2>2. Running(r)
    BY <1>5 DEF KeyUse, ReadKey, ReadOwner, Touch, Sign, At, Running, Finished
  <2> QED
    BY <1>2, <2>1, <2>2
<1>6. CASE ClientCredentials(r)
  <2>1. \E c : Become(r, c)
    BY <1>6
    DEF ClientCredentials, ClientTenant, PutTenant, ProjectPrincipal, ProjectAccount, Goto, Deny
  <2>2. Running(r)
    BY <1>6 DEF ClientCredentials, ClientTenant, PutTenant, ProjectPrincipal, ProjectAccount, At,
                Running, Finished
  <2> QED
    BY <1>2, <2>1, <2>2
<1>7. CASE Abort(r)
  BY <1>2, <1>7 DEF Abort, Deny
<1> QED
  BY <1>1, <1>3, <1>4, <1>5, <1>6, <1>7

\* Whose step it is, if it is a call's at all.
LEMMA Stepping ==
  ASSUME [Next]_vars
  PROVE  \/ UNCHANGED call
         \/ \E r \in Requests :
               \/ Start(r) \/ WithSession(r) \/ DeviceFlow(r) \/ KeyUse(r) \/ ClientCredentials(r)
               \/ Abort(r)
  BY DEF Next, Environment, ExpireKey, StartDeviceAuth, ExpireCode, RolesChange, UpdatePolicy,
         StatusChange, DisableTenant, vars, rules

\* A call that is neither running nor begins stays as it is.
LEMMA Resting ==
  ASSUME Base, [Next]_vars, NEW r \in Requests, ~Running(r), ~Start(r)
  PROVE  call'[r] = call[r]
<1>1. ASSUME NEW q \in Requests,
             \/ Start(q) \/ WithSession(q) \/ DeviceFlow(q) \/ KeyUse(q) \/ ClientCredentials(q)
             \/ Abort(q)
      PROVE  call'[r] = call[r]
  <2>1. (\A x \in Requests : x # q => call'[x] = call[x]) /\ (Start(q) \/ Running(q))
    BY <1>1, StepsAlone
  <2> QED
    BY <2>1
<1> QED
  BY <1>1, Stepping

\* Where a call neither writes a row that was prepared for it nor looks up or
\* uses what roles allow.
Plain(c) ==
    /\ c.pc \notin {"scope", "putPrincipal", "putAccount", "putKey", "disablePrincipal",
                    "projectAccount"}
    /\ c.op = "useKey" => c.pc \notin {"touch", "sign", "ok"}

\* The steps that prepare what the next one needs.
Prepares(r) ==
    \/ Authorize(r) \/ CheckScopes(r) \/ GrantDeviceScopes(r)
    \/ PutPrincipal(r) \/ PutServiceAccount(r) \/ DisableAccountRow(r)
    \/ ReadOwner(r) \/ Touch(r) \/ (Sign(r) /\ UsesKey(r)) \/ ProjectPrincipal(r)

LEMMA PlainSucceed == ASSUME TypeOK, NEW r \in Requests, Succeed(r) PROVE Plain(call'[r])
<1>1. call'[r].pc = "ok" /\ call'[r].op = None
  BY Succeeded DEF Idle
<1>2. None # "useKey"
  BY Unset DEF KeyOps
<1> QED
  BY <1>1, <1>2 DEF Plain

LEMMA PlainDeny == ASSUME TypeOK, NEW r \in Requests, Deny(r) PROVE Plain(call'[r])
  BY Denied DEF Plain, Idle

LEMMA CallMoves ==
  ASSUME Base, [Next]_vars, NEW r \in Requests
  PROVE  call'[r] = call[r] \/ Plain(call'[r]) \/ (Prepares(r) /\ ~Deny(r))
<1>0. TypeOK /\ Shape(call[r]) /\ call[r] \in Call
  BY CallTypes DEF Base, Shapes
<1> DEFINE Fine == Plain(call'[r])
           Here == Prepares(r) /\ ~Deny(r)
<1>1. ASSUME Deny(r) PROVE Fine
  BY <1>0, <1>1, PlainDeny
<1>2. CASE Start(r)
  BY <1>0, <1>2, Started DEF Plain, BeginPoints
<1>3. ASSUME Succeed(r) PROVE Fine
  BY <1>0, <1>3, PlainSucceed
<1>4. ASSUME NEW c, Become(r, c), c.pc \in {"putApproval", "readOwner"} PROVE Fine
  BY <1>0, <1>4, Moved DEF Plain
<1>5. ASSUME NEW point, Goto(r, point), point \in {"consume", "putTenant", "projectPrincipal"}
      PROVE  Fine
  BY <1>0, <1>5, Went DEF Plain
<1>6. ASSUME PutAPIKey(r) PROVE Fine
  <2>1. call[r].op \in {"createKey", "createAccount", "exchange"}
    BY <1>0, <1>6 DEF PutAPIKey, At, Shape, Finished, Idle, KeyOps
  <2> QED
    BY <1>3, <1>5, <1>6, <2>1, CreationSteps DEF PutAPIKey
<1>7. ASSUME ReadUserCode(r) /\ ~Deny(r) PROVE Fine
  <2>1. PICK c \in CodesByUserCode(call[r].arg) :
          Become(r, [call[r] EXCEPT !.pc = "putApproval", !.arg = c])
    BY <1>7 DEF ReadUserCode
  <2>2. [call[r] EXCEPT !.pc = "putApproval", !.arg = c].pc = "putApproval"
    BY <1>0 DEF Call
  <2> QED
    BY <1>4, <2>1, <2>2
<1>8. ASSUME ReadCode(r) /\ ~Deny(r) PROVE Fine
  <2> DEFINE c == [call[r] EXCEPT !.pc = "readOwner", !.who = device[call[r].arg].principal]
  <2>1. Become(r, c)
    BY <1>8 DEF ReadCode
  <2>2. c.pc = "readOwner"
    BY <1>0 DEF Call
  <2> QED
    BY <1>4, <2>1, <2>2
<1>9. ASSUME ReadKey(r) /\ ~Deny(r) PROVE Fine
  <2> DEFINE c == [call[r] EXCEPT !.pc = "readOwner", !.who = key[call[r].arg].owner,
                         !.scopes = key[call[r].arg].scopes]
  <2>1. Become(r, c)
    BY <1>9 DEF ReadKey
  <2>2. c.pc = "readOwner"
    BY <1>0 DEF Call
  <2> QED
    BY <1>4, <2>1, <2>2
<1>10. ASSUME ProjectAccount(r) PROVE Fine
  <2> DEFINE c == [call[r] EXCEPT !.pc = "sign", !.roles = AccountRoles]
  <2>1. call'[r] = c
    BY <1>0, <1>10, Moved DEF ProjectAccount
  <2>2. c.pc = "sign" /\ c.op = call[r].op
    BY <1>0 DEF Call
  <2>3. call[r].op # "useKey"
    BY <1>0, <1>10 DEF ProjectAccount, At, Shape, Finished, Idle, KeyOps
  <2> QED
    BY <2>1, <2>2, <2>3 DEF Plain
<1>11. ASSUME \/ DisablePrincipalRow(r) \/ RevokeAPIKey(r) \/ PutApproval(r) \/ Consume(r)
              \/ (Sign(r) /\ ~UsesKey(r)) \/ ClientTenant(r) \/ PutTenant(r), ~Deny(r)
       PROVE  Fine
  BY <1>3, <1>5, <1>11
  DEF DisablePrincipalRow, RevokeAPIKey, PutApproval, Consume, Sign, ClientTenant, PutTenant
<1>15. ASSUME Prepares(r) PROVE Fine \/ Here
  BY <1>1, <1>15
<1>16. ASSUME WithSession(r) PROVE Fine \/ Here
  <2> HIDE DEF Fine, Here
  <2> QED
    BY <1>1, <1>6, <1>11, <1>15, <1>16 DEF WithSession, Prepares
<1>17. ASSUME DeviceFlow(r) PROVE Fine \/ Here
  BY <1>1, <1>7, <1>8, <1>11, <1>17 DEF DeviceFlow
<1>18. ASSUME KeyUse(r) PROVE Fine \/ Here
  <2> HIDE DEF Fine, Here
  <2> QED
    BY <1>1, <1>9, <1>11, <1>15, <1>18 DEF KeyUse, Prepares
<1>19. ASSUME ClientCredentials(r) PROVE Fine \/ Here
  <2> HIDE DEF Fine, Here
  <2> QED
    BY <1>1, <1>10, <1>11, <1>15, <1>19 DEF ClientCredentials, Prepares
<1>12. ASSUME WithSession(r) \/ DeviceFlow(r) \/ KeyUse(r) \/ ClientCredentials(r)
       PROVE  Plain(call'[r]) \/ (Prepares(r) /\ ~Deny(r))
  BY <1>12, <1>16, <1>17, <1>18, <1>19
<1>13. ASSUME NEW q \in Requests, q # r,
              \/ Start(q) \/ WithSession(q) \/ DeviceFlow(q) \/ KeyUse(q) \/ ClientCredentials(q)
              \/ Abort(q)
       PROVE  call'[r] = call[r]
  BY <1>13, StepsAlone
<1>14. CASE Abort(r)
  BY <1>1, <1>14 DEF Abort
<1> QED
  BY <1>2, <1>12, <1>13, <1>14, Stepping

----------------------------------------------------------------------------
(* What one step of a call prepares for the next.                          *)

LEMMA Authorized ==
  ASSUME Base, NEW r \in Requests, Authorize(r), ~Deny(r)
  PROVE  /\ call'[r].op = call[r].op /\ call'[r].who = call[r].who
         /\ call'[r].arg = call[r].arg /\ call'[r].roles = roles[call[r].who]
         /\ call[r].pc = "authorize" /\ call[r].who \in Users
         /\ call'[r].pc \in {"scope", "disableAccount", "revokeKey", "readUserCode"}
<1>0. TypeOK /\ Shape(call[r]) /\ call[r] \in Call
  BY CallTypes DEF Base, Shapes
<1>1. call[r].pc = "authorize" /\ call[r].op \in SessionOps /\ call[r].who \in Users
  BY <1>0 DEF Authorize, At, Shape, Finished, Idle, SessionOps, KeyOps
<1>2. call'[r] = [call[r] EXCEPT !.pc = FirstStep[call[r].op], !.roles = roles[call[r].who]]
  BY <1>0, Moved DEF Authorize
<1>3. /\ call'[r].pc = FirstStep[call[r].op] /\ call'[r].op = call[r].op
      /\ call'[r].who = call[r].who /\ call'[r].arg = call[r].arg
      /\ call'[r].roles = roles[call[r].who]
  BY <1>0, <1>2 DEF Call
<1> QED
  BY <1>1, <1>3, FirstSteps DEF SessionOps

LEMMA ScopesChecked ==
  ASSUME Base, NEW r \in Requests, CheckScopes(r), ~Deny(r)
  PROVE  /\ call'[r].op = call[r].op /\ call'[r].who = call[r].who
         /\ call'[r].scopes = call[r].scopes /\ AskedWithin(r)
         /\ call[r].pc = "scope" /\ call[r].who \in Users /\ UNCHANGED tables
         /\ \/ /\ call[r].op = "createAccount" /\ call'[r].pc = "putPrincipal"
               /\ call'[r].arg \in Created /\ Fresh(call'[r].arg)
            \/ call[r].op = "createKey" /\ call'[r].pc = "putKey"
<1>0. TypeOK /\ Shape(call[r]) /\ call[r] \in Call
  BY CallTypes DEF Base, Shapes
<1>1. /\ call[r].pc = "scope" /\ AskedWithin(r) /\ UNCHANGED tables
      /\ call[r].op \in {"createKey", "createAccount"}
  BY DEF CheckScopes, At
<1>2. call[r].who \in Users
  BY <1>0, <1>1 DEF Shape, Finished
<1>3. CASE call[r].op = "createKey"
  <2>1. Goto(r, "putKey")
    BY <1>3 DEF CheckScopes
  <2> QED
    BY <1>0, <1>1, <1>2, <1>3, <2>1, Went
<1>4. CASE call[r].op = "createAccount"
  <2>1. PICK a \in Created :
          Fresh(a) /\ Become(r, [call[r] EXCEPT !.pc = "putPrincipal", !.arg = a])
    BY <1>4, CreationSteps DEF CheckScopes
  <2>2. call'[r] = [call[r] EXCEPT !.pc = "putPrincipal", !.arg = a]
    BY <1>0, <2>1, Moved
  <2>3. /\ call'[r].pc = "putPrincipal" /\ call'[r].arg = a /\ call'[r].op = call[r].op
        /\ call'[r].who = call[r].who /\ call'[r].scopes = call[r].scopes
    BY <1>0, <2>2 DEF Call
  <2> QED
    BY <1>1, <1>2, <1>4, <2>1, <2>3
<1> QED
  BY <1>1, <1>3, <1>4

LEMMA DeviceScopesGranted ==
  ASSUME Base, NEW r \in Requests, GrantDeviceScopes(r)
  PROVE  /\ call'[r].op = call[r].op /\ call'[r].who = call[r].who
         /\ call'[r].scopes = AllowedScopes(r)
         /\ call[r].pc = "scope" /\ call[r].op = "exchange" /\ call'[r].pc = "putKey"
<1>0. TypeOK /\ call[r] \in Call /\ call[r].pc = "scope" /\ call[r].op = "exchange"
  BY CallTypes DEF Base, GrantDeviceScopes, At
<1>1. call'[r] = [call[r] EXCEPT !.pc = "putKey", !.scopes = AllowedScopes(r)]
  BY <1>0, Moved DEF GrantDeviceScopes
<1> QED
  BY <1>0, <1>1 DEF Call

LEMMA RowPut ==
  ASSUME Base, NEW r \in Requests, PutPrincipal(r) \/ PutServiceAccount(r)
  PROVE  /\ call'[r].op = call[r].op /\ call'[r].who = call[r].who
         /\ call'[r].arg = call[r].arg /\ call'[r].scopes = call[r].scopes
         /\ call[r].op = "createAccount" /\ call[r].arg \in Created /\ call[r].who \in Users
         /\ PutPrincipal(r) => call[r].pc = "putPrincipal" /\ call'[r].pc = "putAccount"
         /\ PutServiceAccount(r) => call[r].pc = "putAccount" /\ call'[r].pc = "putKey"
<1>0. TypeOK /\ Shape(call[r])
  BY DEF Base, Shapes
<1>1. call[r].op = "createAccount" /\ call[r].arg \in Created /\ call[r].who \in Users
  BY <1>0 DEF PutPrincipal, PutServiceAccount, At, Shape, Finished, Idle, KeyOps
<1>2. CASE PutPrincipal(r)
  <2>1. Goto(r, "putAccount") /\ call[r].pc = "putPrincipal"
    BY <1>2, CreationSteps DEF PutPrincipal, At
  <2>2. ~PutServiceAccount(r)
    BY <2>1 DEF PutServiceAccount, At
  <2> QED
    BY <1>0, <1>1, <2>1, <2>2, Went
<1>3. CASE PutServiceAccount(r)
  <2>1. Goto(r, "putKey") /\ call[r].pc = "putAccount"
    BY <1>3, CreationSteps DEF PutServiceAccount, At
  <2>2. ~PutPrincipal(r)
    BY <2>1 DEF PutPrincipal, At
  <2> QED
    BY <1>0, <1>1, <2>1, <2>2, Went
<1> QED
  BY <1>2, <1>3

LEMMA AccountRowDisabled ==
  ASSUME Base, NEW r \in Requests, DisableAccountRow(r), ~Deny(r)
  PROVE  /\ call'[r].op = call[r].op /\ call'[r].who = call[r].who
         /\ call'[r].arg = call[r].arg /\ call[r].arg \in Accounts /\ account[call[r].arg] # Unissued
         /\ call[r].pc = "disableAccount" /\ call'[r].pc = "disablePrincipal"
<1>0. TypeOK /\ Shape(call[r]) /\ call[r].pc = "disableAccount"
  BY DEF Base, Shapes, DisableAccountRow, At
<1>1. Goto(r, "disablePrincipal") /\ account[call[r].arg] # Unissued
  BY DEF DisableAccountRow
<1>2. call[r].arg \in Accounts
  BY <1>0 DEF Shape, Finished, Idle, KeyOps
<1> QED
  BY <1>0, <1>1, <1>2, Went

LEMMA OwnerRead ==
  ASSUME Base, NEW r \in Requests, ReadOwner(r), ~Deny(r)
  PROVE  /\ call'[r].op = call[r].op /\ call'[r].who = call[r].who
         /\ call'[r].arg = call[r].arg /\ call'[r].scopes = call[r].scopes
         /\ call'[r].roles = RolesOf(call[r].who)
         /\ call[r].pc = "readOwner" /\ status[call[r].who] = "active"
         /\ call'[r].pc = IF call[r].op = "exchange" THEN "scope" ELSE "touch"
<1> DEFINE point == IF call[r].op = "exchange" THEN "scope" ELSE "touch"
<1>0. TypeOK /\ call[r] \in Call /\ call[r].pc = "readOwner" /\ status[call[r].who] = "active"
  BY CallTypes DEF Base, ReadOwner, At
<1>1. call'[r] = [call[r] EXCEPT !.roles = RolesOf(call[r].who), !.pc = point]
  BY <1>0, Moved DEF ReadOwner
<1>2. /\ call'[r].op = call[r].op /\ call'[r].who = call[r].who /\ call'[r].arg = call[r].arg
      /\ call'[r].scopes = call[r].scopes /\ call'[r].roles = RolesOf(call[r].who)
      /\ call'[r].pc = point
  BY <1>0, <1>1 DEF Call
<1> QED
  BY <1>0, <1>2

LEMMA Touched ==
  ASSUME Base, NEW r \in Requests, Touch(r)
  PROVE  /\ call'[r].op = call[r].op /\ call'[r].who = call[r].who
         /\ call'[r].arg = call[r].arg /\ call'[r].scopes = call[r].scopes
         /\ call'[r].roles = call[r].roles
         /\ call[r].pc = "touch" /\ call'[r].pc = IF call[r].op = "useKey" THEN "sign" ELSE "ok"
<1>1. TypeOK /\ call[r].pc = "touch" /\ Goto(r, IF call[r].op = "useKey" THEN "sign" ELSE "ok")
  BY DEF Base, Touch, AfterTouch, At
<1> QED
  BY <1>1, Went

LEMMA KeySigned ==
  ASSUME Base, NEW r \in Requests, Sign(r), UsesKey(r), ~Deny(r)
  PROVE  /\ call'[r].op = call[r].op /\ call'[r].who = call[r].who
         /\ call'[r].arg = call[r].arg /\ call'[r].scopes = Signable(r)
         /\ call[r].pc = "sign" /\ call'[r].pc = "ok" /\ call[r].op = "useKey"
<1>0. TypeOK /\ call[r] \in Call /\ call[r].pc = "sign" /\ Shape(call[r])
  BY CallTypes DEF Base, Shapes, Sign, At
<1>1. call'[r] = [call[r] EXCEPT !.pc = "ok", !.scopes = Signable(r)]
  BY <1>0, Moved DEF Sign
<1>2. call[r].op = "useKey"
  BY <1>0 DEF UsesKey, Shape, Finished, Idle, KeyOps
<1> QED
  BY <1>0, <1>1, <1>2 DEF Call

LEMMA PrincipalProjected ==
  ASSUME Base, NEW r \in Requests, ProjectPrincipal(r)
  PROVE  /\ call'[r].op = call[r].op /\ call'[r].who = call[r].who
         /\ call'[r].arg = call[r].arg /\ call[r].arg \in Holders /\ call[r].op = "client"
         /\ call[r].pc = "projectPrincipal" /\ call'[r].pc = "projectAccount"
<1>0. TypeOK /\ Shape(call[r]) /\ call[r].pc = "projectPrincipal" /\ Goto(r, "projectAccount")
  BY DEF Base, Shapes, ProjectPrincipal, At
<1>1. call[r].arg \in Holders /\ call[r].op = "client"
  BY <1>0 DEF Shape, Finished, Idle, KeyOps, Holders, Accounts
<1> QED
  BY <1>0, <1>1, Went

\* Whoever a call acts for stays.
LEMMA Prepared ==
  ASSUME Base, NEW r \in Requests, Prepares(r), ~Deny(r)
  PROVE  call'[r].op = call[r].op /\ call'[r].who = call[r].who
<1> DEFINE Same == call'[r].op = call[r].op /\ call'[r].who = call[r].who
<1>1. ASSUME Authorize(r) PROVE Same
  BY <1>1, Authorized
<1>2. ASSUME CheckScopes(r) PROVE Same
  BY <1>2, ScopesChecked
<1>3. ASSUME GrantDeviceScopes(r) PROVE Same
  BY <1>3, DeviceScopesGranted
<1>4. ASSUME PutPrincipal(r) \/ PutServiceAccount(r) PROVE Same
  BY <1>4, RowPut
<1>5. ASSUME DisableAccountRow(r) PROVE Same
  BY <1>5, AccountRowDisabled
<1>6. ASSUME ReadOwner(r) PROVE Same
  BY <1>6, OwnerRead
<1>7. ASSUME Touch(r) PROVE Same
  BY <1>7, Touched
<1>8. ASSUME Sign(r), UsesKey(r) PROVE Same
  BY <1>8, KeySigned
<1>9. ASSUME ProjectPrincipal(r) PROVE Same
  BY <1>9, PrincipalProjected
<1> QED
  BY <1>1, <1>2, <1>3, <1>4, <1>5, <1>6, <1>7, <1>8, <1>9 DEF Prepares

----------------------------------------------------------------------------
(* Accounts that are being created.                                        *)

\* A call that others move keeps what was prepared for it.
LEMMA CreationKept ==
  ASSUME Base, Creations, RowsGrow, NewRows, NEW r \in Requests, call'[r] = call[r]
  PROVE  Creation(call[r])'
<1>1. TypeOK /\ Shape(call[r]) /\ Creation(call[r])
  BY DEF Base, Shapes, Creations
<1>2. Creating(call[r]) => call[r].arg \in Created /\ call[r].who \in Users
  BY <1>1 DEF Creating, Shape, Finished, Idle, KeyOps
<1>t. /\ Created \subseteq Accounts /\ Created \cap Projected = {} /\ Projected \subseteq Accounts
      /\ Users \subseteq Holders
  BY CredentialsAssumption DEF Accounts, Holders
<1>3. ASSUME Creating(call[r]), call[r].pc \in {"putPrincipal", "putAccount"}
      PROVE  account'[call[r].arg] = Unissued
  <2>1. account[call[r].arg] = Unissued
    BY <1>1, <1>3 DEF Creation
  <2>2. ASSUME NEW q \in Requests, PutServiceAccount(q), call[q].arg = call[r].arg PROVE FALSE
    <3>1. call[q].pc = "putAccount" /\ Shape(call[q])
      BY <2>2 DEF PutServiceAccount, At, Base, Shapes
    <3>2. Creating(call[q])
      BY <3>1 DEF Creating, Shape, Finished, Idle, KeyOps
    <3>3. q = r
      BY <1>3, <2>2, <3>2 DEF Creations, OwnAccounts
    <3>4. call'[q].pc = "putKey"
      BY <1>1, <2>2, CreationSteps, Went DEF PutServiceAccount
    <3> QED
      BY <3>1, <3>3, <3>4
  <2> QED
    BY <1>2, <1>3, <1>t, <2>1, <2>2 DEF NewRows
<1>4. Creating(call[r]) =>
        /\ call[r].pc \in {"putAccount", "putKey"} => status'[call[r].arg] # "none"
        /\ call[r].pc = "putKey" =>
              account'[call[r].arg] # Unissued /\ account'[call[r].arg].createdBy = call[r].who
  BY <1>1, <1>2, <1>t DEF Creation, RowsGrow
<1>5. call[r].pc = "disablePrincipal" => account'[call[r].arg] # Unissued
  BY <1>1 DEF Creation, RowsGrow, Shape, Finished, Idle, KeyOps
<1>6. call[r].pc = "projectAccount" => status'[call[r].arg] # "none"
  BY <1>1, <1>t DEF Creation, RowsGrow, Shape, Finished, Idle, KeyOps
<1> QED
  BY <1>3, <1>4, <1>5, <1>6 DEF Creation, Creating

\* A step prepares what the next one needs.
LEMMA CreationPrepared ==
  ASSUME Base, Creations, RowsGrow, NEW r \in Requests, Prepares(r), ~Deny(r)
  PROVE  Creation(call[r])'
<1>0. TypeOK /\ Shape(call[r]) /\ Creation(call[r])
  BY DEF Base, Shapes, Creations
<1>1. call'[r].op = call[r].op /\ call'[r].who = call[r].who
  BY Prepared
<1>t. /\ Created \subseteq Accounts /\ Created \subseteq Holders
      /\ account \in [Accounts -> AccountRow \cup {Unissued}] /\ Unissued \notin AccountRow
      /\ status \in [Holders -> {"none", "active", "disabled"}]
  BY <1>0, CredentialsAssumption DEF TypeOK, Accounts, Holders
<1>2. CASE Authorize(r)
  BY <1>2, Authorized DEF Creation, Creating
<1>3. CASE CheckScopes(r)
  <2>1. /\ UNCHANGED account
        /\ \/ call'[r].pc = "putPrincipal" /\ Fresh(call'[r].arg)
           \/ call[r].op = "createKey" /\ call'[r].pc = "putKey"
    BY <1>3, ScopesChecked DEF tables, rules
  <2> QED
    BY <1>1, <2>1 DEF Creation, Creating, Fresh
<1>4. CASE GrantDeviceScopes(r)
  BY <1>4, DeviceScopesGranted DEF Creation, Creating
<1>5. CASE PutPrincipal(r)
  <2>1. /\ call[r].pc = "putPrincipal" /\ call'[r].pc = "putAccount"
        /\ call'[r].arg = call[r].arg /\ call[r].op = "createAccount" /\ call[r].arg \in Created
    BY <1>5, RowPut
  <2>2. status' = [status EXCEPT ![call[r].arg] = "active"] /\ UNCHANGED account
    BY <1>5 DEF PutPrincipal
  <2>3. status'[call[r].arg] = "active"
    BY <1>t, <2>1, <2>2
  <2> QED
    BY <1>0, <1>1, <2>1, <2>2, <2>3 DEF Creation, Creating
<1>6. CASE PutServiceAccount(r)
  <2> DEFINE row == [status |-> "active", createdBy |-> call[r].who]
  <2>1. /\ call[r].pc = "putAccount" /\ call'[r].pc = "putKey" /\ call'[r].arg = call[r].arg
        /\ call[r].op = "createAccount" /\ call[r].arg \in Created /\ call[r].who \in Users
    BY <1>6, RowPut
  <2>2. row \in AccountRow /\ row.createdBy = call[r].who
    BY <2>1 DEF AccountRow
  <2>3. account' = [account EXCEPT ![call[r].arg] = row] /\ UNCHANGED status
    BY <1>6 DEF PutServiceAccount
  <2> HIDE DEF row
  <2>4. account'[call[r].arg] = row
    BY <1>t, <2>1, <2>3
  <2> QED
    BY <1>0, <1>1, <1>t, <2>1, <2>2, <2>3, <2>4 DEF Creation, Creating
<1>7. CASE DisableAccountRow(r)
  BY <1>7, AccountRowDisabled DEF RowsGrow, Creation, Creating
<1>8. CASE ReadOwner(r)
  BY <1>8, OwnerRead DEF Creation, Creating
<1>9. CASE Touch(r)
  BY <1>9, Touched DEF Creation, Creating
<1>10. CASE Sign(r) /\ UsesKey(r)
  BY <1>10, KeySigned DEF Creation, Creating
<1>11. CASE ProjectPrincipal(r)
  <2>1. /\ call[r].pc = "projectPrincipal" /\ call'[r].pc = "projectAccount"
        /\ call'[r].arg = call[r].arg /\ call[r].arg \in Holders
    BY <1>11, PrincipalProjected
  <2>2. status' = [status EXCEPT ![call[r].arg] = "active"]
    BY <1>11 DEF ProjectPrincipal
  <2>3. status'[call[r].arg] = "active"
    BY <1>t, <2>1, <2>2
  <2> QED
    BY <1>1, <2>1, <2>3 DEF Creation, Creating
<1> QED
  BY <1>2, <1>3, <1>4, <1>5, <1>6, <1>7, <1>8, <1>9, <1>10, <1>11 DEF Prepares

LEMMA CreationsNext == Base /\ Creations /\ Tables /\ [Next]_vars => Creations'
<1> SUFFICES ASSUME Base, Creations, Tables, [Next]_vars PROVE Creations'
  OBVIOUS
<1>1. RowsGrow /\ NewRows
  BY SteadyNext DEF Steady
<1>2. ASSUME NEW r \in Requests PROVE Creation(call[r])'
  <2>1. CASE call'[r] = call[r]
    BY <1>1, <2>1, CreationKept
  <2>2. CASE Plain(call'[r])
    BY <2>2 DEF Plain, Creation, Creating
  <2>3. CASE Prepares(r) /\ ~Deny(r)
    BY <1>1, <2>3, CreationPrepared
  <2> QED
    BY <2>1, <2>2, <2>3, CallMoves
<1>3. ASSUME NEW r \in Requests, Creating(call'[r])
      PROVE  \/ Creating(call[r]) /\ call'[r].arg = call[r].arg
             \/ /\ Fresh(call'[r].arg)
                /\ \A q \in Requests : q # r => call'[q] = call[q]
  <2>1. CASE call'[r] = call[r]
    BY <1>3, <2>1
  <2>2. CASE Prepares(r) /\ ~Deny(r)
    <3>1. CASE CheckScopes(r)
      <4>1. Fresh(call'[r].arg)
        BY <1>3, <2>2, <3>1, ScopesChecked DEF Creating
      <4>2. WithSession(r)
        BY <3>1 DEF WithSession
      <4> QED
        BY <4>1, <4>2, StepsAlone
    <3>2. CASE PutPrincipal(r) \/ PutServiceAccount(r)
      BY <3>2, RowPut DEF Creating
    <3>3. CASE Authorize(r)
      BY <1>3, <2>2, <3>3, Authorized DEF Creating
    <3>4. CASE GrantDeviceScopes(r)
      BY <1>3, <3>4, DeviceScopesGranted DEF Creating
    <3>5. CASE DisableAccountRow(r)
      BY <1>3, <2>2, <3>5, AccountRowDisabled DEF Creating
    <3>6. CASE ReadOwner(r)
      BY <1>3, <2>2, <3>6, OwnerRead DEF Creating
    <3>7. CASE Touch(r)
      BY <1>3, <3>7, Touched DEF Creating
    <3>8. CASE Sign(r) /\ UsesKey(r)
      BY <1>3, <2>2, <3>8, KeySigned DEF Creating
    <3>9. CASE ProjectPrincipal(r)
      BY <1>3, <3>9, PrincipalProjected DEF Creating
    <3> QED
      BY <2>2, <3>1, <3>2, <3>3, <3>4, <3>5, <3>6, <3>7, <3>8, <3>9 DEF Prepares
  <2>3. ~Plain(call'[r])
    BY <1>3 DEF Creating, Plain
  <2> QED
    BY <2>1, <2>2, <2>3, CallMoves
<1>4. ASSUME NEW r \in Requests, NEW q \in Requests, Creating(call'[r]), Creating(call'[q]),
             call'[r].arg = call'[q].arg, r # q
      PROVE  FALSE
  <2>1. CASE /\ Creating(call[r]) /\ call'[r].arg = call[r].arg
             /\ Creating(call[q]) /\ call'[q].arg = call[q].arg
    BY <1>4, <2>1 DEF Creations, OwnAccounts
  <2>2. CASE Fresh(call'[r].arg) /\ \A x \in Requests : x # r => call'[x] = call[x]
    BY <1>4, <2>2 DEF Fresh
  <2>3. CASE Fresh(call'[q].arg) /\ \A x \in Requests : x # q => call'[x] = call[x]
    BY <1>4, <2>3 DEF Fresh
  <2> QED
    BY <1>3, <1>4, <2>1, <2>2, <2>3
<1>5. OwnAccounts'
  BY <1>4 DEF OwnAccounts, Creating
<1> QED
  BY <1>2, <1>5 DEF Creations

----------------------------------------------------------------------------
(* What roles allow, and what is remembered of a call.                     *)

\* What is known of a call while it goes on: the past only loses accounts that
\* were turned on, and gains what roles and policies come to be.
PastKept(r) ==
    /\ past'[r].revoked = past[r].revoked
    /\ past'[r].off \subseteq past[r].off
    /\ past[r].policies \subseteq past'[r].policies
    /\ \A u \in Users : past[r].held[u] \subseteq past'[r].held[u]
    /\ Running(r) =>
          /\ policy' \in past'[r].policies \cup {policy}
          /\ \A u \in Users : roles'[u] \in past'[r].held[u] \cup {roles[u]}

LEMMA PastNext ==
  ASSUME Base, [Next]_vars, NEW r \in Requests, call[r].pc # "idle", ~Deny(r)
  PROVE  PastKept(r)
<1>0. TypeOK /\ past[r] \in Past
  BY DEF Base, TypeOK
<1>2. CASE UNCHANGED <<past, rules>>
  BY <1>2 DEF PastKept, rules
<1>3. ASSUME NEW q \in Requests, Start(q) \/ Deny(q) PROVE PastKept(r)
  <2>1. q # r
    BY <1>0, <1>3, Started
  <2> QED
    BY <1>0, <1>3, <2>1, Started, Denied DEF PastKept, rules
<1>4. ASSUME NEW a, TurnedOn(a), UNCHANGED rules PROVE PastKept(r)
  <2>1. past'[r] = past[r] \/ past'[r] = [past[r] EXCEPT !.off = @ \ {a}]
    BY <1>4 DEF TurnedOn
  <2> QED
    BY <1>0, <1>4, <2>1 DEF PastKept, Past, rules
<1>5. ASSUME NEW u \in Users, RolesChange(u) PROVE PastKept(r)
  <2>1. PICK R \in RoleSets :
          /\ roles' = [roles EXCEPT ![u] = R]
          /\ past' = [q \in Requests |->
                 IF Running(q) THEN [past[q] EXCEPT !.held[u] = @ \cup {R}] ELSE past[q]]
    BY <1>5 DEF RolesChange
  <2>2. CASE Running(r)
    <3>1. past'[r] = [past[r] EXCEPT !.held[u] = @ \cup {R}]
      BY <2>1, <2>2
    <3>2. past[r].held \in [Users -> SUBSET RoleSets]
      BY <1>0 DEF Past
    <3>3. /\ past'[r].revoked = past[r].revoked /\ past'[r].off = past[r].off
          /\ past'[r].policies = past[r].policies
          /\ past'[r].held = [past[r].held EXCEPT ![u] = @ \cup {R}]
      BY <1>0, <3>1 DEF Past
    <3>4. past'[r].held[u] = past[r].held[u] \cup {R}
          /\ \A v \in Users : v # u => past'[r].held[v] = past[r].held[v]
      BY <3>2, <3>3
    <3>5. roles'[u] = R /\ \A v \in Users : v # u => roles'[v] = roles[v]
      BY <1>0, <2>1 DEF TypeOK
    <3>6. policy' = policy
      BY <1>5 DEF RolesChange
    <3> QED
      BY <3>3, <3>4, <3>5, <3>6 DEF PastKept
  <2>3. CASE ~Running(r)
    BY <2>1, <2>3 DEF PastKept
  <2> QED
    BY <2>2, <2>3
<1>10. ASSUME NEW p \in Policies, UpdatePolicy(p) PROVE PastKept(r)
  <2>1. /\ policy' = p /\ roles' = roles
        /\ past'[r] = IF Running(r) THEN [past[r] EXCEPT !.policies = @ \cup {p}] ELSE past[r]
    BY <1>10 DEF UpdatePolicy
  <2> DEFINE later == [past[r] EXCEPT !.policies = @ \cup {p}]
  <2>2. /\ later.off = past[r].off /\ later.revoked = past[r].revoked
        /\ later.held = past[r].held /\ later.policies = past[r].policies \cup {p}
    BY <1>0 DEF Past
  <2>3. past'[r] = IF Running(r) THEN later ELSE past[r]
    BY <2>1
  <2> HIDE DEF later
  <2> QED
    BY <2>1, <2>2, <2>3 DEF PastKept
<1>6. ASSUME NEW q \in Requests, WithSession(q) PROVE PastKept(r)
  BY <1>2, <1>3, <1>6
  DEF WithSession, Authorize, CheckScopes, GrantDeviceScopes, PutPrincipal, PutServiceAccount,
      PutAPIKey, DisableAccountRow, DisablePrincipalRow, RevokeAPIKey, history, rules
<1>7. ASSUME NEW q \in Requests, DeviceFlow(q) \/ KeyUse(q) PROVE PastKept(r)
  BY <1>2, <1>3, <1>7
  DEF DeviceFlow, ReadUserCode, PutApproval, ReadCode, Consume, KeyUse, ReadKey, ReadOwner, Touch,
      Sign, history, rules
<1>8. ASSUME NEW q \in Requests, ClientCredentials(q) PROVE PastKept(r)
  BY <1>2, <1>3, <1>4, <1>8
  DEF ClientCredentials, ClientTenant, PutTenant, ProjectPrincipal, ProjectAccount, history, rules
<1>9. ASSUME NEW h \in Holders, StatusChange(h) PROVE PastKept(r)
  BY <1>2, <1>4, <1>9 DEF StatusChange
<1> QED
  BY <1>2, <1>3, <1>5, <1>6, <1>7, <1>8, <1>9, <1>10
  DEF Next, Abort, Environment, ExpireKey, StartDeviceAuth, ExpireCode, DisableTenant, vars, history, rules

\* What a call's principal was allowed stays on the call's record.
LEMMA MomentsGrow ==
  ASSUME NEW r \in Requests, PastKept(r), call'[r].who = call[r].who
  PROVE  RolesDuring(r) \subseteq RolesDuring(r)' /\ Moments(r) \subseteq Moments(r)'
<1>1. RolesDuring(r) \subseteq RolesDuring(r)'
  BY DEF RolesDuring, PastKept
<1>2. past[r].policies \subseteq past'[r].policies
  BY DEF PastKept
<1> QED
  BY <1>1, <1>2 DEF Moments

LEMMA RecordKept ==
  ASSUME Base, [Next]_vars, NEW r \in Requests, Recorded(r), ~Deny(r)
  PROVE  Recorded(r)'
<1>1. CASE Start(r)
  <2>1. TypeOK /\ past'[r] = Now(call'[r].op) /\ UNCHANGED rules
    BY <1>1, Started DEF Base
  <2>2. past'[r].policies = {policy} /\ past'[r].held = [u \in Users |-> {roles[u]}]
    BY <2>1 DEF Now
  <2> QED
    BY <2>1, <2>2 DEF Recorded, rules
<1>2. CASE ~Start(r) /\ ~Running(r)
  BY <1>2, Resting DEF Recorded, Running
<1>3. CASE Running(r)
  <2>1. PastKept(r)
    BY <1>3, PastNext DEF Running
  <2> QED
    BY <1>3, <2>1 DEF Recorded, PastKept
<1> QED
  BY <1>1, <1>2, <1>3

\* What a running call looks up is of now, and what it reads is on its record.
LEMMA LookedUp ==
  ASSUME NEW r \in Requests, Running(r), Recorded(r), call[r].roles \in RolesDuring(r)
  PROVE  AllowedScopes(r) \in Moments(r)
  BY DEF Recorded, AllowedScopes, Moments

LEMMA LimitsNext == Base /\ Limits /\ [Next]_vars => Limits'
<1> SUFFICES ASSUME Base, Limits, [Next]_vars, NEW r \in Requests PROVE Limit(r)'
  BY DEF Limits
<1>0. TypeOK /\ Shape(call[r]) /\ Limit(r) /\ Recorded(r)
  BY DEF Base, Shapes, Limits, Limit
<1> DEFINE Covered == \E S \in Moments(r) : call'[r].scopes \subseteq S
           Granted == /\ HasRoles(call'[r]) => call'[r].roles \in RolesDuring(r)
                      /\ HasScopes(call'[r]) => Covered
<1>1. CASE Deny(r)
  BY <1>0, <1>1, Denied DEF Limit, Recorded, Running, Finished, HasRoles, HasScopes, Idle
<1>2. CASE ~Deny(r)
  <2>1. Recorded(r)'
    BY <1>0, <1>2, RecordKept
  <2>2. ASSUME call[r].pc # "idle", call'[r].who = call[r].who, Granted PROVE Limit(r)'
    <3>1. RolesDuring(r) \subseteq RolesDuring(r)' /\ Moments(r) \subseteq Moments(r)'
      BY <1>2, <2>2, PastNext, MomentsGrow
    <3> QED
      BY <2>1, <2>2, <3>1 DEF Limit
  <2>3. CASE Plain(call'[r])
    BY <2>1, <2>3 DEF Limit, Plain, HasRoles, HasScopes
  <2>4. CASE call'[r] = call[r] /\ call[r].pc = "idle"
    BY <2>1, <2>4 DEF Limit, HasRoles, HasScopes
  <2>5. CASE call'[r] = call[r] /\ call[r].pc # "idle"
    BY <1>0, <2>2, <2>5 DEF Limit
  <2>6. CASE Prepares(r)
    <3>0. call'[r].op = call[r].op /\ call'[r].who = call[r].who
      BY <1>2, <2>6, Prepared
    <3>r. Running(r) /\ call[r].pc # "idle"
      BY <2>6 DEF Prepares, Authorize, CheckScopes, GrantDeviceScopes, PutPrincipal,
                  PutServiceAccount, DisableAccountRow, ReadOwner, Touch, Sign, ProjectPrincipal, At,
                  Running, Finished
    <3>1. CASE Authorize(r)
      <4>1. /\ call[r].who \in Users /\ call'[r].roles = roles[call[r].who]
            /\ call'[r].pc \in {"scope", "disableAccount", "revokeKey", "readUserCode"}
        BY <1>2, <3>1, Authorized
      <4>2. call'[r].roles \in RolesDuring(r)
        BY <1>0, <3>r, <4>1 DEF Recorded, RolesDuring
      <4>3. Granted
        BY <4>1, <4>2 DEF HasScopes
      <4> QED
        BY <2>2, <3>0, <3>r, <4>3
    <3>2. CASE CheckScopes(r)
      <4>1. /\ call'[r].scopes = call[r].scopes /\ AskedWithin(r) /\ call[r].pc = "scope"
            /\ call[r].op \in {"createKey", "createAccount"}
            /\ call'[r].pc \in {"putPrincipal", "putKey"}
        BY <1>2, <3>2, ScopesChecked
      <4>2. AllowedScopes(r) \in Moments(r)
        BY <1>0, <3>r, <4>1, LookedUp DEF Limit, HasRoles
      <4>3. Granted
        BY <3>0, <4>1, <4>2 DEF HasRoles, AskedWithin
      <4> QED
        BY <2>2, <3>0, <3>r, <4>3
    <3>3. CASE GrantDeviceScopes(r)
      <4>1. /\ call'[r].scopes = AllowedScopes(r) /\ call[r].pc = "scope"
            /\ call[r].op = "exchange" /\ call'[r].pc = "putKey"
        BY <3>3, DeviceScopesGranted
      <4>2. AllowedScopes(r) \in Moments(r)
        BY <1>0, <3>r, <4>1, LookedUp DEF Limit, HasRoles
      <4>3. Granted
        BY <4>1, <4>2 DEF HasRoles
      <4> QED
        BY <2>2, <3>0, <3>r, <4>3
    <3>4. CASE PutPrincipal(r) \/ PutServiceAccount(r)
      <4>1. /\ call'[r].scopes = call[r].scopes /\ call[r].op = "createAccount"
            /\ call[r].pc \in {"putPrincipal", "putAccount"}
            /\ call'[r].pc \in {"putAccount", "putKey"}
        BY <3>4, RowPut
      <4>2. Granted
        BY <1>0, <3>0, <4>1 DEF Limit, HasRoles, HasScopes
      <4> QED
        BY <2>2, <3>0, <3>r, <4>2
    <3>5. CASE DisableAccountRow(r)
      <4>1. Granted
        BY <1>2, <3>5, AccountRowDisabled DEF HasRoles, HasScopes
      <4> QED
        BY <2>2, <3>0, <3>r, <4>1
    <3>6. CASE ReadOwner(r)
      <4>1. /\ call'[r].roles = RolesOf(call[r].who)
            /\ call'[r].pc \in {"scope", "touch"}
        BY <1>2, <3>6, OwnerRead
      <4>2. call'[r].roles \in RolesDuring(r)
        BY <1>0, <3>r, <4>1 DEF Recorded, RolesDuring, RolesOf
      <4>3. Granted
        BY <4>1, <4>2 DEF HasScopes
      <4> QED
        BY <2>2, <3>0, <3>r, <4>3
    <3>7. CASE Touch(r)
      <4>1. /\ call'[r].roles = call[r].roles /\ call[r].pc = "touch"
            /\ call'[r].pc = IF call[r].op = "useKey" THEN "sign" ELSE "ok"
        BY <3>7, Touched
      <4>2. Granted
        BY <1>0, <3>0, <4>1 DEF Limit, HasRoles, HasScopes
      <4> QED
        BY <2>2, <3>0, <3>r, <4>2
    <3>8. CASE Sign(r) /\ UsesKey(r)
      <4>1. /\ call'[r].scopes = Signable(r) /\ call[r].pc = "sign" /\ call'[r].pc = "ok"
            /\ call[r].op = "useKey"
        BY <1>2, <3>8, KeySigned
      <4>2. AllowedScopes(r) \in Moments(r)
        BY <1>0, <3>r, <4>1, LookedUp DEF Limit, HasRoles
      <4>3. Granted
        BY <4>1, <4>2 DEF HasRoles, Signable
      <4> QED
        BY <2>2, <3>0, <3>r, <4>3
    <3>9. CASE ProjectPrincipal(r)
      <4>1. Granted
        BY <3>9, PrincipalProjected DEF HasRoles, HasScopes
      <4> QED
        BY <2>2, <3>0, <3>r, <4>1
    <3> QED
      BY <2>6, <3>1, <3>2, <3>3, <3>4, <3>5, <3>6, <3>7, <3>8, <3>9 DEF Prepares
  <2> QED
    BY <1>2, <2>3, <2>4, <2>5, <2>6, CallMoves
<1> QED
  BY <1>1, <1>2

----------------------------------------------------------------------------
(* Using a key.                                                            *)

\* Which steps a use of a key takes.
LEMMA UseMoves ==
  ASSUME Base, [Next]_vars, NEW r \in Requests, UsesKey(r)'
  PROVE  \/ call'[r] = call[r] \/ Start(r)
         \/ KeyUse(r) /\ ~Deny(r)
<1>0. TypeOK /\ Shape(call[r]) /\ call[r] \in Call
  BY CallTypes DEF Base, Shapes
<1>1. call'[r].op \in KeyOps /\ call'[r].op # None
  BY Unset DEF UsesKey
<1>2. ~Deny(r) /\ ~Succeed(r)
  BY <1>0, <1>1, Denied, Succeeded DEF Idle
<1>3. ASSUME NEW q \in Requests, q # r,
             \/ Start(q) \/ WithSession(q) \/ DeviceFlow(q) \/ KeyUse(q) \/ ClientCredentials(q)
             \/ Abort(q)
      PROVE  call'[r] = call[r]
  BY <1>3, StepsAlone
<1>4. ASSUME WithSession(r) \/ DeviceFlow(r) \/ ClientCredentials(r) PROVE FALSE
  <2>1. call[r].op \notin KeyOps
    BY <1>0, <1>4, Unset
    DEF WithSession, Authorize, CheckScopes, GrantDeviceScopes, PutPrincipal, PutServiceAccount,
        PutAPIKey, DisableAccountRow, DisablePrincipalRow, RevokeAPIKey, DeviceFlow, ReadUserCode,
        PutApproval, ReadCode, Consume, ClientCredentials, ClientTenant, PutTenant,
        ProjectPrincipal, ProjectAccount, At, Shape, Finished, Idle, KeyOps
  <2>2. ASSUME NEW point, Goto(r, point) PROVE FALSE
    BY <1>0, <1>1, <2>1, <2>2, Went
  <2>3. ASSUME Prepares(r) PROVE FALSE
    BY <1>1, <1>2, <2>1, <2>3, Prepared
  <2>4. ASSUME PutAPIKey(r) PROVE FALSE
    <3>1. call[r].op \in {"createKey", "createAccount", "exchange"}
      BY <1>0, <2>4 DEF PutAPIKey, At, Shape, Finished, Idle, KeyOps
    <3> QED
      BY <1>2, <2>2, <2>4, <3>1, CreationSteps DEF PutAPIKey
  <2>5. ASSUME DisablePrincipalRow(r) \/ RevokeAPIKey(r) \/ PutApproval(r) \/ Consume(r) PROVE FALSE
    BY <1>2, <2>5 DEF DisablePrincipalRow, RevokeAPIKey, PutApproval, Consume
  <2>6. ASSUME ReadUserCode(r) PROVE FALSE
    <3>1. PICK c \in CodesByUserCode(call[r].arg) :
            Become(r, [call[r] EXCEPT !.pc = "putApproval", !.arg = c])
      BY <1>2, <2>6 DEF ReadUserCode
    <3>2. call'[r] = [call[r] EXCEPT !.pc = "putApproval", !.arg = c]
      BY <1>0, <3>1, Moved
    <3> QED
      BY <1>0, <1>1, <2>1, <3>2 DEF Call
  <2>7. ASSUME ReadCode(r) PROVE FALSE
    <3>1. call'[r] = [call[r] EXCEPT !.pc = "readOwner", !.who = device[call[r].arg].principal]
      BY <1>0, <1>2, <2>7, Moved DEF ReadCode
    <3> QED
      BY <1>0, <1>1, <2>1, <3>1 DEF Call
  <2>8. ASSUME ClientTenant(r) \/ PutTenant(r) PROVE FALSE
    BY <1>2, <2>2, <2>8 DEF ClientTenant, PutTenant
  <2>9. ASSUME ProjectAccount(r) PROVE FALSE
    <3>1. call'[r] = [call[r] EXCEPT !.pc = "sign", !.roles = AccountRoles]
      BY <1>0, <2>9, Moved DEF ProjectAccount
    <3> QED
      BY <1>0, <1>1, <2>1, <3>1 DEF Call
  <2> QED
    BY <1>4, <2>3, <2>4, <2>5, <2>6, <2>7, <2>8, <2>9
    DEF WithSession, DeviceFlow, ClientCredentials, Prepares
<1>5. ~Abort(r)
  BY <1>2 DEF Abort
<1> QED
  BY <1>2, <1>3, <1>4, <1>5, Stepping

LEMMA RevokedStay == ASSUME KeysStay PROVE Revoked \subseteq Revoked'
  BY DEF KeysStay, Revoked

\* The past of a running use stays true: what it saw off is off unless it was
\* turned on, in which case it is forgotten.
LEMMA OffKept ==
  ASSUME Base, OffUntilOn, NEW r \in Requests, Use(r), UsesKey(r), Running(r), PastKept(r)
  PROVE  \A a \in past'[r].off : IsOff(a)'
<1> SUFFICES ASSUME NEW a \in past'[r].off PROVE IsOff(a)'
  OBVIOUS
<1>1. a \in past[r].off /\ IsOff(a) /\ past[r] \in Past
  BY DEF PastKept, Use, Base, TypeOK
<1>2. a \in Accounts
  BY <1>1 DEF Past
<1>3. ~TurnedOn(a)
  <2>1. ASSUME TurnedOn(a) PROVE FALSE
    <3>1. past'[r] = [past[r] EXCEPT !.off = @ \ {a}]
      BY <2>1 DEF TurnedOn, UsesUnderWay
    <3>2. past'[r].off = past[r].off \ {a}
      BY <1>1, <3>1 DEF Past
    <3> QED
      BY <3>2
  <2> QED
    BY <2>1
<1> QED
  BY <1>1, <1>2, <1>3 DEF OffUntilOn

\* A use that other steps leave alone.
LEMMA UseKept ==
  ASSUME Base, KeysStay, OffUntilOn, NEW r \in Requests, Use(r), UsesKey(r), PastKept(r),
         call'[r] = call[r]
  PROVE  Use(r)'
<1>0. Shape(call[r]) /\ call[r].op \in KeyOps
  BY DEF Base, Shapes, UsesKey
<1>1. call[r].arg \in KeyIds
  BY <1>0, Unset DEF Shape, Idle, KeyOps
<1>2. past'[r].revoked \subseteq Revoked'
  BY RevokedStay DEF PastKept, Use
<1>4. Running(r) => \A a \in past'[r].off : IsOff(a)'
  BY OffKept
<1>5. ~At(r, "readKey") =>
        /\ key'[call[r].arg] # Unissued /\ call[r].arg \notin past'[r].revoked
        /\ call[r].who = key'[call[r].arg].owner
        /\ call[r].op = "useKey" => call[r].scopes \subseteq key'[call[r].arg].scopes
  BY <1>1 DEF Use, KeysStay, PastKept
<1>6. call[r].pc \in {"touch", "sign", "ok"} => call[r].who \notin past'[r].off
  BY DEF Use, PastKept
<1> QED
  BY <1>2, <1>4, <1>5, <1>6 DEF Use, UsesKey, Running, At, IsOff, Revoked

\* A use that begins.
LEMMA UseBegun ==
  ASSUME Base, Tables, NEW r \in Requests, Start(r), UsesKey(r)'
  PROVE  Use(r)'
<1>1. /\ call'[r].pc = "readKey" /\ past'[r] = Now(call'[r].op) /\ call'[r].op \in KeyOps
      /\ UNCHANGED <<tables, off>>
  BY Started DEF Base, UsesKey
<1>2. past'[r].revoked = Revoked /\ past'[r].off = off
  BY <1>1 DEF Now
<1>3. \A a \in off : IsOff(a)
  BY DEF Tables, OffRows
<1> QED
  BY <1>1, <1>2, <1>3 DEF Use, UsesKey, Running, At, IsOff, Revoked, tables, rules

\* A use that goes on: it reads an active key, then an active owner.
LEMMA UseWent ==
  ASSUME Base, NEW r \in Requests, Use(r), PastKept(r), OffUntilOn, KeysStay, UsesKey(r),
         KeyUse(r), ~Deny(r)
  PROVE  Use(r)'
<1>0. TypeOK /\ Shape(call[r]) /\ call[r] \in Call /\ call[r].op \in KeyOps
  BY CallTypes DEF Base, Shapes, UsesKey
<1>1. UNCHANGED <<tables, past>>
  BY DEF KeyUse, ReadKey, ReadOwner, Touch, Sign, history, rules
<1>2. Running(r)
  BY DEF KeyUse, Running, ReadKey, ReadOwner, Touch, Sign, At, Finished
<1>4. past'[r].revoked \subseteq Revoked' /\ \A a \in past'[r].off : IsOff(a)'
  BY <1>1, <1>2, OffKept DEF Use, Revoked, tables, rules
<1>5. CASE ReadKey(r)
  <2> DEFINE row == key[call[r].arg]
  <2>1. /\ row # Unissued /\ row.status = "active"
        /\ call'[r] = [call[r] EXCEPT !.pc = "readOwner", !.who = row.owner, !.scopes = row.scopes]
    BY <1>0, <1>5, Moved DEF ReadKey
  <2>2. /\ call'[r].pc = "readOwner" /\ call'[r].who = row.owner /\ call'[r].scopes = row.scopes
        /\ call'[r].arg = call[r].arg
    BY <1>0, <2>1 DEF Call
  <2>3. call[r].arg \notin past[r].revoked
    BY <2>1 DEF Use, Revoked
  <2> QED
    BY <1>1, <1>4, <2>1, <2>2, <2>3 DEF Use, At, tables, rules
<1>6. CASE ReadOwner(r)
  <2>1. /\ status[call[r].who] = "active" /\ call[r].pc = "readOwner"
        /\ call'[r].pc = "touch" /\ call'[r].who = call[r].who /\ call'[r].scopes = call[r].scopes
        /\ call'[r].arg = call[r].arg /\ call'[r].op = call[r].op
    BY <1>0, <1>6, OwnerRead DEF KeyOps
  <2>2. call[r].who \notin past[r].off
    BY <1>2, <2>1 DEF Use, IsOff
  <2> QED
    BY <1>1, <1>4, <2>1, <2>2 DEF Use, UsesKey, At, tables, rules
<1>7. CASE Touch(r) \/ Sign(r)
  <2>1. /\ call'[r].pc \in {"sign", "ok"} /\ call'[r].who = call[r].who
        /\ call'[r].scopes \subseteq call[r].scopes /\ call'[r].arg = call[r].arg
        /\ call'[r].op = call[r].op /\ call[r].pc \in {"touch", "sign"}
    BY <1>7, Touched, KeySigned DEF Signable
  <2> QED
    BY <1>1, <1>4, <2>1 DEF Use, UsesKey, At, tables, rules
<1> QED
  BY <1>5, <1>6, <1>7 DEF KeyUse

LEMMA UsesNext == IInv /\ [Next]_vars => Uses'
<1> SUFFICES ASSUME IInv, [Next]_vars, NEW r \in Requests, UsesKey(r)' PROVE Use(r)'
  BY DEF Uses, Use
<1>1. Base /\ Tables /\ Use(r) /\ KeysStay /\ OffUntilOn
  BY SteadyNext, KeysNext DEF IInv, Uses, Steady
<1>0. TypeOK /\ Shape(call[r]) /\ call[r] \in Call
  BY <1>1, CallTypes DEF Base, Shapes
<1>n. ~Deny(r) /\ call'[r].op # None
  BY <1>0, Denied, Unset DEF UsesKey, Idle
<1>2. CASE Start(r)
  BY <1>1, <1>2, UseBegun
<1>3. CASE call'[r] = call[r]
  <2>1. UsesKey(r)
    BY <1>3 DEF UsesKey
  <2>2. call[r].pc # "idle"
    BY <1>0, <1>n, <1>3 DEF Shape, Idle, KeyOps
  <2> QED
    BY <1>1, <1>n, <1>3, <2>1, <2>2, PastNext, UseKept
<1>4. CASE KeyUse(r) /\ ~Deny(r)
  <2>1. UsesKey(r)
    <3>1. CASE ReadKey(r) \/ Touch(r)
      BY <1>0, <3>1 DEF ReadKey, Touch, At, Shape, Finished, Idle, UsesKey
    <3>2. CASE Sign(r)
      BY <1>0, <1>n, <3>2, <1>4, Succeeded DEF Sign, Idle
    <3>3. CASE ReadOwner(r)
      BY <1>1, <1>4, <3>3, OwnerRead DEF UsesKey
    <3> QED
      BY <1>4, <3>1, <3>2, <3>3 DEF KeyUse
  <2>2. call[r].pc # "idle"
    BY <1>4 DEF KeyUse, ReadKey, ReadOwner, Touch, Sign, At
  <2> QED
    BY <1>1, <1>4, <2>1, <2>2, PastNext, UseWent
<1> QED
  BY <1>1, <1>2, <1>3, <1>4, UseMoves

----------------------------------------------------------------------------
(* The theorems.                                                           *)

LEMMA InvariantInit == Init => IInv
<1> SUFFICES ASSUME Init PROVE IInv
  OBVIOUS
<1>1. TypeOK
  BY TypeInit
<1>2. \A r \in Requests : call[r] = Idle
  BY DEF Init
<1>3. Idle.pc = "idle" /\ Idle.op = None /\ Idle.arg = None /\ Idle = [Idle EXCEPT !.pc = "idle"]
  BY DEF Idle
<1>4. Shapes
  BY <1>2, <1>3 DEF Shapes, Shape
<1>5. Approvals
  BY <1>2, <1>3 DEF Init, Approvals, DeviceApproved, DeviceKeyWasApproved, CallApproved
<1>6. Creations
  BY <1>2, <1>3 DEF Creations, OwnAccounts, Creation, Creating
<1>7. ASSUME NEW k \in KeyIds, key[k] # Unissued
      PROVE  key[k].owner \in Users /\ granted[k] = {key[k].scopes}
  <2> DEFINE first(u) ==
               [owner |-> u, scopes |-> policy[roles[u]], status |-> "active", expired |-> FALSE]
  <2>1. \E u \in Users : key[k] = first(u)
    BY <1>7 DEF Init
  <2>2. key[k].owner \in Users
    BY <2>1
  <2> HIDE DEF first
  <2> QED
    BY <1>7, <2>2 DEF Init
<1>8. Tables
  <2>1. RowsInOrder /\ OffRows
    BY DEF Init, RowsInOrder, OffRows
  <2>2. Users \cap Created = {}
    BY CredentialsAssumption DEF Accounts
  <2> QED
    BY <1>7, <2>1, <2>2 DEF Tables, KeyOwners, KeysWithinGrant
<1>10. Limits
  <2>1. ASSUME NEW r \in Requests PROVE Limit(r)
    BY <1>2, <1>3 DEF Limit, Recorded, Running, HasRoles, HasScopes
  <2> QED
    BY <2>1 DEF Limits
<1>9. Uses
  BY <1>2, <1>3, Unset DEF Uses, Use, UsesKey
<1> QED
  BY <1>1, <1>4, <1>5, <1>6, <1>8, <1>9, <1>10 DEF IInv, Base

LEMMA InvariantNext == IInv /\ [Next]_vars => IInv'
  BY BaseNext, CreationsNext, LimitsNext, TablesNext, UsesNext DEF IInv

\* Every state that the handlers of service.go can reach, one store call at a
\* time, has the types, the shapes of the calls and the ties between rows, calls
\* and approvals of IInv.
THEOREM CredentialsInvariant == Spec => []IInv
  BY InvariantInit, InvariantNext, PTL DEF Spec

\* A key from the device flow (service.go:657-754) belongs to somebody who asked,
\* signed in, to approve the user code of that device.
THEOREM DeviceKeysWereApproved == Spec => []DeviceKeyWasApproved
<1>1. IInv => DeviceKeyWasApproved
  BY DEF IInv, Base, Approvals
<1> QED
  BY <1>1, CredentialsInvariant, PTL

\* Every key of a service account (CreateServiceAccountToken, three writes of
\* which any may fail) has its account and principal rows.
THEOREM ServiceKeysListed == Spec => []ServiceKeysHaveAccounts
<1>1. IInv => ServiceKeysHaveAccounts
  <2>1. Users \cap Accounts = {} /\ Created \subseteq Accounts
    BY CredentialsAssumption DEF Accounts
  <2> QED
    BY <2>1 DEF IInv, Tables, KeyOwners, RowsInOrder, ServiceKeysHaveAccounts
<1> QED
  BY <1>1, CredentialsInvariant, PTL

\* No key lists a scope that its owner, or the administrator who created the
\* service account, was not allowed at a moment of the call that made it, with
\* roles and policies replaced between any two reads of that call.
THEOREM KeysGranted == Spec => []KeysWithinGrant
<1>1. IInv => KeysWithinGrant
  BY DEF IInv, Tables
<1> QED
  BY <1>1, CredentialsInvariant, PTL

\* A call that begins after RevokeAPIKey (service.go:983-1004) is not answered
\* with the revoked key, whatever else uses that key at the time.
THEOREM RevokedKeysRefused == Spec => []RevokedKeyRefused
<1>1. IInv => RevokedKeyRefused
  BY DEF IInv, Uses, Use, RevokedKeyRefused, At
<1> QED
  BY <1>1, CredentialsInvariant, PTL

\* What SignInternalJWT signs for a key is within the key's scopes and within
\* what roles that the owner had during the call allow by a policy that was in
\* force during it.  The two need not be of one moment: the roles are read before
\* the key is touched and the policy after it (service.go:992, 999, 785).
THEOREM SignedScopes == Spec => []SignedWithinRoles
<1>1. ASSUME IInv, NEW r \in Requests, At(r, "ok"), call[r].op = "useKey"
      PROVE  /\ call[r].scopes \subseteq key[call[r].arg].scopes
             /\ \E S \in Moments(r) : call[r].scopes \subseteq S
  <2>1. Use(r) /\ Limit(r) /\ UsesKey(r) /\ call[r].pc = "ok"
    BY <1>1 DEF IInv, Uses, Limits, UsesKey, KeyOps, At
  <2>2. \E S \in Moments(r) : call[r].scopes \subseteq S
    BY <1>1, <2>1 DEF Limit, HasScopes
  <2> QED
    BY <1>1, <2>1, <2>2 DEF Use, At
<1>2. IInv => SignedWithinRoles
  BY <1>1 DEF SignedWithinRoles
<1> QED
  BY <1>2, CredentialsInvariant, PTL

\* A service account that DisableServiceAccount has disabled gets no answer to a
\* call that begins later, until somebody enables it or a client credentials call
\* projects it anew, also when its creation was still under way.
THEOREM DisabledAccountsStayOff == Spec => []DisabledAccountStaysOff
<1>1. IInv => DisabledAccountStaysOff
  BY DEF IInv, Uses, Use, DisabledAccountStaysOff, At
<1> QED
  BY <1>1, CredentialsInvariant, PTL
=============================================================================
