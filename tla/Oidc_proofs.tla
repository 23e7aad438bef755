---------------------------- MODULE Oidc_proofs ----------------------------
(***************************************************************************)
(* OIDC logins: the attempts of OidcLogin, for any number of browsers,     *)
(* clients, attempts and callbacks, and the discovery that they share,     *)
(* OidcAuthority, for any number of callers.                               *)
(***************************************************************************)
EXTENDS OidcLogin, OidcAuthority, SequenceTheorems, TLAPS

----------------------------------------------------------------------------
(* The attempts.                                                           *)

\* Whoever presents a browser attempt's own cookie is that browser.
CookieAtStarter ==
    /\ \A b \in Browsers : \A st \in jar[b] : starter[st] = b
    /\ \A k \in Calls : call[k] # Idle /\ call[k].agent \in Browsers =>
          starter[call[k].state] = call[k].agent

\* Past the select the binding has been compared.
SelectedIsOwn ==
    \A k \in Calls : At(k, "selected") \/ At(k, "taken") =>
        Binding(call[k].state) = Presented(k)

Unissued == \A st \in States : row[st] = "unissued" => starter[st] = None

CallbackOfIssued ==
    \A k \in Calls : call[k] # Idle =>
        /\ row[call[k].state] # "unissued"
        /\ call[k].code.user \in authenticated[call[k].code.state]

\* Once a callback has taken the row nobody else takes or has taken it.
TakenOnce ==
    /\ \A st \in States : row[st] # "gone" => landed[st] = <<>>
    /\ \A k \in Calls : At(k, "taken") =>
          /\ row[call[k].state] = "gone"
          /\ landed[call[k].state] = <<>>
    /\ \A j, k \in Calls : At(j, "taken") /\ At(k, "taken")
                           /\ call[j].state = call[k].state => j = k

IInv == /\ TypeOK /\ CookieAtStarter /\ SelectedIsOwn /\ Unissued
        /\ CallbackOfIssued /\ TakenOnce
        /\ LoginLandsWhereItStarted /\ StateUsedOnce

LEMMA CallFields ==
    ASSUME TypeOK, NEW k \in Calls
    PROVE  /\ call[k] = Idle => call[k].step = "idle"
           /\ call[k].step # "idle" => call[k] \in Callback
           /\ call[k] # Idle => call[k] \in Callback /\ call[k].step # "idle"
  BY DEF TypeOK, Idle, Callback

LEMMA InitIInv == Init => IInv
  BY AgentsAssumption DEF Init, IInv, TypeOK, CookieAtStarter, SelectedIsOwn, Unissued,
     CallbackOfIssued, TakenOnce, LoginLandsWhereItStarted, StateUsedOnce, At, Idle, Agents

LEMMA StartKeeps ==
  ASSUME IInv, NEW a \in Agents, NEW st \in States, Start(a, st)
  PROVE  IInv'
<1>1. TypeOK'
  BY DEF IInv, Start, TypeOK
<1>2. CookieAtStarter'
  <2>1. \A k \in Calls : call[k] # Idle => call[k].state # st
    BY DEF IInv, CallbackOfIssued, Start
  <2>2. \A b \in Browsers : st \notin jar[b]
    BY AgentsAssumption DEF IInv, CookieAtStarter, Unissued, Start, TypeOK, Agents
  <2> QED
    BY <2>1, <2>2, CallFields DEF IInv, CookieAtStarter, TypeOK, Start, Callback
<1>3. SelectedIsOwn'
  <2>1. \A k \in Calls : At(k, "selected") \/ At(k, "taken") => call[k].state # st
    BY DEF IInv, CallbackOfIssued, Start, At, Idle
  <2> QED
    BY <2>1, CallFields DEF IInv, SelectedIsOwn, TypeOK, Start, Callback, Binding, Presented, At
<1>4. Unissued'
  BY DEF IInv, Start, TypeOK, Unissued
<1>5. CallbackOfIssued'
  BY DEF IInv, Start, TypeOK, CallbackOfIssued
<1>6. TakenOnce'
  BY DEF IInv, Start, TypeOK, TakenOnce, At
<1>7. LoginLandsWhereItStarted'
  <2>1. landed[st] = <<>>
    BY DEF IInv, TakenOnce, Start
  <2> QED
    BY <2>1 DEF IInv, LoginLandsWhereItStarted, TypeOK, Start
<1>8. StateUsedOnce'
  BY DEF IInv, Start, TypeOK, StateUsedOnce
<1> QED
  BY <1>1, <1>2, <1>3, <1>4, <1>5, <1>6, <1>7, <1>8 DEF IInv

LEMMA AuthenticateKeeps ==
  ASSUME IInv, NEW st \in States, NEW u \in Users, Authenticate(st, u)
  PROVE  IInv'
<1>1. TypeOK'
  <2>1. [state |-> st, user |-> u] \in Code
    BY DEF Code
  <2>2. authenticated[st] \cup {u} \in SUBSET Users
    BY DEF IInv, TypeOK
  <2> QED
    BY <2>1, <2>2 DEF IInv, TypeOK, Authenticate
<1>2. CookieAtStarter'
  BY DEF IInv, Authenticate, TypeOK, CookieAtStarter
<1>3. SelectedIsOwn'
  BY DEF IInv, Authenticate, TypeOK, SelectedIsOwn, Binding, Presented, At
<1>4. Unissued'
  BY DEF IInv, Authenticate, TypeOK, Unissued
<1>5. CallbackOfIssued'
  BY CallFields DEF IInv, Authenticate, TypeOK, CallbackOfIssued, Callback, Code
<1>6. TakenOnce'
  BY DEF IInv, Authenticate, TypeOK, TakenOnce, At
<1>7. LoginLandsWhereItStarted'
  BY DEF IInv, Authenticate, TypeOK, LoginLandsWhereItStarted
<1>8. StateUsedOnce'
  BY DEF IInv, Authenticate, TypeOK, StateUsedOnce
<1> QED
  BY <1>1, <1>2, <1>3, <1>4, <1>5, <1>6, <1>7, <1>8 DEF IInv

LEMMA ExpireKeeps ==
  ASSUME IInv, NEW st \in States, Expire(st)
  PROVE  IInv'
  BY DEF IInv, Expire, TypeOK, CookieAtStarter, SelectedIsOwn, Unissued, CallbackOfIssued,
     TakenOnce, LoginLandsWhereItStarted, StateUsedOnce, At, Binding, Presented

LEMMA DropCookieKeeps ==
  ASSUME IInv, NEW b \in Browsers, NEW st \in States, DropCookie(b, st)
  PROVE  IInv'
  BY DEF IInv, DropCookie, TypeOK, CookieAtStarter, SelectedIsOwn, Unissued, CallbackOfIssued,
     TakenOnce, LoginLandsWhereItStarted, StateUsedOnce, At, Binding, Presented

LEMMA EnterKeeps ==
  ASSUME IInv, NEW k \in Calls, NEW a \in Agents, NEW st \in States, NEW code \in Code,
         Enter(k, a, st, code)
  PROVE  IInv'
<1>1. TypeOK'
  BY CallFields DEF IInv, Enter, TypeOK, At, Goto, Callback
<1>2. CookieAtStarter'
  BY CallFields DEF IInv, Enter, TypeOK, CookieAtStarter, At, Goto, Callback
<1>3. SelectedIsOwn'
  BY CallFields DEF IInv, Enter, TypeOK, SelectedIsOwn, Binding, Presented, At, Goto, Callback
<1>4. Unissued'
  BY CallFields DEF IInv, Enter, TypeOK, Unissued, At, Goto, Callback
<1>5. CallbackOfIssued'
  BY CallFields DEF IInv, Enter, TypeOK, CallbackOfIssued, At, Goto, Callback
<1>6. TakenOnce'
  BY CallFields DEF IInv, Enter, TypeOK, TakenOnce, At, Goto, Callback
<1>7. LoginLandsWhereItStarted'
  BY CallFields DEF IInv, Enter, TypeOK, LoginLandsWhereItStarted, At, Goto, Callback
<1>8. StateUsedOnce'
  BY CallFields DEF IInv, Enter, TypeOK, StateUsedOnce, At, Goto, Callback
<1> QED
  BY <1>1, <1>2, <1>3, <1>4, <1>5, <1>6, <1>7, <1>8 DEF IInv

LEMMA SelectRowKeeps ==
  ASSUME IInv, NEW k \in Calls, SelectRow(k)
  PROVE  IInv'
<1>1. TypeOK'
  BY CallFields DEF IInv, SelectRow, TypeOK, At, Goto, Callback
<1>2. CookieAtStarter'
  BY CallFields DEF IInv, SelectRow, TypeOK, CookieAtStarter, At, Goto, Callback
<1>3. SelectedIsOwn'
  BY CallFields DEF IInv, SelectRow, TypeOK, SelectedIsOwn, Binding, Presented, At, Goto, Callback
<1>4. Unissued'
  BY CallFields DEF IInv, SelectRow, TypeOK, Unissued, At, Goto, Callback
<1>5. CallbackOfIssued'
  BY CallFields DEF IInv, SelectRow, TypeOK, CallbackOfIssued, At, Goto, Callback
<1>6. TakenOnce'
  BY CallFields DEF IInv, SelectRow, TypeOK, TakenOnce, At, Goto, Callback
<1>7. LoginLandsWhereItStarted'
  BY CallFields DEF IInv, SelectRow, TypeOK, LoginLandsWhereItStarted, At, Goto, Callback
<1>8. StateUsedOnce'
  BY CallFields DEF IInv, SelectRow, TypeOK, StateUsedOnce, At, Goto, Callback
<1> QED
  BY <1>1, <1>2, <1>3, <1>4, <1>5, <1>6, <1>7, <1>8 DEF IInv

LEMMA DeleteRowKeeps ==
  ASSUME IInv, NEW k \in Calls, DeleteRow(k)
  PROVE  IInv'
<1>1. TypeOK'
  BY CallFields DEF IInv, DeleteRow, TypeOK, At, Goto, Callback
<1>2. CookieAtStarter'
  BY CallFields DEF IInv, DeleteRow, TypeOK, CookieAtStarter, At, Goto, Callback
<1>3. SelectedIsOwn'
  BY CallFields DEF IInv, DeleteRow, TypeOK, SelectedIsOwn, Binding, Presented, At, Goto, Callback
<1>4. Unissued'
  BY CallFields DEF IInv, DeleteRow, TypeOK, Unissued, At, Goto, Callback
<1>5. CallbackOfIssued'
  BY CallFields DEF IInv, DeleteRow, TypeOK, CallbackOfIssued, At, Goto, Callback
<1>6. TakenOnce'
  BY CallFields DEF IInv, DeleteRow, TypeOK, TakenOnce, At, Goto, Callback
<1>7. LoginLandsWhereItStarted'
  BY CallFields DEF IInv, DeleteRow, TypeOK, LoginLandsWhereItStarted, At, Goto, Callback
<1>8. StateUsedOnce'
  BY CallFields DEF IInv, DeleteRow, TypeOK, StateUsedOnce, At, Goto, Callback
<1> QED
  BY <1>1, <1>2, <1>3, <1>4, <1>5, <1>6, <1>7, <1>8 DEF IInv

LEMMA RedeemKeeps ==
  ASSUME IInv, NEW k \in Calls, Redeem(k)
  PROVE  IInv'
<1> DEFINE st == call[k].state
           session == [agent |-> call[k].agent, user |-> call[k].code.user]
<1>a. /\ call[k] \in Callback /\ st \in States
      /\ session \in [agent : Agents, user : Users]
  BY CallFields DEF IInv, Redeem, At, Callback, Code
<1>b. /\ landed[st] = <<>>
      /\ landed' = [landed EXCEPT ![st] = <<session>>]
  <2>1. landed[st] = <<>>
    BY DEF IInv, TakenOnce, Redeem
  <2>2. Append(<<>>, session) = <<session>>
    BY <1>a
  <2>3. landed' = [landed EXCEPT ![st] = Append(landed[st], session)]
    BY DEF Redeem
  <2> QED
    BY <2>1, <2>2, <2>3
<1>c. /\ session.user \in authenticated[st]
      /\ {session.agent, starter[st]} \cap Browsers # {} => session.agent = starter[st]
  <2>1. session.user \in authenticated[st]
    BY CallFields DEF IInv, Redeem, At, CallbackOfIssued, Idle
  <2>2. session.agent \in Browsers => session.agent = starter[st]
    BY CallFields DEF IInv, Redeem, At, CookieAtStarter, Idle
  <2>3. starter[st] \in Browsers => session.agent \in Browsers
    BY <1>a, AgentsAssumption DEF Redeem, Binding, Presented
  <2> QED
    BY <2>1, <2>2, <2>3
<1>1. TypeOK'
  <2>1. <<session>> \in Seq([agent : Agents, user : Users])
    BY <1>a
  <2>2. landed' \in [States -> Seq([agent : Agents, user : Users])]
    BY <1>a, <1>b, <2>1 DEF IInv, TypeOK
  <2>3. call' \in [Calls -> Callback \cup {Idle}]
    BY <1>a DEF IInv, TypeOK, Redeem, Goto, Callback
  <2> QED
    BY <2>2, <2>3 DEF IInv, TypeOK, Redeem
<1>2. CookieAtStarter'
  BY CallFields DEF IInv, Redeem, TypeOK, CookieAtStarter, At, Goto, Callback
<1>3. SelectedIsOwn'
  BY CallFields DEF IInv, Redeem, TypeOK, SelectedIsOwn, Binding, Presented, At, Goto, Callback
<1>4. Unissued'
  BY CallFields DEF IInv, Redeem, TypeOK, Unissued, At, Goto, Callback
<1>5. CallbackOfIssued'
  BY CallFields DEF IInv, Redeem, TypeOK, CallbackOfIssued, At, Goto, Callback
<1>6. TakenOnce'
  <2>1. \A j \in Calls : At(j, "taken")' =>
            At(j, "taken") /\ call'[j] = call[j] /\ call[j].state # st
    BY <1>a DEF IInv, TypeOK, TakenOnce, Redeem, Goto, At, Callback
  <2>2. row'[st] = "gone"
    BY DEF IInv, TakenOnce, Redeem
  <2> QED
    BY <1>a, <1>b, <2>1, <2>2 DEF IInv, TypeOK, TakenOnce, Redeem
<1>7. LoginLandsWhereItStarted'
  <2> SUFFICES ASSUME NEW t \in States, NEW i \in 1 .. Len(landed'[t])
               PROVE  /\ landed'[t][i].user \in authenticated[t]
                      /\ {landed'[t][i].agent, starter[t]} \cap Browsers # {} =>
                             landed'[t][i].agent = starter[t]
    BY DEF LoginLandsWhereItStarted, Redeem
  <2>1. CASE t = st
    <3>1. landed'[t] = <<session>>
      BY <1>a, <1>b, <2>1 DEF IInv, TypeOK
    <3>2. i = 1
      BY <3>1
    <3> QED
      BY <1>c, <2>1, <3>1, <3>2
  <2>2. CASE t # st
    BY <1>a, <1>b, <2>2 DEF IInv, TypeOK, LoginLandsWhereItStarted
  <2> QED
    BY <2>1, <2>2
<1>8. StateUsedOnce'
  BY <1>a, <1>b DEF IInv, TypeOK, StateUsedOnce
<1> QED
  BY <1>1, <1>2, <1>3, <1>4, <1>5, <1>6, <1>7, <1>8 DEF IInv

LEMMA FailKeeps ==
  ASSUME IInv, NEW k \in Calls, Fail(k)
  PROVE  IInv'
<1>1. TypeOK'
  BY CallFields DEF IInv, Fail, TypeOK, At, Goto, Callback
<1>2. CookieAtStarter'
  BY CallFields DEF IInv, Fail, TypeOK, CookieAtStarter, At, Goto, Callback
<1>3. SelectedIsOwn'
  BY CallFields DEF IInv, Fail, TypeOK, SelectedIsOwn, Binding, Presented, At, Goto, Callback
<1>4. Unissued'
  BY CallFields DEF IInv, Fail, TypeOK, Unissued, At, Goto, Callback
<1>5. CallbackOfIssued'
  BY CallFields DEF IInv, Fail, TypeOK, CallbackOfIssued, At, Goto, Callback
<1>6. TakenOnce'
  BY CallFields DEF IInv, Fail, TypeOK, TakenOnce, At, Goto, Callback
<1>7. LoginLandsWhereItStarted'
  BY CallFields DEF IInv, Fail, TypeOK, LoginLandsWhereItStarted, At, Goto, Callback
<1>8. StateUsedOnce'
  BY CallFields DEF IInv, Fail, TypeOK, StateUsedOnce, At, Goto, Callback
<1> QED
  BY <1>1, <1>2, <1>3, <1>4, <1>5, <1>6, <1>7, <1>8 DEF IInv

LEMMA RespondKeeps ==
  ASSUME IInv, NEW k \in Calls, Respond(k)
  PROVE  IInv'
<1>a. jar' \in [Browsers -> SUBSET States] /\ \A b \in Browsers : jar'[b] \subseteq jar[b]
  BY DEF IInv, TypeOK, Respond
<1>1. TypeOK'
  BY <1>a DEF IInv, TypeOK, Respond
<1>2. CookieAtStarter'
  BY <1>a DEF IInv, TypeOK, CookieAtStarter, Respond
<1>3. SelectedIsOwn'
  BY CallFields DEF IInv, Respond, TypeOK, SelectedIsOwn, Binding, Presented, At, Idle
<1>4. Unissued'
  BY CallFields DEF IInv, Respond, TypeOK, Unissued, At, Goto, Callback
<1>5. CallbackOfIssued'
  BY CallFields DEF IInv, Respond, TypeOK, CallbackOfIssued, At, Goto, Callback
<1>6. TakenOnce'
  BY CallFields DEF IInv, Respond, TypeOK, TakenOnce, At, Idle
<1>7. LoginLandsWhereItStarted'
  BY CallFields DEF IInv, Respond, TypeOK, LoginLandsWhereItStarted, At, Goto, Callback
<1>8. StateUsedOnce'
  BY CallFields DEF IInv, Respond, TypeOK, StateUsedOnce, At, Goto, Callback
<1> QED
  BY <1>1, <1>2, <1>3, <1>4, <1>5, <1>6, <1>7, <1>8 DEF IInv

LEMMA StepIInv == IInv /\ [Next]_vars => IInv'
<1> SUFFICES ASSUME IInv, [Next]_vars PROVE IInv'
  OBVIOUS
<1>1. CASE Next
  BY <1>1, StartKeeps, AuthenticateKeeps, ExpireKeeps, DropCookieKeeps, EnterKeeps,
     SelectRowKeeps, DeleteRowKeeps, RedeemKeeps, FailKeeps, RespondKeeps DEF Next
<1>2. CASE UNCHANGED vars
  BY <1>2 DEF vars, IInv, TypeOK, CookieAtStarter, SelectedIsOwn, Unissued, CallbackOfIssued,
     TakenOnce, LoginLandsWhereItStarted, StateUsedOnce, At, Binding, Presented
<1> QED
  BY <1>1, <1>2

\* Rows, cookies, codes and callbacks keep their shape, and the invariant that
\* the next two theorems rest on holds.
THEOREM LoginInvariant == Spec => []IInv
  BY InitIInv, StepIInv, PTL DEF Spec

\* A session goes to the browser that started the attempt, for a user who
\* authenticated for it (completeOIDCCallback).
THEOREM LoginLands == Spec => []LoginLandsWhereItStarted
<1>1. IInv => LoginLandsWhereItStarted
  BY DEF IInv
<1> QED
  BY LoginInvariant, <1>1, PTL

\* An attempt yields one session at most: of two callbacks that have selected
\* the row only the one whose delete counts a row goes on (takeOIDCLoginState).
THEOREM StateTakenOnce == Spec => []StateUsedOnce
<1>1. IInv => StateUsedOnce
  BY DEF IInv
<1> QED
  BY LoginInvariant, <1>1, PTL

\* Only a callback of the browser that started an attempt takes its row
\* (TakeBoundOIDCLoginState).
THEOREM ConsumedByOwn == Spec => OnlyOwnCallbackConsumes
<1>1. IInv /\ [Next]_vars =>
        [\A st \in States :
          row[st] = "pending" /\ row'[st] = "gone" /\ starter[st] \in Browsers =>
              \E k \in Calls : /\ At(k, "selected") /\ ~At(k, "selected")'
                               /\ call[k].state = st /\ call[k].agent = starter[st]]_vars
  <2> SUFFICES ASSUME IInv, Next, NEW st \in States,
                      row[st] = "pending", row'[st] = "gone", starter[st] \in Browsers
               PROVE  \E k \in Calls : /\ At(k, "selected") /\ ~At(k, "selected")'
                                       /\ call[k].state = st /\ call[k].agent = starter[st]
    OBVIOUS
  <2>1. PICK k \in Calls : DeleteRow(k) /\ call[k].state = st
    BY DEF Next, Start, Authenticate, Expire, DropCookie, Enter, SelectRow, DeleteRow,
       Redeem, Fail, Respond, IInv, TypeOK
  <2>2. call[k].agent \in Browsers
    BY <2>1, AgentsAssumption DEF IInv, SelectedIsOwn, DeleteRow, Binding, Presented
  <2>3. call[k].agent = starter[st]
    BY <2>1, <2>2 DEF IInv, CookieAtStarter, DeleteRow, At, Idle
  <2>4. ~At(k, "selected")'
    BY <2>1, CallFields DEF IInv, TypeOK, DeleteRow, Goto, At, Callback
  <2> QED
    BY <2>1, <2>3, <2>4 DEF DeleteRow
<1> QED
  BY LoginInvariant, <1>1, PTL DEF Spec, OnlyOwnCallbackConsumes

----------------------------------------------------------------------------
(* The shared discovery.  Its state is none of the attempts'.              *)

\* The line, position by position: who is in it waits, nobody twice, and who
\* waits is in it.
Line ==
    /\ \A i \in DOMAIN queue : pc[queue[i]] = "waiting"
    /\ \A i, j \in DOMAIN queue : queue[i] = queue[j] => i = j
    /\ \A c \in Callers : pc[c] = "waiting" => \E i \in DOMAIN queue : queue[i] = c

\* The slot, the line and the callers' points.
Gate ==
    /\ pc \in [Callers -> Point]
    /\ gate \in {{}} \cup {{c} : c \in Callers}
    /\ queue \in Seq(Callers)
    /\ \A c \in Callers : pc[c] \in {"holding", "discovering"} <=> c \in gate
    /\ gate = {} => queue = <<>>
    /\ Line

\* Who runs the factory has seen that there is no client, and only he makes one.
AuthorityInv ==
    /\ Gate
    /\ canceled \subseteq Callers /\ client \in BOOLEAN /\ backoff \in BOOLEAN
    /\ \A c \in Callers : pc[c] = "discovering" => ~client

\* Taking a caller out of the line keeps the order of the others.
LEMMA Removed ==
    ASSUME NEW s \in Seq(Callers), NEW i \in DOMAIN s
    PROVE  /\ RemoveAt(s, i) \in Seq(Callers)
           /\ Len(RemoveAt(s, i)) = Len(s) - 1
           /\ \A j \in 1 .. Len(s) - 1 : RemoveAt(s, i)[j] = IF j < i THEN s[j] ELSE s[j + 1]
<1> DEFINE before == SubSeq(s, 1, i - 1)
           after == SubSeq(s, i + 1, Len(s))
<1>0. i \in 1 .. Len(s) /\ Len(s) \in Nat
  OBVIOUS
<1>1. before \in Seq(Callers) /\ Len(before) = i - 1 /\ \A j \in 1 .. i - 1 : before[j] = s[j]
  BY <1>0
<1>2. /\ after \in Seq(Callers) /\ Len(after) = Len(s) - i
      /\ \A j \in 1 .. Len(s) - i : after[j] = s[i + j]
  BY <1>0
<1>3. RemoveAt(s, i) = before \o after
  BY DEF RemoveAt
<1> HIDE DEF before, after
<1>4. /\ before \o after \in Seq(Callers) /\ Len(before \o after) = Len(s) - 1
      /\ \A j \in 1 .. Len(s) - 1 : (before \o after)[j] =
            IF j <= i - 1 THEN before[j] ELSE after[j - (i - 1)]
  <2>1. i - 1 \in Nat /\ Len(s) - i \in Nat /\ (i - 1) + (Len(s) - i) = Len(s) - 1
    BY <1>0
  <2> QED BY <1>1, <1>2, <2>1, ConcatProperties
<1>5. ASSUME NEW j \in 1 .. Len(s) - 1
      PROVE  (before \o after)[j] = IF j < i THEN s[j] ELSE s[j + 1]
  <2>1. j \in Nat /\ i \in Nat /\ (j <= i - 1 <=> j < i)
    BY <1>0
  <2>2. CASE j < i
    <3>1. j \in 1 .. i - 1
      BY <2>1, <2>2
    <3>2. before[j] = s[j]
      BY <1>1, <3>1
    <3> QED BY <1>4, <2>1, <2>2, <3>2
  <2>3. CASE ~ (j < i)
    <3>1. j - (i - 1) \in 1 .. Len(s) - i /\ i + (j - (i - 1)) = j + 1
      BY <1>0, <2>1, <2>3
    <3>2. after[j - (i - 1)] = s[j + 1]
      BY <1>2, <3>1
    <3> QED BY <1>4, <2>1, <2>3, <3>2
  <2> QED BY <2>2, <2>3
<1> QED BY <1>3, <1>4, <1>5

\* A caller that neither waits nor holds the slot goes where he does neither.
LEMMA BystanderMoves ==
    ASSUME Gate, NEW c \in Callers, NEW pt \in Point \ {"waiting", "holding", "discovering"},
           pc[c] \notin {"waiting", "holding", "discovering"}, Move(c, pt),
           UNCHANGED <<gate, queue>>
    PROVE  Gate'
BY DEF Gate, Line, Move

LEMMA JoinsLine ==
    ASSUME Gate, NEW c \in Callers, SelectBlocks(c)
    PROVE  Gate'
<1>0. queue \in Seq(Callers) /\ queue' = Append(queue, c)
  BY DEF SelectBlocks, Gate
<1>1. /\ queue' \in Seq(Callers) /\ DOMAIN queue' = 1 .. Len(queue) + 1
      /\ \A i \in DOMAIN queue : i \in DOMAIN queue' /\ queue'[i] = queue[i]
      /\ \A i \in DOMAIN queue' : i \in DOMAIN queue \/ queue'[i] = c
      /\ queue'[Len(queue) + 1] = c /\ DOMAIN queue = 1 .. Len(queue) /\ Len(queue) \in Nat
  BY <1>0
<1>2. /\ pc' = [pc EXCEPT ![c] = "waiting"] /\ pc[c] = "selecting"
      /\ gate' = gate /\ gate # {}
  BY DEF SelectBlocks, Move
<1>3. Line'
  <2>1. \A i \in DOMAIN queue : queue[i] \in Callers /\ queue[i] # c
    BY <1>2 DEF Gate, Line
  <2>2. \A i \in DOMAIN queue' : pc'[queue'[i]] = "waiting"
    BY <1>1, <1>2, <2>1 DEF Gate, Line
  <2>3. \A i, j \in DOMAIN queue' : queue'[i] = queue'[j] => i = j
    BY <1>1, <2>1 DEF Gate, Line
  <2>4. ASSUME NEW d \in Callers, pc'[d] = "waiting" PROVE \E i \in DOMAIN queue' : queue'[i] = d
    <3>1. CASE d = c
      BY <1>1, <3>1 DEF Gate
    <3>2. CASE d # c
      BY <1>1, <1>2, <2>4, <3>2 DEF Gate, Line
    <3> QED BY <3>1, <3>2
  <2> QED BY <2>2, <2>3, <2>4 DEF Line
<1>4. /\ pc' \in [Callers -> Point]
      /\ \A d \in Callers : pc'[d] \in {"holding", "discovering"} <=> d \in gate'
  BY <1>2 DEF Gate, Point
<1> QED BY <1>1, <1>2, <1>3, <1>4 DEF Gate

LEMMA LeavesLine ==
    ASSUME Gate, NEW c \in Callers, LeaveQueue(c)
    PROVE  Gate'
<1>1. PICK k \in DOMAIN queue : queue[k] = c /\ queue' = RemoveAt(queue, k)
  BY DEF LeaveQueue
<1>2. /\ pc' = [pc EXCEPT ![c] = "canceled"] /\ pc[c] = "waiting" /\ gate' = gate
  BY DEF LeaveQueue, Move
<1>3. /\ queue' \in Seq(Callers) /\ k \in 1 .. Len(queue) /\ Len(queue) \in Nat
      /\ DOMAIN queue = 1 .. Len(queue) /\ DOMAIN queue' = 1 .. Len(queue) - 1
      /\ \A j \in 1 .. Len(queue) - 1 : queue'[j] = IF j < k THEN queue[j] ELSE queue[j + 1]
  BY <1>1, Removed DEF Gate
<1>4. Line'
  <2>1. \A j \in DOMAIN queue' : \E i \in DOMAIN queue : i # k /\ queue'[j] = queue[i]
    BY <1>3
  <2>2. \A j \in DOMAIN queue' : pc'[queue'[j]] = "waiting"
    BY <1>1, <1>2, <2>1 DEF Gate, Line
  <2>3. ASSUME NEW i \in DOMAIN queue', NEW j \in DOMAIN queue', queue'[i] = queue'[j]
        PROVE  i = j
    <3> DEFINE from(n) == IF n < k THEN n ELSE n + 1
    <3>1. from(i) \in DOMAIN queue /\ from(j) \in DOMAIN queue
      BY <1>3
    <3>2. queue[from(i)] = queue[from(j)]
      BY <1>3, <2>3
    <3>3. from(i) = from(j)
      BY <3>1, <3>2 DEF Gate, Line
    <3> QED BY <1>3, <3>3
  <2>4. ASSUME NEW d \in Callers, pc'[d] = "waiting" PROVE \E i \in DOMAIN queue' : queue'[i] = d
    <3>1. d # c /\ pc[d] = "waiting"
      BY <1>2, <2>4 DEF Gate
    <3>2. PICK i \in DOMAIN queue : queue[i] = d
      BY <3>1 DEF Gate, Line
    <3>3. i # k
      BY <1>1, <3>1, <3>2
    <3>4. CASE i < k
      BY <1>3, <3>2, <3>4
    <3>5. CASE i > k
      <4>1. i - 1 \in DOMAIN queue' /\ queue'[i - 1] = queue[i]
        BY <1>3, <3>5
      <4> QED BY <3>2, <4>1
    <3> QED BY <1>3, <3>3, <3>4, <3>5
  <2> QED BY <2>2, <2>3, <2>4 DEF Line
<1>5. /\ pc' \in [Callers -> Point]
      /\ \A d \in Callers : pc'[d] \in {"holding", "discovering"} <=> d \in gate'
  BY <1>2 DEF Gate, Point, Answer
<1>6. gate' # {}
  BY <1>1, <1>2 DEF Gate
<1> QED BY <1>2, <1>3, <1>4, <1>5, <1>6 DEF Gate

\* The holder hands the slot to the first in line, or leaves it free.
LEMMA HandsOver ==
    ASSUME Gate, NEW c \in Callers, NEW answer \in Answer,
           pc[c] \in {"holding", "discovering"}, Release(c, answer)
    PROVE  /\ Gate'
           /\ \A d \in Callers : pc'[d] # "discovering"
<1>0. gate = {c} /\ \A d \in Callers : pc[d] \in {"holding", "discovering"} => d = c
  BY DEF Gate
<1>1. CASE queue = <<>>
  <2>1. gate' = {} /\ queue' = queue /\ pc' = [pc EXCEPT ![c] = answer]
    BY <1>1 DEF Release, Move
  <2> QED BY <1>0, <1>1, <2>1 DEF Gate, Line, Point, Answer
<1>2. CASE queue # <<>>
  <2> DEFINE first == queue[1]
  <2>1. /\ queue' \in Seq(Callers) /\ first \in Callers /\ Head(queue) = first
        /\ DOMAIN queue = 1 .. Len(queue) /\ Len(queue) \in Nat /\ 1 \in DOMAIN queue
        /\ DOMAIN queue' = 1 .. Len(queue) - 1
        /\ \A i \in DOMAIN queue' : i + 1 \in DOMAIN queue /\ queue'[i] = queue[i + 1]
    <3>1. queue \in Seq(Callers) /\ queue' = Tail(queue)
      BY <1>2 DEF Release, Gate
    <3>2. /\ DOMAIN queue = 1 .. Len(queue) /\ Len(queue) \in Nat /\ 1 \in DOMAIN queue
          /\ first \in Callers /\ Head(queue) = first
      BY <1>2, <3>1
    <3>3. /\ Tail(queue) \in Seq(Callers) /\ DOMAIN Tail(queue) = 1 .. Len(queue) - 1
          /\ \A i \in DOMAIN Tail(queue) : Tail(queue)[i] = queue[i + 1]
      BY <1>2, <3>1
    <3> QED BY <3>1, <3>2, <3>3
  <2>2. /\ gate' = {first} /\ pc' = [pc EXCEPT ![c] = answer, ![first] = "holding"]
    BY <1>2, <2>1 DEF Release
  <2>3. pc[first] = "waiting" /\ first # c
    BY <2>1 DEF Gate, Line
  <2> HIDE DEF first
  <2>4. /\ pc' \in [Callers -> Point] /\ pc'[first] = "holding" /\ pc'[c] = answer
        /\ \A d \in Callers \ {first, c} : pc'[d] = pc[d]
    BY <2>1, <2>2, <2>3 DEF Gate, Point
  <2>5. /\ \A d \in Callers : pc'[d] \in {"holding", "discovering"} <=> d \in gate'
        /\ \A d \in Callers : pc'[d] # "discovering"
    BY <1>0, <2>2, <2>4 DEF Answer
  <2>6. Line'
    <3>1. ASSUME NEW i \in DOMAIN queue'
          PROVE  /\ queue'[i] \in Callers /\ queue'[i] \notin {first, c}
                 /\ pc[queue'[i]] = "waiting"
      <4>1. i + 1 \in DOMAIN queue /\ queue'[i] = queue[i + 1] /\ i + 1 # 1
        BY <2>1
      <4>2. queue[i + 1] # queue[1]
        BY <2>1, <4>1 DEF Gate, Line
      <4> QED BY <2>1, <4>1, <4>2 DEF Gate, Line, first
    <3>2. \A i \in DOMAIN queue' : pc'[queue'[i]] = "waiting"
      BY <2>4, <3>1
    <3>3. ASSUME NEW i \in DOMAIN queue', NEW j \in DOMAIN queue', queue'[i] = queue'[j]
          PROVE  i = j
      <4>1. /\ i + 1 \in DOMAIN queue /\ j + 1 \in DOMAIN queue
            /\ queue[i + 1] = queue[j + 1] /\ i \in Nat /\ j \in Nat
        BY <2>1, <3>3
      <4>2. i + 1 = j + 1
        BY <4>1 DEF Gate, Line
      <4> QED BY <4>1, <4>2
    <3>4. ASSUME NEW d \in Callers, pc'[d] = "waiting" PROVE \E i \in DOMAIN queue' : queue'[i] = d
      <4>1. d # first /\ pc[d] = "waiting"
        BY <2>4, <3>4 DEF Answer
      <4>2. PICK i \in DOMAIN queue : queue[i] = d
        BY <4>1 DEF Gate, Line
      <4>3. i # 1
        BY <4>1, <4>2 DEF first
      <4>4. i - 1 \in DOMAIN queue' /\ queue'[i - 1] = queue[i]
        BY <2>1, <4>3
      <4> QED BY <4>2, <4>4
    <3> QED BY <3>2, <3>3, <3>4 DEF Line
  <2> QED BY <2>1, <2>2, <2>4, <2>5, <2>6 DEF Gate
<1> QED BY <1>1, <1>2

LEMMA AuthorityInitial == AuthorityInit => AuthorityInv
<1> SUFFICES ASSUME AuthorityInit PROVE AuthorityInv
  OBVIOUS
<1>1. client \in BOOLEAN /\ backoff \in BOOLEAN /\ canceled \subseteq Callers
  BY DEF AuthorityInit
<1>2. Gate /\ \A c \in Callers : pc[c] # "discovering"
  BY DEF AuthorityInit, Gate, Line, Point
<1> QED BY <1>1, <1>2 DEF AuthorityInv

LEMMA AuthorityStep == AuthorityInv /\ [AuthorityNext]_authorityVars => AuthorityInv'
<1> SUFFICES ASSUME AuthorityInv, [AuthorityNext]_authorityVars PROVE AuthorityInv'
  OBVIOUS
<1>0. canceled' \subseteq Callers /\ client' \in BOOLEAN /\ backoff' \in BOOLEAN
  <2>1. canceled' \subseteq Callers
    BY DEF AuthorityInv, AuthorityNext, Call, Resolve, CheckContext, SelectGate, SelectDone,
       SelectBlocks, LeaveQueue, LookUp, Discovery, DiscoverySucceeds, DiscoveryError,
       DiscoveryUnusable, Cancel, Return, BackoffEnds, authorityVars
  <2>2. client' \in BOOLEAN
    BY DEF AuthorityInv, AuthorityNext, Call, Resolve, CheckContext, SelectGate, SelectDone,
       SelectBlocks, LeaveQueue, LookUp, Discovery, DiscoverySucceeds, DiscoveryError,
       DiscoveryUnusable, Cancel, Return, BackoffEnds, authorityVars
  <2>3. backoff' \in BOOLEAN
    BY DEF AuthorityInv, AuthorityNext, Call, Resolve, CheckContext, SelectGate, SelectDone,
       SelectBlocks, LeaveQueue, LookUp, Discovery, DiscoverySucceeds, DiscoveryError,
       DiscoveryUnusable, Cancel, Return, BackoffEnds, authorityVars
  <2> QED BY <2>1, <2>2, <2>3
<1>1. ASSUME NEW c \in Callers, Call(c) \/ CheckContext(c) \/ SelectDone(c) \/ Return(c)
      PROVE  AuthorityInv'
  <2>1. PICK pt \in Point \ {"waiting", "holding", "discovering"} :
           /\ Move(c, pt) /\ pc[c] \notin {"waiting", "holding", "discovering"}
           /\ UNCHANGED <<gate, queue, client>>
    BY <1>1 DEF Call, CheckContext, SelectDone, Return, Point, Answer
  <2>2. Gate'
    BY <2>1, BystanderMoves DEF AuthorityInv
  <2> QED BY <1>0, <2>1, <2>2 DEF AuthorityInv, Gate, Move
<1>2. ASSUME NEW c \in Callers, SelectGate(c) PROVE AuthorityInv'
  BY <1>0, <1>2 DEF SelectGate, AuthorityInv, Gate, Line, Move, Point
<1>3. ASSUME NEW c \in Callers, SelectBlocks(c) PROVE AuthorityInv'
  BY <1>0, <1>3, JoinsLine DEF AuthorityInv, SelectBlocks, Gate, Move
<1>4. ASSUME NEW c \in Callers, LeaveQueue(c) PROVE AuthorityInv'
  BY <1>0, <1>4, LeavesLine DEF AuthorityInv, LeaveQueue, Gate, Move
<1>5. ASSUME NEW c \in Callers, NEW answer \in Answer, pc[c] \in {"holding", "discovering"},
             Release(c, answer)
      PROVE  AuthorityInv'
  BY <1>0, <1>5, HandsOver DEF AuthorityInv
<1>6. ASSUME NEW c \in Callers, LookUp(c) PROVE AuthorityInv'
  <2>1. CASE \E answer \in Answer : Release(c, answer)
    BY <1>5, <1>6, <2>1 DEF LookUp
  <2>2. CASE ~client /\ Move(c, "discovering") /\ UNCHANGED <<gate, queue, client>>
    <3>1. pc[c] = "holding" /\ pc' = [pc EXCEPT ![c] = "discovering"]
      BY <1>6, <2>2 DEF LookUp, Move
    <3> QED BY <1>0, <2>2, <3>1 DEF AuthorityInv, Gate, Line, Point
  <2> QED BY <1>6, <2>1, <2>2 DEF LookUp, Answer
<1>7. ASSUME NEW c \in Callers, Discovery(c) PROVE AuthorityInv'
  <2>1. \E answer \in Answer : Release(c, answer)
    BY <1>7 DEF Discovery, DiscoverySucceeds, DiscoveryError, DiscoveryUnusable, Answer
  <2> QED BY <1>5, <1>7, <2>1 DEF Discovery, DiscoverySucceeds, DiscoveryError, DiscoveryUnusable
<1>8. CASE UNCHANGED <<pc, gate, queue, client>>
  BY <1>0, <1>8 DEF AuthorityInv, Gate, Line
<1> QED
  BY <1>1, <1>2, <1>3, <1>4, <1>6, <1>7, <1>8
  DEF AuthorityNext, Resolve, Cancel, BackoffEnds, authorityVars

LEMMA AuthorityInvariant == AuthoritySpec => []AuthorityInv
BY AuthorityInitial, AuthorityStep, PTL DEF AuthoritySpec

\* The slot, the line and the callers agree, with any number of callers.
THEOREM GateKept == AuthoritySpec => []GateConsistent
<1>1. AuthorityInv => GateConsistent
  <2> SUFFICES ASSUME AuthorityInv PROVE GateConsistent
    OBVIOUS
  <2>1. AuthorityTypeOK
    BY DEF AuthorityInv, Gate, AuthorityTypeOK
  <2>2. ToSet(queue) = {c \in Callers : pc[c] = "waiting"} /\ IsInjective(queue)
    BY DEF AuthorityInv, Gate, Line, ToSet, IsInjective
  <2> QED BY <2>1, <2>2 DEF AuthorityInv, Gate, GateConsistent
<1> QED BY <1>1, AuthorityInvariant, PTL

\* One discovery at a time, by the holder of the slot, and none once there is a
\* client (Service.resolveOIDC).
THEOREM DiscoveryShared == AuthoritySpec => []SharedDiscovery
<1>1. AuthorityInv => SharedDiscovery
  BY DEF AuthorityInv, Gate, SharedDiscovery
<1> QED BY <1>1, AuthorityInvariant, PTL

\* Only a discovery that failed by the provider's fault starts the backoff: its
\* own caller is told so (Service.resolveOIDC).
THEOREM BackoffEarned == AuthoritySpec => BackoffIsForFailures
<1>1. ASSUME AuthorityInv, AuthorityNext, ~backoff, backoff'
      PROVE  \E c \in Callers : pc[c] = "discovering" /\ pc'[c] = "unavailable"
  <2>1. PICK c \in Callers : DiscoveryError(c) \/ DiscoveryUnusable(c)
    BY <1>1 DEF AuthorityNext, Call, Resolve, CheckContext, SelectGate, SelectDone, SelectBlocks,
       LeaveQueue, LookUp, Discovery, DiscoverySucceeds, Cancel, Return, BackoffEnds
  <2>2. pc[c] = "discovering" /\ Release(c, "unavailable")
    BY <1>1, <2>1 DEF DiscoveryError, DiscoveryUnusable
  <2>3. queue # <<>> => Head(queue) \in Callers /\ Head(queue) # c
    <3> SUFFICES ASSUME queue # <<>> PROVE Head(queue) \in Callers /\ Head(queue) # c
      OBVIOUS
    <3>1. 1 \in DOMAIN queue /\ Head(queue) = queue[1] /\ queue[1] \in Callers
      BY <1>1 DEF AuthorityInv, Gate
    <3> QED BY <1>1, <2>2, <3>1 DEF AuthorityInv, Gate, Line
  <2> QED BY <1>1, <2>2, <2>3 DEF Release, Move, AuthorityInv, Gate
<1>2. AuthorityInv /\ [AuthorityNext]_authorityVars =>
        [~backoff /\ backoff' =>
            \E c \in Callers : pc[c] = "discovering" /\ pc'[c] = "unavailable"]_authorityVars
  BY <1>1
<1> QED BY <1>2, AuthorityInvariant, PTL DEF AuthoritySpec, BackoffIsForFailures
=============================================================================
