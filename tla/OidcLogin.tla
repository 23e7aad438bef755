----------------------------- MODULE OidcLogin -----------------------------
(***************************************************************************)
(* An OIDC login from its start to the session: StartOIDCLogin issues a    *)
(* state bound to the browser's cookie, the user authenticates at the      *)
(* provider, and the callback takes the state from the store, redeems the  *)
(* provider's code and creates a session (warden/service.go, http.go,      *)
(* gorm_store.go).                                                         *)
(*                                                                         *)
(* A state value stands for the attempt: its nonce, its PKCE verifier and  *)
(* its cookie value are drawn with it.  Requests that are refused before   *)
(* the state is taken change nothing and are left out.                     *)
(***************************************************************************)
EXTENDS Sequences, Naturals

CONSTANTS
    Browsers,       \* come through the HTTP handlers
    Hosts,          \* trusted Go clients, which call the service
    Users,          \* accounts at the identity provider
    States,         \* attempts
    Calls,          \* callbacks that can be under way at once
    None

Agents == Browsers \cup Hosts

ASSUME AgentsAssumption == Browsers \cap Hosts = {} /\ None \notin Agents \cup States

VARIABLES
    row,            \* the attempt's row of the store
    starter,        \* who started the attempt
    expired,        \* attempts older than ten minutes
    jar,            \* the login cookies of each browser, by attempt
    codes,          \* codes that the provider will redeem
    call,           \* the callbacks under way
    authenticated,  \* who authenticated for each attempt (history)
    landed          \* the sessions created for each attempt (history)

vars == <<row, starter, expired, jar, codes, call, authenticated, landed>>

Code == [state : States, user : Users]
Idle == [step |-> "idle"]
Callback == [step : {"entered", "selected", "taken", "answered"},
             agent : Agents, state : States, code : Code]

TypeOK ==
    /\ row \in [States -> {"unissued", "pending", "gone"}]
    /\ starter \in [States -> Agents \cup {None}]
    /\ expired \subseteq States
    /\ jar \in [Browsers -> SUBSET States]
    /\ codes \subseteq Code
    /\ call \in [Calls -> Callback \cup {Idle}]
    /\ authenticated \in [States -> SUBSET Users]
    /\ landed \in [States -> Seq([agent : Agents, user : Users])]

Init ==
    /\ row = [st \in States |-> "unissued"]
    /\ starter = [st \in States |-> None]
    /\ expired = {}
    /\ jar = [b \in Browsers |-> {}]
    /\ codes = {}
    /\ call = [k \in Calls |-> Idle]
    /\ authenticated = [st \in States |-> {}]
    /\ landed = [st \in States |-> <<>>]

----------------------------------------------------------------------------
\* The browser binding in the row: a host's attempt has none.
Binding(st) == IF starter[st] \in Browsers THEN st ELSE None

\* What the callback brings: the cookie of that name, or nothing.
Presented(k) == IF call[k].agent \in Browsers THEN call[k].state ELSE None

At(k, step) == call[k].step = step
Goto(k, step) == call' = [call EXCEPT ![k].step = step]

Start(a, st) ==
    /\ row[st] = "unissued"
    /\ row' = [row EXCEPT ![st] = "pending"]
    /\ starter' = [starter EXCEPT ![st] = a]
    /\ jar' = [b \in Browsers |-> IF b = a THEN jar[b] \cup {st} ELSE jar[b]]
    /\ UNCHANGED <<expired, codes, call, authenticated, landed>>

\* The provider issues a code for the attempt's challenge and nonce to whoever
\* follows the authorization URL, as often as asked.
Authenticate(st, u) ==
    /\ row[st] # "unissued"
    /\ [state |-> st, user |-> u] \notin codes
    /\ codes' = codes \cup {[state |-> st, user |-> u]}
    /\ authenticated' = [authenticated EXCEPT ![st] = @ \cup {u}]
    /\ UNCHANGED <<row, starter, expired, jar, call, landed>>

Expire(st) ==
    /\ row[st] # "unissued" /\ st \notin expired
    /\ expired' = expired \cup {st}
    /\ UNCHANGED <<row, starter, jar, codes, call, authenticated, landed>>

DropCookie(b, st) ==
    /\ st \in jar[b]
    /\ jar' = [jar EXCEPT ![b] = @ \ {st}]
    /\ UNCHANGED <<row, starter, expired, codes, call, authenticated, landed>>

\* A callback past the handler's own checks.  A page that is reloaded or a URL
\* passed on brings the same code and state again, in any browser.
Enter(k, a, st, code) ==
    /\ call[k] = Idle
    /\ row[st] # "unissued" /\ code.user \in authenticated[code.state]
    /\ a \in Browsers => st \in jar[a]
    /\ call' = [call EXCEPT ![k] =
                   [step |-> "entered", agent |-> a, state |-> st, code |-> code]]
    /\ UNCHANGED <<row, starter, expired, jar, codes, authenticated, landed>>

\* Faulty variant: the first statement looks for the state alone.
SelectAnyBinding(k) ==
    /\ At(k, "entered")
    /\ Goto(k, IF row[call[k].state] = "pending" THEN "selected" ELSE "answered")
    /\ UNCHANGED <<row, starter, expired, jar, codes, authenticated, landed>>

\* takeOIDCLoginState is two statements, and the database may let another
\* transaction in between.
SelectRow(k) ==
    LET st == call[k].state IN
    /\ At(k, "entered")
    /\ Goto(k, IF row[st] = "pending" /\ Binding(st) = Presented(k)
               THEN "selected" ELSE "answered")
    /\ UNCHANGED <<row, starter, expired, jar, codes, authenticated, landed>>

\* Faulty variant: the number of deleted rows is not looked at.
DeleteUncounted(k) ==
    LET st == call[k].state IN
    /\ At(k, "selected")
    /\ Goto(k, "taken")
    /\ row' = [row EXCEPT ![st] = "gone"]
    /\ UNCHANGED <<starter, expired, jar, codes, authenticated, landed>>

DeleteRow(k) ==
    LET st == call[k].state IN
    /\ At(k, "selected")
    /\ Goto(k, IF row[st] = "pending" THEN "taken" ELSE "answered")
    /\ row' = [row EXCEPT ![st] = "gone"]
    /\ UNCHANGED <<starter, expired, jar, codes, authenticated, landed>>

\* Faulty variant: any code of the provider will do.
RedeemAnyCode(k) ==
    LET st == call[k].state  code == call[k].code IN
    /\ At(k, "taken")
    /\ Binding(st) = Presented(k) /\ st \notin expired
    /\ code \in codes
    /\ codes' = codes \ {code}
    /\ landed' = [landed EXCEPT ![st] =
                     Append(@, [agent |-> call[k].agent, user |-> code.user])]
    /\ Goto(k, "answered")
    /\ UNCHANGED <<row, starter, expired, jar, authenticated>>

\* The rest of completeOIDCCallback: the provider redeems a code once and for
\* the attempt's own verifier, and the token carries the attempt's nonce.
Redeem(k) ==
    LET st == call[k].state  code == call[k].code IN
    /\ At(k, "taken")
    /\ Binding(st) = Presented(k) /\ st \notin expired
    /\ code \in codes /\ code.state = st
    /\ codes' = codes \ {code}
    /\ landed' = [landed EXCEPT ![st] =
                     Append(@, [agent |-> call[k].agent, user |-> code.user])]
    /\ Goto(k, "answered")
    /\ UNCHANGED <<row, starter, expired, jar, authenticated>>

\* The store, the provider or the directory fails, or refuses what it was
\* given; the provider may have spent the code.
Fail(k) ==
    /\ \E step \in {"entered", "selected", "taken"} : At(k, step)
    /\ Goto(k, "answered")
    /\ \/ codes' = codes
       \/ At(k, "taken") /\ codes' = codes \ {call[k].code}
    /\ UNCHANGED <<row, starter, expired, jar, authenticated, landed>>

\* Whatever the outcome, the response clears the login cookie, if it arrives.
Respond(k) ==
    /\ At(k, "answered")
    /\ call' = [call EXCEPT ![k] = Idle]
    /\ \/ jar' = jar
       \/ jar' = [b \in Browsers |->
                     IF b = call[k].agent THEN jar[b] \ {call[k].state} ELSE jar[b]]
    /\ UNCHANGED <<row, starter, expired, codes, authenticated, landed>>

Next ==
    \/ \E st \in States :
          \/ \E a \in Agents : Start(a, st)
          \/ \E u \in Users : Authenticate(st, u)
          \/ Expire(st)
          \/ \E b \in Browsers : DropCookie(b, st)
    \/ \E k \in Calls :
          \/ \E a \in Agents, st \in States, code \in Code : Enter(k, a, st, code)
          \/ SelectRow(k) \/ DeleteRow(k) \/ Redeem(k) \/ Fail(k) \/ Respond(k)

Spec == Init /\ [][Next]_vars

----------------------------------------------------------------------------
\* A session goes to the browser that started the attempt, and its user is one
\* who authenticated for that very attempt: neither a code of another attempt
\* nor a callback opened elsewhere yields a session (service.go:418-440).  Go
\* clients vouch for each other's attempts.
LoginLandsWhereItStarted ==
    \A st \in States : \A i \in 1 .. Len(landed[st]) :
        /\ landed[st][i].user \in authenticated[st]
        /\ {landed[st][i].agent, starter[st]} \cap Browsers # {} =>
               landed[st][i].agent = starter[st]

\* An attempt yields one session at most, although a reloaded callback runs
\* beside the first one with a fresh code (gorm_store.go:627-648).
StateUsedOnce == \A st \in States : Len(landed[st]) <= 1

\* A callback from elsewhere leaves a browser's attempt usable
\* (memory_store.go:109-110, "cannot burn a legitimate login attempt").
OnlyOwnCallbackConsumes ==
    [][\A st \in States :
          row[st] = "pending" /\ row'[st] = "gone" /\ starter[st] \in Browsers =>
              \E k \in Calls : /\ At(k, "selected") /\ ~At(k, "selected")'
                               /\ call[k].state = st /\ call[k].agent = starter[st]]_vars
=============================================================================
