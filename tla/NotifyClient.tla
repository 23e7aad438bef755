---------------------------- MODULE NotifyClient ----------------------------
(***************************************************************************)
(* The token cache of the notification client (webhub/notify/client.go):   *)
(* goroutines that call Notify share one internal JWT under a mutex, which *)
(* is held across the request to Warden.                                   *)
(*                                                                         *)
(* A token is the time at which it expires.  ReportsExpiry says whether    *)
(* the server answers with the expires_at that the client decodes, as the  *)
(* servers of the client's tests do and Warden's own handler does not.     *)
(***************************************************************************)
EXTENDS Integers

CONSTANTS
    Callers,        \* goroutines that call Notify again and again
    ReportsExpiry,
    TTL,            \* lifetime of the tokens that Warden signs
    Margin,         \* TokenSafetyMargin
    Timeout,        \* HTTPTimeout
    Horizon,        \* bound on the time
    None

ASSUME TimesAssumption ==
    /\ {TTL, Margin, Timeout, Horizon} \subseteq Nat /\ Horizon > 0
    /\ Margin + Timeout < TTL
    /\ ReportsExpiry \in BOOLEAN /\ None \notin Callers \cup Nat

VARIABLES
    now,
    pc,             \* where each caller is
    mu,             \* who holds the mutex
    asked,          \* when the token under way was asked for
    cachedToken,    \* a token or None
    cachedExpiry,   \* what the client takes for its expiry
    token           \* the token each caller got

vars == <<now, pc, mu, asked, cachedToken, cachedExpiry, token>>

TypeOK ==
    /\ now \in 1 .. Horizon
    /\ pc \in [Callers -> {"idle", "locking", "locked", "signing", "posting"}]
    /\ mu \in Callers \cup {None}
    /\ asked \in Nat \cup {None}
    /\ cachedToken \in Nat \cup {None} /\ cachedExpiry \in Nat
    /\ token \in [Callers -> Nat \cup {None}]

Init ==
    /\ now = 1
    /\ pc = [c \in Callers |-> "idle"]
    /\ mu = None /\ asked = None
    /\ cachedToken = None /\ cachedExpiry = 0
    /\ token = [c \in Callers |-> None]

----------------------------------------------------------------------------
At(c, point) == pc[c] = point
Goto(c, point) == pc' = [pc EXCEPT ![c] = point]

Notify(c) ==
    /\ At(c, "idle")
    /\ Goto(c, "locking")
    /\ UNCHANGED <<now, mu, asked, cachedToken, cachedExpiry, token>>

Lock(c) ==
    /\ At(c, "locking") /\ mu = None
    /\ mu' = c
    /\ Goto(c, "locked")
    /\ UNCHANGED <<now, asked, cachedToken, cachedExpiry, token>>

\* Faulty variant: any token that has not expired will do.
FreshWithoutMargin(expiry) == cachedToken # None /\ now < expiry

Fresh(expiry) == cachedToken # None /\ now + Margin < expiry

UseCached(c) ==
    /\ At(c, "locked") /\ Fresh(cachedExpiry)
    /\ token' = [token EXCEPT ![c] = cachedToken]
    /\ mu' = None
    /\ Goto(c, "posting")
    /\ UNCHANGED <<now, asked, cachedToken, cachedExpiry>>

\* Faulty variant: the mutex is not held across the request.
AskUnlocked(c) ==
    /\ At(c, "locked") /\ ~Fresh(cachedExpiry)
    /\ asked' = now
    /\ mu' = None
    /\ Goto(c, "signing")
    /\ UNCHANGED <<now, cachedToken, cachedExpiry, token>>

AskWarden(c) ==
    /\ At(c, "locked") /\ ~Fresh(cachedExpiry)
    /\ asked' = now
    /\ Goto(c, "signing")
    /\ UNCHANGED <<now, mu, cachedToken, cachedExpiry, token>>

\* A missing expires_at decodes to 0, which time.Unix turns into 1970 and not
\* into the zero time that IsZero looks for.
DecodedExpiry(expiry) == IF ReportsExpiry THEN expiry ELSE 0

\* Warden signed the token at some time since it was asked.
Answered(c) ==
    /\ At(c, "signing")
    /\ \E signed \in asked .. now :
          /\ cachedToken' = signed + TTL
          /\ cachedExpiry' = DecodedExpiry(signed + TTL)
          /\ token' = [token EXCEPT ![c] = signed + TTL]
    /\ asked' = None /\ mu' = None
    /\ Goto(c, "posting")
    /\ UNCHANGED now

\* Faulty variant: the caller asks again, and again, with the mutex held.
SignRetries(c) ==
    /\ At(c, "signing")
    /\ asked' = None
    /\ Goto(c, "locked")
    /\ UNCHANGED <<now, mu, cachedToken, cachedExpiry, token>>

\* Warden refuses, the request times out, or the caller's context ends.
SignFails(c) ==
    /\ At(c, "signing")
    /\ asked' = None /\ mu' = None
    /\ Goto(c, "idle")
    /\ UNCHANGED <<now, cachedToken, cachedExpiry, token>>

\* WebHub accepts the notification or not: the client does not act on it.
Post(c) ==
    /\ At(c, "posting")
    /\ token' = [token EXCEPT ![c] = None]
    /\ Goto(c, "idle")
    /\ UNCHANGED <<now, mu, asked, cachedToken, cachedExpiry>>

\* The HTTP client gives up after Timeout.
Tick ==
    /\ now < Horizon
    /\ asked # None => now < asked + Timeout
    /\ now' = now + 1
    /\ UNCHANGED <<pc, mu, asked, cachedToken, cachedExpiry, token>>

\* What a goroutine that got the mutex does until it returns.
Proceed(c) == UseCached(c) \/ AskWarden(c) \/ Answered(c) \/ SignFails(c) \/ Post(c)

Next ==
    \/ \E c \in Callers : Notify(c) \/ Lock(c) \/ Proceed(c)
    \/ Tick

\* Goroutines run on, HTTP requests end by their timeout at the latest, and a
\* Go mutex passes nobody over for good.
Fairness == \A c \in Callers : SF_vars(Lock(c)) /\ WF_vars(Proceed(c))

Spec == Init /\ [][Next]_vars /\ Fairness

----------------------------------------------------------------------------
\* A token handed to a caller is good for the safety margin at least, however
\* long the caller waited for the mutex and the answer took.
HandedOutFresh ==
    [][\A c \in Callers : ~At(c, "posting") /\ At(c, "posting")' =>
          now + Margin < token'[c]]_vars

\* The token is cached for its duration: nobody asks Warden for another while
\* the cached one is good or one is already on its way (client.go:4-7).
AskedOncePerToken ==
    [][\A c \in Callers : ~At(c, "signing") /\ At(c, "signing")' =>
          /\ cachedToken # None => now + Margin >= cachedToken
          /\ \A d \in Callers : ~At(d, "signing")]_vars

\* Every Notify returns, although the mutex is held across requests that may
\* fail or time out, others join the line again and again, and a caller in line
\* does not hear of its own context's end (client.go:119-131).
NotifyReturns == \A c \in Callers : ~At(c, "idle") ~> At(c, "idle")
=============================================================================
