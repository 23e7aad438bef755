------------------------ MODULE NotifyClient_proofs ------------------------
(***************************************************************************)
(* The token cache of NotifyClient, for any number of callers and any      *)
(* lifetime, margin and timeout.                                           *)
(***************************************************************************)
EXTENDS NotifyClient, TLAPS

\* Whoever looks at the cache or waits for Warden holds the mutex, and what
\* Warden is asked for is answered within the timeout.
MutexHeld ==
    /\ \A c \in Callers : pc[c] \in {"locked", "signing"} <=> mu = c
    /\ \A c \in Callers : At(c, "signing") =>
          asked \in Nat /\ asked <= now /\ now <= asked + Timeout

\* What the client takes for the expiry is the cached token's, or long past.
ExpiryKnown ==
    cachedToken # None => cachedExpiry = DecodedExpiry(cachedToken)

IInv == TypeOK /\ MutexHeld /\ ExpiryKnown

LEMMA InvInit == Init => IInv
  BY TimesAssumption DEF Init, IInv, TypeOK, MutexHeld, ExpiryKnown, At

LEMMA InvNext == IInv /\ [Next]_vars => IInv'
<1> SUFFICES ASSUME IInv, [Next]_vars PROVE IInv'
  OBVIOUS
<1> USE TimesAssumption DEF IInv, TypeOK, MutexHeld, ExpiryKnown, At, Goto
<1>1. ASSUME NEW c \in Callers, Notify(c) PROVE IInv'
  BY <1>1 DEF Notify
<1>2. ASSUME NEW c \in Callers, Lock(c) PROVE IInv'
  BY <1>2 DEF Lock
<1>3. ASSUME NEW c \in Callers, UseCached(c) PROVE IInv'
  BY <1>3 DEF UseCached, Fresh
<1>4. ASSUME NEW c \in Callers, AskWarden(c) PROVE IInv'
  BY <1>4 DEF AskWarden
<1>5. ASSUME NEW c \in Callers, Answered(c) PROVE IInv'
  BY <1>5 DEF Answered, DecodedExpiry
<1>6. ASSUME NEW c \in Callers, SignFails(c) PROVE IInv'
  BY <1>6 DEF SignFails
<1>7. ASSUME NEW c \in Callers, Post(c) PROVE IInv'
  BY <1>7 DEF Post
<1>8. CASE Tick
  BY <1>8 DEF Tick
<1>9. CASE UNCHANGED vars
  BY <1>9 DEF vars
<1> QED
  BY <1>1, <1>2, <1>3, <1>4, <1>5, <1>6, <1>7, <1>8, <1>9 DEF Next, Proceed

\* Cache, mutex and callers keep their shape, the mutex is held across the
\* request, and the expiry is the cached token's (Client.token).
THEOREM CacheInvariant == Spec => []IInv
  BY InvInit, InvNext, PTL DEF Spec

\* Whatever the server reports, a token handed out is good for the margin:
\* it comes fresh from Warden or its expiry was compared (Client.token).
THEOREM TokensHandedOutFresh == Spec => HandedOutFresh
<1>1. IInv /\ [Next]_vars =>
        [\A c \in Callers : ~At(c, "posting") /\ At(c, "posting")' =>
            now + Margin < token'[c]]_vars
  <2> SUFFICES ASSUME IInv, Next, NEW c \in Callers, ~At(c, "posting"), At(c, "posting")'
               PROVE  now + Margin < token'[c]
    OBVIOUS
  <2>1. UseCached(c) \/ Answered(c)
    BY DEF Next, Proceed, Notify, Lock, UseCached, AskWarden, Answered, SignFails, Post, Tick,
       IInv, TypeOK, At, Goto
  <2>2. CASE UseCached(c)
    BY <2>2, TimesAssumption DEF UseCached, Fresh, DecodedExpiry, IInv, TypeOK, ExpiryKnown
  <2>3. CASE Answered(c)
    BY <2>3, TimesAssumption DEF Answered, IInv, TypeOK, MutexHeld, At
  <2> QED
    BY <2>1, <2>2, <2>3
<1> QED
  BY CacheInvariant, <1>1, PTL DEF Spec, HandedOutFresh

\* With a server that reports the expiry a token is asked for once: one request
\* at a time, and none while the cached token is good (Client.token).
THEOREM TokenAskedOnce == ASSUME ReportsExpiry PROVE Spec => AskedOncePerToken
<1>1. IInv /\ [Next]_vars =>
        [\A c \in Callers : ~At(c, "signing") /\ At(c, "signing")' =>
            /\ cachedToken # None => now + Margin >= cachedToken
            /\ \A d \in Callers : ~At(d, "signing")]_vars
  <2> SUFFICES ASSUME IInv, Next, NEW c \in Callers, ~At(c, "signing"), At(c, "signing")'
               PROVE  /\ cachedToken # None => now + Margin >= cachedToken
                      /\ \A d \in Callers : ~At(d, "signing")
    OBVIOUS
  <2>1. AskWarden(c)
    BY DEF Next, Proceed, Notify, Lock, UseCached, AskWarden, Answered, SignFails, Post, Tick,
       IInv, TypeOK, At, Goto
  <2>2. \A d \in Callers : ~At(d, "signing")
    BY <2>1 DEF AskWarden, IInv, MutexHeld, At
  <2>3. cachedToken # None => now + Margin >= cachedToken
    BY <2>1, TimesAssumption DEF AskWarden, Fresh, DecodedExpiry, IInv, TypeOK, ExpiryKnown
  <2> QED
    BY <2>2, <2>3
<1> QED
  BY CacheInvariant, <1>1, PTL DEF Spec, AskedOncePerToken
=============================================================================
