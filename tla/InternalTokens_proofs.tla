----------------------- MODULE InternalTokens_proofs -----------------------
(***************************************************************************)
(* Verification of internal tokens across the monthly change of keys, for  *)
(* any lifetimes, skew and length of the month.                            *)
(***************************************************************************)
EXTENDS InternalTokens, TLAPS

\* A token's key is the one of the period it was signed in, which has begun.
SignedInPeriod ==
    \A token \in tokens : token.period = Period(token.iat) /\ token.iat <= now

IInv == TypeOK /\ SignedInPeriod

LEMMA Division ==
    ASSUME NEW t \in Int
    PROVE  /\ Period(t) \in Int /\ (t \in Nat => Period(t) \in Nat)
           /\ Month * Period(t) <= t /\ t < Month * Period(t) + Month
<1>1. Month \in Nat /\ Month > 0
  BY TimesAssumption
<1>2. t \div Month \in Int /\ t % Month \in Nat /\ t % Month < Month
  BY <1>1
<1>3. t = Month * (t \div Month) + (t % Month)
  BY <1>1
<1>4. t \in Nat => t \div Month \in Nat
  BY <1>1
<1> QED
  BY <1>1, <1>2, <1>3, <1>4 DEF Period

\* Where a time lies in the months tells its period and its distance from the
\* start of it.
LEMMA PeriodOf ==
    ASSUME NEW t \in Int, NEW p \in Int,
           Month * p <= t, t < Month * p + Month
    PROVE  Period(t) = p /\ t % Month = t - Month * p
<1> DEFINE r == t - Month * p
<1>1. Month \in Nat /\ Month > 0
  BY TimesAssumption
<1>2. r \in Nat /\ r < Month /\ t = Month * p + r
  BY <1>1
<1>3. t % Month = r /\ t \div Month = p
  <2> HIDE DEF r
  <2> QED
    BY <1>1, <1>2, SMTT(30)
<1> QED
  BY <1>3 DEF Period

LEMMA InvInit == Init => IInv
<1>1. Month \in Nat
  BY TimesAssumption
<1> QED
  BY <1>1 DEF Init, IInv, TypeOK, SignedInPeriod

LEMMA InvNext == IInv /\ [Next]_vars => IInv'
<1> SUFFICES ASSUME IInv, [Next]_vars PROVE IInv'
  OBVIOUS
<1> USE DEF IInv, TypeOK, SignedInPeriod
<1>1. CASE Tick
  BY <1>1 DEF Tick
<1>2. ASSUME NEW h \in Hubs, AdjustClock(h) PROVE IInv'
  BY <1>2 DEF AdjustClock
<1>3. ASSUME NEW r \in Requests, NEW ttl \in TTLs, Sign(r, ttl) PROVE IInv'
  <2> DEFINE token == [iat |-> now, exp |-> now + ttl, period |-> Period(now)]
  <2>1. ttl \in Nat /\ Period(now) \in Nat
    BY TimesAssumption, Division
  <2>2. token \in [iat : Nat, exp : Nat, period : Nat]
    BY <2>1
  <2>3. token.period = Period(token.iat) /\ token.iat <= now
    OBVIOUS
  <2>4. /\ tokens' = tokens \cup {token} /\ UNCHANGED <<now, drift>>
        /\ signed' \subseteq Requests
    BY <1>3 DEF Sign
  <2> HIDE DEF token
  <2> QED
    BY <2>2, <2>3, <2>4
<1>4. CASE UNCHANGED vars
  BY <1>4 DEF vars
<1> QED
  BY <1>1, <1>2, <1>3, <1>4 DEF Next

\* A hub that is past the token's month at the latest when the token expires is
\* at most TTL and Skew into the next one, which is still the window.
LEMMA InvAccepts == IInv => AcceptedWhileValid
<1> SUFFICES ASSUME IInv, NEW token \in tokens, NEW h \in Hubs,
                    token.exp - token.iat <= TTL, now <= token.exp,
                    Period(Clock(h)) >= token.period
             PROVE  Accepts(h, token)
  BY DEF AcceptedWhileValid
<1> DEFINE t == Clock(h)
           p == token.period
<1>1. /\ token.iat \in Nat /\ token.exp \in Nat /\ p \in Nat
      /\ p = Period(token.iat) /\ token.iat <= now
  BY DEF IInv, TypeOK, SignedInPeriod
<1>2. /\ TTL \in Nat /\ TTL > 0 /\ Skew \in Nat
      /\ Month \in Nat /\ Month > 0 /\ TTL + Skew < Month
  <2>1. TTL \in Nat /\ TTL > 0 /\ Skew \in Nat /\ Month \in Nat /\ Month > 0
    BY TimesAssumption
  <2>2. TTL + 2 * Skew < Month
    BY TimesAssumption
  <2> QED
    BY <2>1, <2>2
<1>3. now \in Nat /\ drift[h] \in Int /\ -Skew <= drift[h] /\ drift[h] <= Skew
  BY <1>2 DEF IInv, TypeOK
<1>4. t \in Int /\ t <= token.exp + Skew /\ t + Skew >= token.iat
  BY <1>1, <1>2, <1>3 DEF Clock
<1>5. ClaimsValid(t, token)
  BY <1>4 DEF ClaimsValid
<1>6. SignatureMatches(t, token)
  <2>1. Month * p <= token.iat /\ token.iat < Month * p + Month
    BY <1>1, Division
  <2>2. t < Month * p + Month + TTL + Skew
    BY <1>1, <1>2, <1>4, <2>1
  <2>3. Month * p \in Nat /\ Month * (p + 1) = Month * p + Month
    BY <1>1, <1>2
  <2>4. ~ t < Month * p
    <3> SUFFICES ASSUME t < Month * p PROVE FALSE
      OBVIOUS
    <3>1. Period(t) \in Int /\ Month * Period(t) <= t
      BY <1>4, Division
    <3>2. Month * p <= Month * Period(t)
      BY <1>1, <1>2, <3>1
    <3> QED
      BY <1>1, <1>2, <1>4, <3>1, <3>2
  <2>5. CASE t < Month * p + Month
    <3>1. Period(t) = p
      BY <1>1, <1>2, <1>4, <2>3, <2>4, <2>5, PeriodOf
    <3> QED
      BY <3>1 DEF SignatureMatches
  <2>6. CASE ~ t < Month * p + Month
    <3>1. Month * (p + 1) <= t /\ t < Month * (p + 1) + Month
      BY <1>2, <1>4, <2>2, <2>3, <2>6
    <3>2. Period(t) = p + 1 /\ t % Month = t - Month * (p + 1)
      BY <1>1, <1>4, <3>1, PeriodOf
    <3>3. InPreviousPeriodWindow(t, TTL + Skew)
      BY <1>2, <1>4, <2>2, <2>3, <3>2 DEF InPreviousPeriodWindow
    <3> QED
      BY <1>1, <3>2, <3>3 DEF SignatureMatches
  <2> QED
    BY <2>5, <2>6
<1> QED
  BY <1>5, <1>6 DEF Accepts

\* The key of a month opens nothing once the next month is older than the
\* window by every clock.
LEMMA InvRetires == IInv => OldKeyRetires
<1> SUFFICES ASSUME IInv, NEW token \in tokens, NEW h \in Hubs,
                    now >= (token.period + 1) * Month + TTL + 2 * Skew
             PROVE  ~SignatureMatches(Clock(h), token)
  BY DEF OldKeyRetires, Accepts
<1> DEFINE t == Clock(h)
           p == token.period
<1>1. p \in Nat
  BY DEF IInv, TypeOK
<1>2. TTL \in Nat /\ TTL > 0 /\ Skew \in Nat /\ Month \in Nat /\ Month > 0
  BY TimesAssumption
<1>3. now \in Nat /\ drift[h] \in Int /\ -Skew <= drift[h]
  BY <1>2 DEF IInv, TypeOK
<1>4. /\ (p + 1) * Month = Month * (p + 1) /\ Month * (p + 1) \in Nat
      /\ Month * (p + 1) = Month * p + Month
  BY <1>1, <1>2
<1>5. t \in Int /\ t >= Month * (p + 1) + TTL + Skew
  BY <1>2, <1>3, <1>4 DEF Clock
<1>6. Period(t) # p
  <2>1. Period(t) = p => t < Month * p + Month
    BY <1>1, <1>5, Division
  <2> QED
    BY <1>2, <1>4, <1>5, <2>1
<1>7. ~(Period(t) = p + 1 /\ t % Month < TTL + Skew)
  <2> SUFFICES ASSUME Period(t) = p + 1 PROVE ~ t % Month < TTL + Skew
    OBVIOUS
  <2>1. Month * (p + 1) <= t /\ t < Month * (p + 1) + Month
    BY <1>1, <1>5, Division
  <2>2. t % Month = t - Month * (p + 1)
    BY <1>1, <1>5, <2>1, PeriodOf
  <2> QED
    BY <1>2, <1>4, <1>5, <2>2
<1>8. Period(t) \in Int
  BY <1>5, Division
<1> QED
  BY <1>1, <1>6, <1>7, <1>8 DEF SignatureMatches, InPreviousPeriodWindow

\* Tokens, requests and clocks keep their shape, and a token's key is the one of
\* the period it was signed in (Signer.Sign).
THEOREM TokensInvariant == Spec => []IInv
  BY InvInit, InvNext, PTL DEF Spec

\* Every hub whose clock is within the skew accepts a token until it expires,
\* also when the key changes in between, unless the hub has not reached the
\* token's month (Verifier.verifyClaims).
THEOREM ValidTokensAccepted == Spec => []AcceptedWhileValid
  BY TokensInvariant, InvAccepts, PTL

\* No token of an old month's key is accepted after the boundary window,
\* whatever its lifetime (InPreviousPeriodWindow).
THEOREM OldKeysRetire == Spec => []OldKeyRetires
  BY TokensInvariant, InvRetires, PTL
=============================================================================
