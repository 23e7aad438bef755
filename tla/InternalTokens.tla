--------------------------- MODULE InternalTokens ---------------------------
(***************************************************************************)
(* Internal JWTs from their signing in Warden (the Signer) to their        *)
(* verification in the hubs (the Verifier).  The signing key changes every *)
(* month and is derived on either side from its own clock.  What a token   *)
(* permits is in TokenIssuance.                                            *)
(*                                                                         *)
(* Time is counted in ticks.  A token is its times and the period of its   *)
(* key.                                                                    *)
(***************************************************************************)
EXTENDS Integers, FiniteSets

CONSTANTS
    Hubs,           \* verifiers
    Requests,       \* signing requests
    TTL,            \* InternalTTL, and the verifiers' TTL
    TTLs,           \* the lifetimes asked of the signer
    Skew,           \* ClockSkew
    Month,
    Horizon         \* bound on the time

ASSUME TimesAssumption ==
    /\ {TTL, Month} \cup TTLs \subseteq Nat \ {0} /\ Skew \in Nat
    /\ TTL + 2 * Skew < Month

VARIABLES
    now,            \* Warden's clock
    drift,          \* how far each hub's clock is ahead of Warden's
    signed,         \* the requests served
    tokens          \* the tokens signed so far

vars == <<now, drift, signed, tokens>>

TypeOK ==
    /\ now \in Nat
    /\ drift \in [Hubs -> -Skew .. Skew]
    /\ signed \subseteq Requests
    /\ tokens \subseteq [iat : Nat, exp : Nat, period : Nat]

Init ==
    /\ now = Month
    /\ drift \in [Hubs -> -Skew .. Skew]
    /\ signed = {}
    /\ tokens = {}

----------------------------------------------------------------------------
Period(t) == t \div Month

\* Faulty variants: the window forgets the skew, or never closes.
WindowWithoutSkew(t, window) == window > 0 /\ t % Month < window - Skew
WindowOpen(t, window) == window > 0

InPreviousPeriodWindow(t, window) == window > 0 /\ t % Month < window

SignatureMatches(t, token) ==
    \/ token.period = Period(t)
    \/ /\ InPreviousPeriodWindow(t, TTL + Skew)
       /\ token.period = Period(t) - 1

\* Exclusive instead of inclusive, as the neighbouring checks suggest.
ClaimsValidBefore(t, token) ==
    /\ t < token.exp + Skew
    /\ t + Skew > token.iat

ClaimsValid(t, token) ==
    /\ t <= token.exp + Skew
    /\ t + Skew >= token.iat

Clock(h) == now + drift[h]

Accepts(h, token) ==
    SignatureMatches(Clock(h), token) /\ ClaimsValid(Clock(h), token)

----------------------------------------------------------------------------
Tick ==
    /\ now < Horizon
    /\ now' = now + 1
    /\ UNCHANGED <<drift, signed, tokens>>

\* A hub's clock is set, forwards or backwards, within the skew.
AdjustClock(h) ==
    /\ \E d \in -Skew .. Skew : drift' = [drift EXCEPT ![h] = d]
    /\ UNCHANGED <<now, signed, tokens>>

Sign(r, ttl) ==
    /\ r \notin signed
    /\ signed' = signed \cup {r}
    /\ tokens' = tokens \cup {[iat |-> now, exp |-> now + ttl, period |-> Period(now)]}
    /\ UNCHANGED <<now, drift>>

Next ==
    \/ Tick
    \/ \E h \in Hubs : AdjustClock(h)
    \/ \E r \in Requests, ttl \in TTLs : Sign(r, ttl)

Spec == Init /\ [][Next]_vars

----------------------------------------------------------------------------
\* From signing to expiry every hub accepts a token, across the change of keys
\* too, if its clock keeps within the skew.  The exception is a hub that is
\* still in the month before the token's: it derives no key of the future
\* (verifier.go:124-129).
AcceptedWhileValid ==
    \A token \in tokens, h \in Hubs :
        /\ token.exp - token.iat <= TTL
        /\ now <= token.exp
        /\ Period(Clock(h)) >= token.period
        => Accepts(h, token)

\* The key of a month is of no use once the next month is older than the
\* boundary window, whatever lifetime a token was given
\* (signer_test.go:83, AcceptsPreviousPeriodOnlyInBoundaryWindow).
OldKeyRetires ==
    \A token \in tokens, h \in Hubs :
        now >= (token.period + 1) * Month + TTL + 2 * Skew => ~Accepts(h, token)
=============================================================================
