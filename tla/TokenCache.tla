----------------------------- MODULE TokenCache ------------------------------
(***************************************************************************)
(* The access tokens of one Drive client (src-tauri/src/drive: jwt.rs, and *)
(* the requests of ledger.rs).  Requests overlap; each reads the clock     *)
(* once, takes the cached token or exchanges an assertion for a new one,   *)
(* with the lock released meanwhile, and sends its request with it.        *)
(***************************************************************************)
EXTENDS Naturals

CONSTANTS
    Requests,
    Lifetime,   \* TOKEN_LIFETIME_SECS, and how long Google honours a token
    Margin,     \* what must be left of a cached token (300 s)
    MaxDelay,   \* from reading the clock to Google's reading the token:
                \* the timeouts of the exchange and the request (20 s and 30 s)
    MaxTime,    \* bound on the clock
    NoToken

VARIABLES
    time,
    slot,       \* TokenCache.inner
    request     \* what each request does next, and has

ASSUME TokenAssumption ==
    /\ {Lifetime, Margin, MaxDelay, MaxTime} \subseteq Nat
    /\ MaxDelay <= Margin /\ Margin < Lifetime

tokenVars == <<time, slot, request>>

Token == [issued: 0..MaxTime]
Cached == [token: Token, expires: 0..(MaxTime + Lifetime)]
Waiting == [step |-> "idle", now |-> 0, token |-> NoToken]

TokenTypeOK ==
    /\ time \in 0..MaxTime
    /\ slot \in Cached \cup {NoToken}
    /\ request \in [Requests -> [step: {"idle", "cached", "exchange", "store", "send"},
                                 now: 0..MaxTime, token: Token \cup {NoToken}]]

TokenInit == time = 0 /\ slot = NoToken /\ request = [r \in Requests |-> Waiting]

\* No request outlives its timeouts.
TokenTick ==
    /\ time < MaxTime
    /\ \A r \in Requests: request[r].step # "idle" => time < request[r].now + MaxDelay
    /\ time' = time + 1
    /\ UNCHANGED <<slot, request>>

NowUnix(r) ==
    /\ request[r].step = "idle"
    /\ request' = [request EXCEPT ![r] = [Waiting EXCEPT !.step = "cached", !.now = time]]
    /\ UNCHANGED <<time, slot>>

\* Mutant: a cached token is used until it expires.
UsableToTheEnd(cached, t) == cached # NoToken /\ cached.expires > t

Usable(cached, t) == cached # NoToken /\ cached.expires > t + Margin

LookUpToken(r) ==
    /\ request[r].step = "cached"
    /\ request' = [request EXCEPT ![r] =
          IF Usable(slot, request[r].now)
          THEN [@ EXCEPT !.step = "send", !.token = slot.token]
          ELSE [@ EXCEPT !.step = "exchange"]]
    /\ UNCHANGED <<time, slot>>

\* Mutant: the body of a refused exchange is read as a token.
AfterExchangeUnchecked(c) ==
    {[c EXCEPT !.step = "store", !.token = t] : t \in {[issued |-> time], NoToken}}

\* access_token: a token comes back, or the assertion is refused.
AfterExchange(c) == {[c EXCEPT !.step = "store", !.token = [issued |-> time]], Waiting}

Exchange(r) ==
    /\ request[r].step = "exchange"
    /\ \E c \in AfterExchange(request[r]): request' = [request EXCEPT ![r] = c]
    /\ UNCHANGED <<time, slot>>

\* Counted from the clock as it was before the exchange.
Expiry(t) == t + Lifetime

StoreToken(r) ==
    /\ request[r].step = "store"
    /\ slot' = [token |-> request[r].token, expires |-> Expiry(request[r].now)]
    /\ request' = [request EXCEPT ![r].step = "send"]
    /\ UNCHANGED time

\* A refused token stays in the cache: nothing calls invalidate.
SendRequest(r) ==
    /\ request[r].step = "send"
    /\ request' = [request EXCEPT ![r] = Waiting]
    /\ UNCHANGED <<time, slot>>

TokenNext ==
    \/ TokenTick
    \/ \E r \in Requests: \/ NowUnix(r) \/ LookUpToken(r) \/ Exchange(r)
                          \/ StoreToken(r) \/ SendRequest(r)

TokenSpec == TokenInit /\ [][TokenNext]_tokenVars

-----------------------------------------------------------------------------
\* Google never sees an expired token, however requests overlap and whichever
\* of two exchanged tokens ends up in the cache. (get_or_refresh, cached)
SentTokensAreFresh ==
    \A r \in Requests:
        request[r].step = "send" => time < request[r].token.issued + Lifetime
=============================================================================
