----------------------------- MODULE RateLimits -----------------------------
(***************************************************************************)
(* The two rate limiters, both a key of Redis per client: the request      *)
(* counter of project 02 (internal/ratelimit/limiter.go) and the token     *)
(* bucket of project 03 (internal/redis/ratelimit.go), a Lua script that   *)
(* is given the clock of the API replica that calls it.                    *)
(*                                                                         *)
(* Tokens are counted in Minute-ths: a bucket of Limit calls holds Limit * *)
(* Minute of them, gains Limit per second and pays Minute per call.        *)
(***************************************************************************)
EXTENDS Integers, Sequences, FiniteSets

CONSTANTS Limit,         \* calls per window, and per minute
          WindowLength,  \* of the counter, in seconds
          Minute,        \* 60 in the code
          Skews,         \* how far the second replica's clock is behind
          MaxSeconds, MaxCalls

ASSUME LimitsAssumption ==
    /\ Limit \in Nat /\ WindowLength \in Nat /\ Minute \in Nat /\ Skews \subseteq Nat
    /\ MaxSeconds \in Nat /\ MaxCalls \in Nat

VARIABLES seconds, counter, bucket, skew, calls

limitVars == <<seconds, counter, bucket, skew, calls>>

Full == Limit * Minute
Expiry == 2 * Minute     \* EXPIRE key 120

LimitsStart(skews) ==
    /\ seconds = 1
    /\ counter = [n |-> 0, expires |-> 0]
    /\ bucket = [tokens |-> Full, ts |-> 0, expires |-> 0]
    /\ skew \in skews
    /\ calls = [counter |-> <<>>, bucket |-> <<>>]

LimitsInit == LimitsStart(Skews)

SecondPasses ==
    /\ seconds < MaxSeconds
    /\ seconds' = seconds + 1
    /\ UNCHANGED <<counter, bucket, skew, calls>>

\* INCR, and EXPIRE whatever the outcome: a refused call restarts the window.
Incr(now) == IF now < counter.expires THEN counter.n + 1 ELSE 1

AllowCounted ==
    /\ calls.bucket = <<>>     \* a client of the one or of the other project
    /\ Len(calls.counter) < MaxCalls
    /\ counter' = [n |-> Incr(seconds), expires |-> seconds + WindowLength]
    /\ calls' = [calls EXCEPT !.counter = Append(@, [at |-> seconds, allowed |-> Incr(seconds) <= Limit])]
    /\ UNCHANGED <<seconds, bucket, skew>>

\* Mutant: the refill is not capped at the size of the bucket.
RefilledUncapped(now) ==
    IF seconds >= bucket.expires THEN Full
    ELSE bucket.tokens + (IF now > bucket.ts THEN now - bucket.ts ELSE 0) * Limit

\* The script: refill for the time since ts, pay, and store now as ts even when
\* it is behind the ts another replica stored.
Refilled(now) ==
    IF seconds >= bucket.expires THEN Full
    ELSE LET elapsed == IF now > bucket.ts THEN now - bucket.ts ELSE 0
             tokens == bucket.tokens + elapsed * Limit
         IN IF tokens > Full THEN Full ELSE tokens

AllowTokens(behind) ==
    /\ calls.counter = <<>>
    /\ Len(calls.bucket) < MaxCalls
    /\ LET now == seconds - behind
           tokens == Refilled(now)
           allowed == tokens >= Minute
       IN /\ bucket' = [tokens |-> IF allowed THEN tokens - Minute ELSE tokens,
                        ts |-> now, expires |-> seconds + Expiry]
          /\ calls' = [calls EXCEPT !.bucket = Append(@, [at |-> seconds, allowed |-> allowed])]
    /\ UNCHANGED <<seconds, counter, skew>>

LimitsNext ==
    \/ SecondPasses \/ AllowCounted
    \/ \E behind \in {0, skew} : AllowTokens(behind)

LimitsSpec == LimitsInit /\ [][LimitsNext]_limitVars

(***************************************************************************)
(* Properties.                                                             *)
(***************************************************************************)
AllowedIn(seq, i, j) == Cardinality({k \in i .. j : seq[k].allowed})

\* No window sees more than Limit calls of a client let through; and a client
\* that is refused stays refused while it calls again within a window, since
\* the refused call restarts it.
CounterBounds ==
    LET c == calls.counter
    IN \A i, j \in DOMAIN c : i < j =>
          /\ c[j].at < c[i].at + WindowLength => AllowedIn(c, i, j) <= Limit
          /\ j = i + 1 /\ ~c[i].allowed /\ c[j].at < c[i].at + WindowLength => ~c[j].allowed

\* Between two moments the bucket lets no more calls through than it holds and
\* gains, plus the skew of the replicas' clocks once per call: ts moves back with
\* the slower clock and the same seconds are paid out again.  Letting the key
\* expire after two minutes gives nothing away: a bucket is full after one.
BucketBounds ==
    LET b == calls.bucket
    IN \A i, j \in DOMAIN b : i <= j =>
          AllowedIn(b, i, j) * Minute <= Full + Limit * (b[j].at - b[i].at + skew * (j - i))

\* What the run checks of the two limiters (limiter.go, ratelimit.go).
LimitsSound == CounterBounds /\ BucketBounds
=============================================================================
