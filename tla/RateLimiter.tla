---------------------------- MODULE RateLimiter ----------------------------
(***************************************************************************)
(* The token buckets of internal/httpapi/auth.go.  A bucket is made when a *)
(* caller is first seen and, once there are too many, dropped again when   *)
(* its caller has been quiet for ten minutes.                              *)
(***************************************************************************)
EXTENDS Naturals, FiniteSets

CONSTANTS
    Callers,       \* key ids, "oidc:" subjects and "ip:" addresses
    Rps,           \* server.rate_limit_rps, tokens per unit of time
    Burst,         \* int(rps*4)+1: at a quarter per second, two of them
    Capacity,      \* buckets kept without looking for idle ones (10000)
    Idle,          \* time after which a bucket may be dropped
    MaxTime        \* bound: the last instant looked at

\* Ten minutes fill any bucket, unless the rate is next to nothing.
ASSUME LimiterAssumption ==
    /\ Rps \in Nat \ {0} /\ Burst \in Nat \ {0} /\ Capacity \in Nat /\ MaxTime \in Nat
    /\ Idle \in Nat /\ Rps * Idle >= Burst

VARIABLES
    now,
    buckets        \* caller -> [tokens, at, seen] of the buckets there are

limiterVars == <<now, buckets>>

-----------------------------------------------------------------------------
NoBuckets == [c \in {} |-> [tokens |-> 0, at |-> 0]]

LimiterInit == now = 0 /\ buckets = NoBuckets

Lower(a, b) == IF a < b THEN a ELSE b

\* rate.Limiter counts the time since it was last asked.
Filled(b) == Lower(Burst, b.tokens + Rps * (now - b.at))

\* Fault: the oldest buckets are dropped whatever was seen of them.
DropAny(kept) == IF Cardinality(DOMAIN kept) <= Capacity THEN kept ELSE NoBuckets

DropIdle(kept) ==
    IF Cardinality(DOMAIN kept) <= Capacity THEN kept
    ELSE [c \in {d \in DOMAIN kept : kept[d].at + Idle >= now} |-> kept[c]]

\* rateLimiter.get, and what Allow finds in the bucket it returns.
Got(c) ==
    LET kept == DropIdle(buckets) IN
    [d \in DOMAIN kept \cup {c} |->
        IF d # c THEN kept[d]
        ELSE [tokens |-> IF c \in DOMAIN kept THEN Filled(kept[c]) ELSE Burst, at |-> now]]

Allowed(c) == Got(c)[c].tokens > 0

\* A token is taken only where there is one; the caller counts as seen anyway.
Allow(c) ==
    /\ buckets' = [Got(c) EXCEPT ![c].tokens = IF @ > 0 THEN @ - 1 ELSE 0]
    /\ UNCHANGED now

Tick == now < MaxTime /\ now' = now + 1 /\ UNCHANGED buckets

-----------------------------------------------------------------------------
\* A caller without a bucket would get a full one.
Tokens == [c \in Callers |-> IF c \in DOMAIN buckets THEN Filled(buckets[c]) ELSE Burst]

Unforgetting == INSTANCE TokenBuckets WITH tokens <- Tokens

\* Dropping idle buckets lets nobody in more often than keeping them all
\* would (auth.go, rateLimiter.get).
ImplementsTokenBuckets == Unforgetting!Spec
=============================================================================
