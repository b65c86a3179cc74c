---------------------------- MODULE TokenBuckets ----------------------------
(***************************************************************************)
(* What the rate limit promises: every caller has a bucket of its own that *)
(* starts full and refills with time, and a request is let in for a token. *)
(* Nothing is forgotten while the process runs.                            *)
(***************************************************************************)
EXTENDS Naturals

CONSTANTS Callers, Rps, Burst

VARIABLE tokens      \* caller -> tokens left

Least(a, b) == IF a < b THEN a ELSE b

Init == tokens = [c \in Callers |-> Burst]

Take(c) == tokens[c] > 0 /\ tokens' = [tokens EXCEPT ![c] = @ - 1]

\* One unit of time fills every bucket.
Refill == tokens' = [c \in Callers |-> Least(Burst, tokens[c] + Rps)]

\* A restart of the process fills them all.
Restart == tokens' = [c \in Callers |-> Burst]

Next == Refill \/ Restart \/ \E c \in Callers : Take(c)

Spec == Init /\ [][Next]_tokens
=============================================================================
