------------------------------- MODULE Mailbox -------------------------------
(***************************************************************************)
(* What a source of mail and its receiver promise each other.  The source  *)
(* keeps a message until it is acknowledged.  Under "handle first" a       *)
(* message is acknowledged only after it was handled and is never handled  *)
(* again afterwards; before, it may be handled any number of times.  Under *)
(* "acknowledge first" it is handled at most once, if at all.              *)
(***************************************************************************)
EXTENDS Naturals, Sequences, SequencesExt

CONSTANT MaxTaken      \* where the count of handlings stops

VARIABLES
    order,             \* "handle first" or "acknowledge first"
    taken,             \* how often each message was handled, in order of arrival
    acknowledged       \* the messages the source will not offer again

vars == <<order, taken, acknowledged>>

Messages == DOMAIN taken

Again(count) == IF count < MaxTaken THEN count + 1 ELSE count

Init ==
    /\ order \in {"handle first", "acknowledge first"}
    /\ taken = <<>>
    /\ acknowledged = {}

Arrive ==
    /\ taken' = Append(taken, 0)
    /\ UNCHANGED <<order, acknowledged>>

Handle(m) ==
    /\ IF order = "handle first"
         THEN m \notin acknowledged
         ELSE m \in acknowledged /\ taken[m] = 0
    /\ taken' = [taken EXCEPT ![m] = Again(@)]
    /\ UNCHANGED <<order, acknowledged>>

Acknowledge(S) ==
    /\ order = "handle first" => \A m \in S : taken[m] > 0
    /\ acknowledged' = acknowledged \cup S
    /\ UNCHANGED <<order, taken>>

\* A receiver that cannot read how far it was starts from the beginning.
Forget ==
    /\ order = "handle first"
    /\ acknowledged' = {}
    /\ UNCHANGED <<order, taken>>

Next ==
    \/ Arrive
    \/ \E m \in Messages : Handle(m)
    \/ \E S \in SUBSET Messages : Acknowledge(S)
    \/ Forget

Spec == Init /\ [][Next]_vars
==============================================================================
