-------------------------------- MODULE Intake -------------------------------
(***************************************************************************)
(* What the receivers of internal/ingest share: the messages their source  *)
(* has been sent, what the analyzer was given of them, and the step of the *)
(* one goroutine ingest.Manager starts.  Messages are numbered as they     *)
(* arrive.  The analyzer (app.Analyzer) answers or fails.                  *)
(***************************************************************************)
EXTENDS Naturals, Sequences, SequencesExt, FiniteSets

CONSTANTS
    Orgs,              \* organisations a chat can be bound to
    NoOrg,             \* a chat that is bound to none
    MaxMessages, MaxTrouble, MaxRestarts, MaxTaken     \* bounds

\* An organisation is no kind of message.
ASSUME OrgsAssumption ==
    /\ Orgs # {} /\ NoOrg \notin Orgs
    /\ Orgs \cap {"mail", "long", "other"} = {}
ASSUME BoundsAssumption ==
    {MaxMessages, MaxTrouble, MaxRestarts} \subseteq Nat /\ MaxTaken \in Nat \ {0}

VARIABLES
    channel,           \* which of the three receivers is looked at
    kind,              \* what each message is
    taken,             \* how often a receiver set out to handle it
    filed,             \* the organisations it was analysed for
    pc,                \* where the receiver's Run stands
    inHand,            \* the messages of the current poll still to be handled
    trouble,           \* failures of the network, the source or the analyzer
    restarts           \* restarts of the process

intakeVars == <<channel, kind, taken, filed, pc, inHand, trouble, restarts>>

Messages == DOMAIN kind

\* The organisation an IMAP or Graph receiver is configured with.
Home == CHOOSE org \in Orgs : TRUE

\* What may arrive: "long" is a text of a size that few fit in one reply,
\* an organisation is "/start <organisation>", "other" is a sticker or an
\* update without a message; "bad" mail is over 25 MiB or cannot be parsed,
\* "gone" is the feed's note of a removed message.
Kinds ==
    CASE channel = "telegram" -> {"mail", "long", "other"} \cup Orgs
      [] channel = "graph"    -> {"mail", "bad", "gone"}
      [] channel = "imap"     -> {"mail", "bad"}

IntakeInit ==
    /\ channel \in {"telegram", "graph", "imap"}
    /\ kind = <<>> /\ taken = <<>> /\ filed = <<>>
    /\ pc = "idle"
    /\ inHand = <<>>
    /\ trouble = 0 /\ restarts = 0

\* A message reaches the source.
Enters ==
    /\ Len(kind) < MaxMessages
    /\ \E k \in Kinds : kind' = Append(kind, k)
    /\ taken' = Append(taken, 0)
    /\ filed' = Append(filed, {})
    /\ UNCHANGED <<channel, pc, inHand, trouble, restarts>>

Trouble ==
    /\ trouble < MaxTrouble
    /\ trouble' = trouble + 1

\* The receiver sets out to handle m.
Takes(m) ==
    taken' = [taken EXCEPT ![m] = IF @ < MaxTaken THEN @ + 1 ELSE @]

\* The analyzer stores a verdict on m for an organisation.
Files(m, org) == filed' = [filed EXCEPT ![m] = @ \cup {org}]

\* The process ends, crashed or shut down, and starts again.
Restarts ==
    /\ restarts < MaxRestarts
    /\ restarts' = restarts + 1
    /\ pc' = "idle"
    /\ inHand' = <<>>
    /\ UNCHANGED <<channel, kind, taken, filed>>
==============================================================================
