------------------------------ MODULE Receivers ------------------------------
(***************************************************************************)
(* The receivers ingest.Manager starts, each in a goroutine of its own.    *)
(* They share nothing but the analyzer, so one of them, chosen at the      *)
(* start, is looked at.  A receiver whose Run returns is not started       *)
(* again until the process is.                                             *)
(***************************************************************************)
EXTENDS TelegramReceiver, GraphReceiver, ImapReceiver

vars == <<intakeVars, telegramVars, graphVars, imapVars>>

Init == IntakeInit /\ TelegramInit /\ GraphInit /\ ImapInit

Works ==
    \/ TelegramWorks /\ UNCHANGED <<graphVars, imapVars>>
    \/ GraphWorks /\ UNCHANGED <<telegramVars, imapVars>>
    \/ ImapWorks /\ UNCHANGED <<telegramVars, graphVars>>

Environment ==
    \/ (TelegramEnters \/ TelegramRestarts) /\ UNCHANGED <<graphVars, imapVars>>
    \/ (GraphEnters \/ GraphRestarts) /\ UNCHANGED <<telegramVars, imapVars>>
    \/ (ImapEnters \/ OthersExpunge \/ ImapRestarts) /\ UNCHANGED <<telegramVars, graphVars>>

Next == Works \/ Environment

\* A goroutine that can go on does; nobody has to send or to restart.
Spec == Init /\ [][Next]_vars /\ WF_vars(Works)

-----------------------------------------------------------------------------
TypeOK ==
    /\ channel \in {"telegram", "graph", "imap"}
    /\ kind \in Seq(Kinds)
    /\ taken \in [Messages -> 0..MaxTaken]
    /\ filed \in [Messages -> SUBSET Orgs]
    /\ pc \in CASE channel = "telegram" -> {"idle", "working", "stopped"}
                [] channel = "graph" -> {"idle", "working", "paging", "saving", "stopped"}
                [] channel = "imap" -> {"idle", "working", "marking", "moving"}
    /\ trouble \in 0..MaxTrouble /\ restarts \in 0..MaxRestarts
    /\ offset \in 0..Len(kind) + 1 /\ confirmed \in 0..Len(kind) + 1
    /\ binding \in Orgs \cup {NoOrg}
    /\ keepsState \in BOOLEAN /\ movesProcessed \in BOOLEAN
    /\ link \in 0..Len(kind) /\ saved \in 0..Len(kind)
    /\ page \in [to : 0..Len(kind), more : BOOLEAN]
    /\ folder \in Seq(Messages) /\ view \in Seq(Messages)
    /\ seen \subseteq Messages /\ moved \subseteq Messages /\ read \subseteq Messages
    /\ inHand \in Seq(IF channel = "imap" THEN DOMAIN view ELSE Messages)
    /\ expunges \in 0..MaxExpunges
    /\ sent \in 0..Len(inHand)
    /\ processed \subseteq DOMAIN view

\* What each source will not offer again.
Acknowledged ==
    CASE channel = "telegram" -> {m \in Messages : m < confirmed}
      [] channel = "graph" -> {m \in Messages : m <= saved /\ m <= link /\ kind[m] # "gone"}
      [] channel = "imap" -> seen

Mail == INSTANCE Mailbox WITH
    order <- IF channel = "imap" THEN "acknowledge first" ELSE "handle first",
    acknowledged <- Acknowledged

\* Telegram's updates and Graph's messages are handled before they are
\* acknowledged and never after it; mail fetched over IMAP is handled at most
\* once: offsets, delta links and flags through failures and restarts.
ImplementsMailbox == Mail!Spec

\* A chat's mail is analysed for the organisation its last "/start" before
\* it named, also when updates are delivered again to a restarted bot whose
\* bindings are lost (telegram.go, handleUpdate).
Starts(m) == {s \in 1..m : kind[s] \in Orgs}

AnalysedForItsChat ==
    channel = "telegram" =>
        \A m \in Messages, org \in Orgs :
            org \in filed[m] =>
                \E s \in Starts(m) : kind[s] = org /\ \A t \in Starts(m) : t <= s

\* Everything before Graph's delta link has a verdict and is marked as read:
\* no failure between the two, on no page, loses a message (graph.go, poll).
LinkLeavesNothingBehind ==
    \A m \in 1..link : kind[m] # "gone" => filed[m] # {} /\ m \in read

\* A message is handled again only after a failure or a restart, each of
\* which may cost one repetition, or while a message that cannot be handled
\* holds up the page it is on.
RepetitionHasACause ==
    \A m \in Messages :
        \/ taken[m] <= 1 + trouble + restarts
        \/ channel = "graph" /\ \E k \in m..Len(kind) : kind[k] = "bad"

\* Only analysed mail ends up in the processed folder, unless another client
\* removed messages while the numbers were in use (imap.go, poll).
MovedWasAnalysed == \A m \in moved : filed[m] # {} \/ expunges > 0

\* Where a receiver can get no further on its own.
Blocked(m) ==
    \/ pc = "stopped"
    \/ channel = "telegram" /\ pc = "idle" /\ ~Fits(Waiting(Confirmed(offset)))
    \/ channel = "graph" /\ \E k \in link + 1..m - 1 : kind[k] = "bad"

\* The source has nothing left to do with the message.
Settled(m) ==
    CASE channel = "telegram" -> taken[m] > 0
      [] channel = "graph" -> taken[m] > 0 \/ kind[m] = "gone"
      [] channel = "imap" -> m \in seen \/ m \notin Range(folder)

\* A message that arrives is taken up, or the receiver is stopped or held
\* up by a reply it cannot read or by a message it cannot handle before it.
NoMessageWaitsForEver ==
    \A m \in 1..MaxMessages : (m \in Messages) ~> (m \in Messages /\ (Settled(m) \/ Blocked(m)))
==============================================================================
