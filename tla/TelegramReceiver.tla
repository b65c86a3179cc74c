-------------------------- MODULE TelegramReceiver ---------------------------
(***************************************************************************)
(* internal/ingest/telegram: long polling with an offset.  The server      *)
(* forgets the updates below an offset as soon as it is asked for it, and  *)
(* keeps the others.  Offset and chat binding live in memory.  One chat is *)
(* modelled: chats share nothing but the offset.                           *)
(***************************************************************************)
EXTENDS Intake

CONSTANT ReplyLimit    \* long updates that fit in the 1 MiB the client reads

ASSUME ReplyAssumption == ReplyLimit \in Nat

VARIABLES
    offset,            \* the next update to ask for, 0 at the start
    confirmed,         \* the highest offset the server has been asked for
    binding            \* the chat's organisation

telegramVars == <<offset, confirmed, binding>>

TelegramInit ==
    /\ offset = 0
    /\ confirmed = 0
    /\ binding = NoOrg

-----------------------------------------------------------------------------
\* The server confirms what lies below the offset it is asked for.
Confirmed(asked) == IF asked > confirmed THEN asked ELSE confirmed

\* The updates it then holds, in order.
Waiting(from) == SubSeq([m \in Messages |-> m], IF from = 0 THEN 1 ELSE from, Len(kind))

\* The client reads 1 MiB of a reply and cannot decode a longer one.
Fits(updates) == Len(SelectSeq(updates, LAMBDA m : kind[m] = "long")) <= ReplyLimit

TelegramEnters == channel = "telegram" /\ Enters /\ UNCHANGED telegramVars

GetUpdates ==
    /\ channel = "telegram" /\ pc = "idle"
    /\ confirmed' = Confirmed(offset)
    /\ Fits(Waiting(confirmed'))
    /\ inHand' = Waiting(confirmed')
    /\ pc' = IF inHand' = <<>> THEN "idle" ELSE "working"
    /\ UNCHANGED <<channel, kind, taken, filed, trouble, restarts, offset, binding>>

\* An error: wait a second and ask again.  The request may have arrived.
GetUpdatesFails ==
    /\ channel = "telegram" /\ pc = "idle"
    /\ confirmed' \in {confirmed, Confirmed(offset)}
    /\ \/ ~Fits(Waiting(confirmed')) /\ UNCHANGED trouble
       \/ Trouble
    /\ UNCHANGED <<channel, kind, taken, filed, pc, inHand, restarts, offset, binding>>

\* The client's own timeout reads as context.DeadlineExceeded: Run returns.
GetUpdatesTimesOut ==
    /\ channel = "telegram" /\ pc = "idle"
    /\ Trouble
    /\ confirmed' \in {confirmed, Confirmed(offset)}
    /\ pc' = "stopped"
    /\ UNCHANGED <<channel, kind, taken, filed, inHand, restarts, offset, binding>>

-----------------------------------------------------------------------------
\* Fault: the update after this one is taken for handled too.
OffsetTooFar(u) == IF u >= offset THEN u + 2 ELSE offset

OffsetAfter(u) == IF u >= offset THEN u + 1 ELSE offset

\* "/start <organisation>" binds the chat; mail of a bound chat is analysed
\* for its organisation; anything else is only answered.  What fails (the
\* photo's download, the analyzer) is answered too, and not tried again.
HandleUpdate ==
    /\ channel = "telegram" /\ pc = "working"
    /\ LET u == Head(inHand) IN
         /\ offset' = OffsetAfter(u)
         /\ Takes(u)
         /\ \/ /\ kind[u] \in Orgs
               /\ binding' = kind[u]
               /\ UNCHANGED <<filed, trouble>>
            \/ /\ kind[u] \in {"mail", "long"} /\ binding # NoOrg
               /\ Files(u, binding)
               /\ UNCHANGED <<binding, trouble>>
            \/ /\ kind[u] \in {"mail", "long"} /\ binding # NoOrg
               /\ Trouble
               /\ UNCHANGED <<binding, filed>>
            \/ /\ kind[u] \in {"mail", "long"} => binding = NoOrg
               /\ kind[u] \notin Orgs
               /\ UNCHANGED <<binding, filed, trouble>>
    /\ inHand' = Tail(inHand)
    /\ pc' = IF inHand' = <<>> THEN "idle" ELSE "working"
    /\ UNCHANGED <<channel, kind, restarts, confirmed>>

\* Fault: the chat's binding survives the process, the offset does not.
RestartsBound ==
    /\ channel = "telegram"
    /\ Restarts
    /\ offset' = 0
    /\ UNCHANGED <<trouble, confirmed, binding>>

TelegramRestarts ==
    /\ channel = "telegram"
    /\ Restarts
    /\ offset' = 0
    /\ binding' = NoOrg
    /\ UNCHANGED <<trouble, confirmed>>

TelegramWorks == GetUpdates \/ GetUpdatesFails \/ GetUpdatesTimesOut \/ HandleUpdate
==============================================================================
