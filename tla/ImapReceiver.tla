---------------------------- MODULE ImapReceiver -----------------------------
(***************************************************************************)
(* internal/ingest/imap: polling a mailbox over IMAP.  A poll searches for *)
(* unseen messages and fetches their bodies; fetching BODY[] marks each as *)
(* seen as the server sends it, ahead of the receiver.  What was handled   *)
(* is marked as seen again and moved to the processed folder, all by       *)
(* sequence number.  Numbers keep their meaning until the server reports   *)
(* what other clients removed, which it may do when the folder is created. *)
(***************************************************************************)
EXTENDS Intake

CONSTANT MaxExpunges   \* messages other clients remove

ASSUME ExpungesAssumption == MaxExpunges \in Nat

VARIABLES
    movesProcessed,    \* whether a processed folder is configured
    folder,            \* the messages in the polled folder, in order
    seen,              \* messages flagged \Seen
    moved,             \* messages moved to the processed folder
    expunges,          \* messages removed by other clients
    view,              \* the session's numbering: the folder as it selected it
    sent,              \* how many of the numbers in hand the server has sent
    processed          \* numbers of the messages handled without an error

imapVars == <<movesProcessed, folder, seen, moved, expunges, view, sent, processed>>

ImapInit ==
    /\ movesProcessed \in (IF channel = "imap" THEN BOOLEAN ELSE {FALSE})
    /\ folder = <<>> /\ view = <<>>
    /\ seen = {} /\ moved = {} /\ processed = {}
    /\ expunges = 0 /\ sent = 0

\* What is left of a sequence without some of its elements, in order.
Without(messages, gone) ==
    LET kept[n \in 0..Len(messages)] ==
          IF n = 0 THEN <<>>
          ELSE IF messages[n] \in gone THEN kept[n - 1]
          ELSE Append(kept[n - 1], messages[n])
    IN  kept[Len(messages)]

-----------------------------------------------------------------------------
ImapEnters ==
    /\ channel = "imap" /\ Enters
    /\ folder' = Append(folder, Len(kind'))
    /\ UNCHANGED <<movesProcessed, seen, moved, expunges, view, sent, processed>>

OthersExpunge ==
    /\ channel = "imap" /\ expunges < MaxExpunges
    /\ \E m \in Range(folder) : folder' = Without(folder, {m})
    /\ expunges' = expunges + 1
    /\ UNCHANGED <<intakeVars, movesProcessed, seen, moved, view, sent, processed>>

\* The connection is closed: the numbers mean nothing any more.
SessionEnds ==
    /\ pc' = "idle"
    /\ inHand' = <<>> /\ view' = <<>>
    /\ sent' = 0 /\ processed' = {}

Search ==
    /\ channel = "imap" /\ pc = "idle"
    /\ inHand' = Without([n \in DOMAIN folder |-> n], {n \in DOMAIN folder : folder[n] \in seen})
    /\ inHand' # <<>>
    /\ view' = folder
    /\ pc' = "working"
    /\ UNCHANGED <<channel, kind, taken, filed, trouble, restarts,
                   movesProcessed, folder, seen, moved, expunges, sent, processed>>

\* The server sends the next body and flags it.
SendNext ==
    /\ channel = "imap" /\ pc = "working" /\ sent < Len(inHand)
    /\ seen' = seen \cup {view[inHand[sent + 1]]}
    /\ sent' = sent + 1
    /\ UNCHANGED <<intakeVars, movesProcessed, folder, moved, expunges, view, processed>>

\* Fault: a message that failed is treated like the others.
FailedIsProcessed(n) == processed' = processed \cup {n}

FailedIsLeft(n) == UNCHANGED processed

\* The receiver handles the next body it was sent.  A message that fails,
\* or whose verdict cannot be sent back, is left.
Process ==
    /\ channel = "imap" /\ pc = "working" /\ sent > 0
    /\ LET n == Head(inHand)
           m == view[n]
       IN  /\ Takes(m)
           /\ \/ /\ kind[m] = "mail"
                 /\ Files(m, Home)
                 /\ processed' = processed \cup {n}
                 /\ UNCHANGED trouble
              \/ /\ kind[m] = "mail" /\ Trouble
                 /\ Files(m, Home) \/ UNCHANGED filed
                 /\ FailedIsLeft(n)
              \/ /\ kind[m] = "bad"
                 /\ FailedIsLeft(n)
                 /\ UNCHANGED <<filed, trouble>>
    /\ inHand' = Tail(inHand)
    /\ sent' = sent - 1
    /\ UNCHANGED <<channel, kind, pc, restarts,
                   movesProcessed, folder, seen, moved, expunges, view>>

\* Fault: a poll that handled nothing is not ended.
FetchDoneIfAny ==
    /\ channel = "imap" /\ pc = "working" /\ inHand = <<>>
    /\ processed # {}
    /\ pc' = "marking"
    /\ UNCHANGED <<channel, kind, taken, filed, trouble, restarts, inHand, movesProcessed,
                   folder, seen, moved, expunges, view, sent, processed>>

FetchDone ==
    /\ channel = "imap" /\ pc = "working" /\ inHand = <<>>
    /\ IF processed = {}
         THEN SessionEnds
         ELSE pc' = "marking" /\ UNCHANGED <<inHand, view, sent, processed>>
    /\ UNCHANGED <<channel, kind, taken, filed, trouble, restarts,
                   movesProcessed, folder, seen, moved, expunges>>

MarkSeen ==
    /\ channel = "imap" /\ pc = "marking"
    /\ seen' = seen \cup {view[n] : n \in processed}
    /\ IF movesProcessed
         THEN pc' = "moving" /\ UNCHANGED <<inHand, view, sent, processed>>
         ELSE SessionEnds
    /\ UNCHANGED <<channel, kind, taken, filed, trouble, restarts,
                   movesProcessed, folder, moved, expunges>>

\* The folder is created first, when the server may renumber the session.
MoveProcessed ==
    /\ channel = "imap" /\ pc = "moving"
    /\ \E numbering \in {view, folder} :
         LET goes == {numbering[n] : n \in processed \cap DOMAIN numbering} \cap Range(folder)
         IN  /\ moved' = moved \cup goes
             /\ folder' = Without(folder, goes)
    /\ SessionEnds
    /\ UNCHANGED <<channel, kind, taken, filed, trouble, restarts,
                   movesProcessed, seen, expunges>>

\* The connection, the search, the fetch, the marking or the move fails.
PollFails ==
    /\ channel = "imap" /\ pc \in {"idle", "working", "marking", "moving"}
    /\ Trouble
    /\ SessionEnds
    /\ UNCHANGED <<channel, kind, taken, filed, restarts,
                   movesProcessed, folder, seen, moved, expunges>>

ImapRestarts ==
    /\ channel = "imap"
    /\ Restarts
    /\ SessionEnds
    /\ UNCHANGED <<trouble, movesProcessed, folder, seen, moved, expunges>>

ImapWorks ==
    Search \/ SendNext \/ Process \/ FetchDone \/ MarkSeen \/ MoveProcessed \/ PollFails
==============================================================================
