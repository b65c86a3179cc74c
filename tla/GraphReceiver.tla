---------------------------- MODULE GraphReceiver ----------------------------
(***************************************************************************)
(* internal/ingest/graph: polling a mailbox's delta feed.  A link stands   *)
(* for a position in the feed.  A poll reads pages of entries until the    *)
(* feed hands out a delta link; only then is the link moved, and saved in  *)
(* the state file if one is configured.  Any error ends the poll where it  *)
(* is, and the next one starts from the old link.                          *)
(***************************************************************************)
EXTENDS Intake

CONSTANT PageSize      \* entries of a page of the feed

ASSUME PageAssumption == PageSize \in Nat \ {0}

VARIABLES
    keepsState,        \* whether a state file is configured
    link,              \* the delta link in memory, 0 for none
    saved,             \* the delta link in the state file
    page,              \* [to, more]: where the current page ends
    read               \* messages marked as read

graphVars == <<keepsState, link, saved, page, read>>

GraphInit ==
    /\ keepsState \in (IF channel = "graph" THEN BOOLEAN ELSE {FALSE})
    /\ link = 0 /\ saved = 0
    /\ page = [to |-> 0, more |-> FALSE]
    /\ read = {}

-----------------------------------------------------------------------------
GraphEnters == channel = "graph" /\ Enters /\ UNCHANGED graphVars

PageFrom(from) ==
    LET end == IF from + PageSize < Len(kind) THEN from + PageSize ELSE Len(kind)
    IN  [to |-> end, more |-> end < Len(kind)]

\* The first page lies behind the delta link, another one behind the last.
FetchPage ==
    /\ channel = "graph" /\ pc \in {"idle", "paging"}
    /\ LET from == IF pc = "idle" THEN link ELSE page.to IN
         /\ page' = PageFrom(from)
         /\ inHand' = [i \in 1..(page'.to - from) |-> from + i]
    /\ pc' = "working"
    /\ UNCHANGED <<channel, kind, taken, filed, trouble, restarts, keepsState, link, saved, read>>

\* No token, or no page.
FetchPageFails ==
    /\ channel = "graph" /\ pc \in {"idle", "paging"}
    /\ Trouble
    /\ pc' = "idle"
    /\ UNCHANGED <<channel, kind, taken, filed, inHand, restarts, graphVars>>

SkipRemoved ==
    /\ channel = "graph" /\ pc = "working" /\ inHand # <<>>
    /\ kind[Head(inHand)] = "gone"
    /\ inHand' = Tail(inHand)
    /\ UNCHANGED <<channel, kind, taken, filed, pc, trouble, restarts, graphVars>>

\* Fetched, analysed and marked as read.
HandleMessage ==
    /\ channel = "graph" /\ pc = "working" /\ inHand # <<>>
    /\ LET m == Head(inHand) IN
         /\ kind[m] = "mail"
         /\ Takes(m)
         /\ Files(m, Home)
         /\ read' = read \cup {m}
    /\ inHand' = Tail(inHand)
    /\ UNCHANGED <<channel, kind, pc, trouble, restarts, keepsState, link, saved, page>>

\* Fault: a message that fails is passed over and the poll goes on.
MessagePassedOver ==
    /\ channel = "graph" /\ pc = "working" /\ inHand # <<>>
    /\ LET m == Head(inHand) IN
         /\ kind[m] = "bad"
         /\ Takes(m)
    /\ inHand' = Tail(inHand)
    /\ UNCHANGED <<channel, kind, pc, trouble, restarts, filed, graphVars>>

\* The message cannot be fetched, analysed or marked: the poll is given up.
\* Marking comes last and may have worked although its answer is lost.
HandleMessageFails ==
    /\ channel = "graph" /\ pc = "working" /\ inHand # <<>>
    /\ LET m == Head(inHand) IN
         /\ Takes(m)
         /\ \/ kind[m] = "bad" /\ UNCHANGED <<trouble, filed, read>>
            \/ kind[m] = "mail" /\ Trouble /\ UNCHANGED <<filed, read>>
            \/ /\ kind[m] = "mail" /\ Trouble
               /\ Files(m, Home)
               /\ read' \in {read, read \cup {m}}
    /\ inHand' = <<>>
    /\ pc' = "idle"
    /\ UNCHANGED <<channel, kind, restarts, keepsState, link, saved, page>>

\* Fault: the link a poll returns is dropped.
LinkNotTaken ==
    /\ channel = "graph" /\ pc = "working" /\ inHand = <<>>
    /\ link' = link
    /\ pc' = IF page.more THEN "paging" ELSE "saving"
    /\ UNCHANGED <<channel, kind, taken, filed, inHand, trouble, restarts,
                   keepsState, saved, page, read>>

PageDone ==
    /\ channel = "graph" /\ pc = "working" /\ inHand = <<>>
    /\ link' = IF page.more THEN link ELSE page.to
    /\ pc' = IF page.more THEN "paging" ELSE "saving"
    /\ UNCHANGED <<channel, kind, taken, filed, inHand, trouble, restarts,
                   keepsState, saved, page, read>>

\* Written beside the state file and renamed, so it is never half written.
\* A failure ends Run.
SaveState ==
    /\ channel = "graph" /\ pc = "saving"
    /\ \/ /\ pc' = "idle"
          /\ saved' = IF keepsState THEN link ELSE saved
          /\ UNCHANGED trouble
       \/ /\ keepsState
          /\ Trouble
          /\ pc' = "stopped"
          /\ UNCHANGED saved
    /\ UNCHANGED <<channel, kind, taken, filed, inHand, restarts, keepsState, link, page, read>>

\* A state file that cannot be read counts as none.
GraphRestarts ==
    /\ channel = "graph"
    /\ Restarts
    /\ \/ link' = saved /\ UNCHANGED trouble
       \/ keepsState /\ Trouble /\ link' = 0
    /\ page' = [to |-> 0, more |-> FALSE]
    /\ UNCHANGED <<keepsState, saved, read>>

GraphWorks ==
    \/ FetchPage \/ FetchPageFails \/ SkipRemoved \/ HandleMessage
    \/ HandleMessageFails \/ PageDone \/ SaveState
==============================================================================
