-------------------------- MODULE AnalysisResource --------------------------
(***************************************************************************)
(* What /v1/analyses/{id} promises to a client that polls it, with no      *)
(* tables, goroutines or handlers: an id is opened at most once, a result  *)
(* appears at most once and only while the id is open, and an id that is   *)
(* closed can only lose what it shows - deletion and retention take things *)
(* away, nothing but the id's own analysis ever adds them.                 *)
(***************************************************************************)
CONSTANT Ids

VARIABLES
    phase,    \* "new", "open" (an analysis runs) or "closed"
    visible,  \* ids a GET answers with 200
    result    \* ids whose analysis is stored

vars == <<phase, visible, result>>

Init ==
    /\ phase = [id \in Ids |-> "new"]
    /\ visible = {}
    /\ result = {}

Accept(id) ==
    /\ phase[id] = "new"
    /\ phase' = [phase EXCEPT ![id] = "open"]
    /\ visible' = visible \cup {id}
    /\ UNCHANGED result

\* The analysis ends well and its result is stored.
Complete(id) ==
    /\ phase[id] \in {"new", "open"}
    /\ phase' = [phase EXCEPT ![id] = "closed"]
    /\ visible' = visible \cup {id}
    /\ result' = result \cup {id}

\* The analyses of these ids end with nothing stored: rejected, failed, or
\* lost with the process.
GiveUp(ids) ==
    /\ ids # {} /\ \A id \in ids : phase[id] \in {"new", "open"}
    /\ phase' = [id \in Ids |-> IF id \in ids THEN "closed" ELSE phase[id]]
    /\ visible' \in SUBSET visible
    /\ visible \ visible' \subseteq ids
    /\ UNCHANGED result

\* Deletion or retention takes away results or whole resources.
Erode ==
    /\ visible' \in SUBSET visible
    /\ result' \in SUBSET result
    /\ UNCHANGED phase

Next == (\E id \in Ids : Accept(id) \/ Complete(id))
            \/ (\E ids \in SUBSET Ids : GiveUp(ids)) \/ Erode

Spec == Init /\ [][Next]_vars
=============================================================================
