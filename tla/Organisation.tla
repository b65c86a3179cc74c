---------------------------- MODULE Organisation ----------------------------
(***************************************************************************)
(* What an organisation sets up and every analysis reads from memory: its  *)
(* allow and block lists and its brands.  The two share nothing, so a      *)
(* behaviour is about one of them, chosen at the start, and a third kind   *)
(* compares two words, for the edit distance that brand matching rests on. *)
(***************************************************************************)
EXTENDS OrgLists, Brands

CONSTANT Words      \* words to compare, sequences of letters

ASSUME WordsAssumption == \A w \in Words : w \in Seq(Range(w))

VARIABLES aspect, compared

vars == <<aspect, compared, listVars, brandVars>>

Init ==
    /\ aspect \in {"lists", "brands", "words"}
    /\ compared \in IF aspect = "words" THEN Words \X Words ELSE {<<>>}
    /\ ListsInit
    /\ BrandsInit

Lists ==
    /\ aspect = "lists"
    /\ ListsNext
    /\ UNCHANGED <<aspect, compared, brandVars>>

CustomBrands ==
    /\ aspect = "brands"
    /\ BrandsNext
    /\ UNCHANGED <<aspect, compared, listVars>>

Next == Lists \/ CustomBrands

\* Thirty seconds pass, and a request or a load goes on to its end.
Spec == Init /\ [][Next]_vars /\ (aspect = "lists" => ListFairness)

\* The distance by rows is the cheapest way to edit one word into the other
\* (similarity.go, DamerauLevenshtein).
DistanceIsShortest ==
    compared # <<>> =>
        DamerauLevenshtein(compared[1], compared[2]) = Min(Alignments(compared[1], compared[2]))
=============================================================================
