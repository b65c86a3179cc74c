--------------------------- MODULE MCSubmissions ---------------------------
(***************************************************************************)
(* A small instance of Submissions: one submission per organisation, an    *)
(* analyst of the first organisation, one without an organisation, who may *)
(* act for all, and an employee of the second.                             *)
(***************************************************************************)
EXTENDS Submissions, TLC

CONSTANTS s1, s2, analyst, root, employee, orgA, orgB

MCOrgOf == [i \in Ids |-> IF i = s1 THEN orgA ELSE orgB]

MCPrincipalOrg == analyst :> orgA @@ root :> NoOrg @@ employee :> orgB
=============================================================================
