------------------------------ MODULE MCAccess ------------------------------
(***************************************************************************)
(* A small instance: one key of an analyst, one person who signs in, and   *)
(* calls from one address.                                                 *)
(***************************************************************************)
EXTENDS Access, TLC

MCKeyRole == "key" :> "analyst"
MCCallerOf == "ann" :> "oidc:ann"

\* The limiter is watched where nobody signs in, and signing in where nobody
\* is limited.
MCSetups ==
    {[limited |-> TRUE, oidc |-> FALSE, anonymous |-> TRUE],
     [limited |-> FALSE, oidc |-> TRUE, anonymous |-> FALSE]}
=============================================================================
