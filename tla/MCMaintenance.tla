--------------------------- MODULE MCMaintenance ---------------------------
(***************************************************************************)
(* Two processes beside one backup or restore command.                     *)
(***************************************************************************)
EXTENDS Maintenance, TLC

CONSTANTS p, q

MCProcesses == {p, q}

Symmetry == Permutations(MCProcesses)
=============================================================================
