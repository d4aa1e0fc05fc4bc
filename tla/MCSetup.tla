------------------------------- MODULE MCSetup -------------------------------
(***************************************************************************)
(* An instance of Setup: two processes, both environments, one table.      *)
(***************************************************************************)
EXTENDS Setup, TLC

CONSTANTS p1, p2, folders, c1, c2

MCEnvs == {"IOP", "PROD"}
MCEnvOrder == <<"IOP", "PROD">>

OneColumn == folders :> {c1}
=============================================================================
