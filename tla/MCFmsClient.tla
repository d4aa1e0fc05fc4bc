---------------------------- MODULE MCFmsClient ----------------------------
(* Instances of FmsClient for TLC.                                         *)
EXTENDS FmsClient, TLC

CONSTANTS p1, w1, w2, PROD

\* Two threads of one process that share its session.
OneProcess == [w \in {w1, w2} |-> p1]
OneEnv == [w \in {w1, w2} |-> PROD]
=============================================================================
