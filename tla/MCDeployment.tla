---------------------------- MODULE MCDeployment ----------------------------
(* Instances of Deployment for TLC.                                         *)
EXTENDS Deployment

CONSTANTS admin, u1, u2, s

TwoSeeds == <<u1, u2>>

=============================================================================
