---------------------------- MODULE MCDeployment ----------------------------
(* Two runs of the script, enough ids for both, and somebody else; the     *)
(* operator's key signs for the first account only.                        *)
EXTENDS Deployment, TLC

CONSTANTS Operator, Other, SacA, SacB, None, Absent, Cut
=============================================================================
