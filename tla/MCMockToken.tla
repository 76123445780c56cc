---------------------------- MODULE MCMockToken ----------------------------
(* Two holders, each of whom may let the other spend, and amounts that     *)
(* reach the width.                                                        *)
EXTENDS MockToken, TLC

CONSTANTS Owner, Other, Nobody

MCGrants  == {<<Owner, Other>>, <<Other, Owner>>}
MCAmounts == -1 .. 2
=============================================================================
