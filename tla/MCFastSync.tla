---------------------------- MODULE MCFastSync ----------------------------
(* Instances of FastSync for TLC.                                           *)
EXTENDS FastSync

MCBest == [p \in Peers |-> 4]
MCBoundary == [p \in Peers |-> IF p = 1 THEN 2 ELSE 0]
MCLevel == [b \in LocalBlocks |-> b]
=============================================================================
