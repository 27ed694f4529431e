---------------------------- MODULE MCBlockStat ----------------------------
(***************************************************************************)
(* A small instance of BlockStat for TLC.                                  *)
(***************************************************************************)
EXTENDS BlockStat

CONSTANTS g1, g2

\* One long chain, and a group without blocks whose pull shares the latch.
MCLastHeight == [g \in Groups |-> IF g = g2 THEN 0 ELSE MaxHeight]
=============================================================================
