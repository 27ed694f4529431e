---------------------------- MODULE MCBlockPull ----------------------------
(***************************************************************************)
(* Small instances of BlockPull for TLC.                                   *)
(***************************************************************************)
EXTENDS BlockPull

CONSTANTS g1, g2

\* Blocks with no, one and two transactions, in this order.
MCTxCount == [b \in Heights |-> b % 3]

\* One long chain, and a short one whose pull shares the latch.
MCLastHeight == [g \in Groups |-> IF g = g2 THEN 0 ELSE MaxHeight]
=============================================================================
