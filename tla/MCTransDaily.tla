---------------------------- MODULE MCTransDaily ----------------------------
(***************************************************************************)
(* Small instances of TransDaily for TLC.                                  *)
(***************************************************************************)
EXTENDS TransDaily

CONSTANTS g1, g2

\* One to three transactions per block, but none in block 1.
MCTxCount == [b \in Heights |-> IF b = 1 THEN 0 ELSE (b % 3) + 1]

\* The first day has the genesis block and two more, the next day the rest.
MCDayOf == [b \in Heights |-> (b \div 3) + 1]
=============================================================================
