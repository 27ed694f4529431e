--------------------------- MODULE MCTransMonitor ---------------------------
(***************************************************************************)
(* Small instances of TransMonitor for TLC.                                *)
(***************************************************************************)
EXTENDS TransMonitor

CONSTANTS u1, u2, m1, m2

\* Two calls of one user, then one of another user to another method.
MCFrom == [t \in Trans |-> IF t = 3 THEN u2 ELSE u1]
MCOneMethod == [t \in Trans |-> m1]
MCMethod == [t \in Trans |-> IF t = 2 THEN m2 ELSE m1]

\* The first two transactions are of one block, the third is of the next day.
MCStamp == [t \in Trans |-> IF t < 3 THEN 1 ELSE 5]
=============================================================================
