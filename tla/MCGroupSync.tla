---------------------------- MODULE MCGroupSync ----------------------------
(***************************************************************************)
(* A small instance of GroupSync for TLC.                                  *)
(***************************************************************************)
EXTENDS GroupSync

All(x) == [f \in Fronts |-> x]
World(n, c, s) == [node |-> n, chain |-> c, stored |-> s]

\* All fronts run the same chain, the last one another chain, the first one
\* was wiped; no front has the group; the last one never ran it.
MCInitWorlds ==
    {World(All("run"), All(1), 0),
     World(All("run"), [All(1) EXCEPT ![NumFronts] = 2], 1),
     World(All("run"), [All(1) EXCEPT ![1] = 0], 1),
     World(All("gone"), All(1), 1),
     World([All("run") EXCEPT ![NumFronts] = "stop"], All(1), 1)}
=============================================================================
