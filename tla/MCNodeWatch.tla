---------------------------- MODULE MCNodeWatch ----------------------------
(* Two nodes, the first with a front of this manager. *)
EXTENDS NodeWatch

MCFronts == {1}

\* A sealer, which may hide an observer behind it; and a node that is out of
\* the group, which may hide a sealer.
MCRoles == {<<"sealer", "observer">>, <<"remove", "sealer">>}
=============================================================================
