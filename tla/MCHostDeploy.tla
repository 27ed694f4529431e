---------------------------- MODULE MCHostDeploy ----------------------------
(* Instances of HostDeploy for TLC: two hosts, two request slots.          *)
EXTENDS HostDeploy

CONSTANTS h1, h2
=============================================================================
