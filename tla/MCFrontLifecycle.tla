-------------------------- MODULE MCFrontLifecycle --------------------------
(* Instances of FrontLifecycle for TLC: two or three fronts, two threads.  *)
EXTENDS FrontLifecycle, TLC

CONSTANTS t1, t2
=============================================================================
