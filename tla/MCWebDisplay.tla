---------------------------- MODULE MCWebDisplay ----------------------------
(* Sessions are interchangeable, but symmetry is left out: the run checks  *)
(* liveness.                                                               *)
EXTENDS WebDisplay
=============================================================================
