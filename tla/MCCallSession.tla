--------------------------- MODULE MCCallSession ----------------------------
(* CallSession for TLC.  Calls are not taken as symmetric: the run checks   *)
(* liveness too.                                                           *)
EXTENDS CallSession
=============================================================================
