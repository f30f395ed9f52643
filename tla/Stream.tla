------------------------------- MODULE Stream -------------------------------
(***************************************************************************)
(* What a streaming session of ipcam-gst promises its owner: the outcome   *)
(* is decided once, the owner is told once and of that outcome, and by     *)
(* then the camera is released for good.                                   *)
(***************************************************************************)
VARIABLES outcome,   \* how the session ended, or "None"
          camera,    \* a connection to the camera is up
          told       \* what the terminal callback was called with, or "None"

streamVars == <<outcome, camera, told>>

Outcomes == {"Failed", "Ended"}

StreamInit == outcome = "None" /\ camera = TRUE /\ told = "None"

Connect ==
  /\ told = "None"
  /\ camera' = TRUE
  /\ UNCHANGED <<outcome, told>>

Disconnect ==
  /\ camera' = FALSE
  /\ UNCHANGED <<outcome, told>>

Decide(o) ==
  /\ outcome = "None"
  /\ outcome' = o
  /\ UNCHANGED <<camera, told>>

Tell ==
  /\ outcome # "None"
  /\ told = "None"
  /\ ~camera
  /\ told' = outcome
  /\ UNCHANGED <<outcome, camera>>

StreamNext == Connect \/ Disconnect \/ Tell \/ \E o \in Outcomes : Decide(o)

StreamSpec == StreamInit /\ [][StreamNext]_streamVars
=============================================================================
