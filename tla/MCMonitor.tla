----------------------------- MODULE MCMonitor ------------------------------
(* Monitor for TLC: calls, cameras and views are interchangeable.          *)
EXTENDS Monitor, TLC

MonitorSymmetry == Permutations(Calls) \cup Permutations(Cameras) \cup Permutations(Views)
=============================================================================
