----------------------------- MODULE MCCallLog ------------------------------
(* A screen of two records over a table of three, four calls, two starts.    *)
EXTENDS CallLog
=============================================================================
