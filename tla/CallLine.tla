------------------------------ MODULE CallLine ------------------------------
(***************************************************************************)
(* What the call slot promises (crates/call-ui/src/session): one line that *)
(* one call at a time holds, once in its life; media run only for the      *)
(* holder, and are stopped before the line is free for another call.       *)
(***************************************************************************)
CONSTANTS Calls, NoCall

VARIABLES holder,     \* the call that holds the line, or NoCall
          served,     \* the calls that have had the line
          streaming   \* the calls with media running

lineVars == <<holder, served, streaming>>

LineInit == holder = NoCall /\ served = {} /\ streaming = {}

Claim(c) ==
  /\ holder = NoCall
  /\ c \in Calls \ served
  /\ holder' = c
  /\ served' = served \cup {c}
  /\ UNCHANGED streaming

StartStreaming ==
  /\ holder # NoCall
  /\ streaming' = {holder}
  /\ UNCHANGED <<holder, served>>

StopStreaming ==
  /\ streaming' = {}
  /\ UNCHANGED <<holder, served>>

Free ==
  /\ streaming = {}
  /\ holder' = NoCall
  /\ UNCHANGED <<served, streaming>>

(* The process exits: everything the holder had is dropped with it.        *)
Abandon ==
  /\ holder' = NoCall
  /\ streaming' = {}
  /\ UNCHANGED served

LineNext ==
  \/ \E c \in Calls : Claim(c)
  \/ StartStreaming
  \/ StopStreaming
  \/ Free
  \/ Abandon

LineSpec == LineInit /\ [][LineNext]_lineVars
=============================================================================
