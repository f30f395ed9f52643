------------------------------ MODULE AppState ------------------------------
(***************************************************************************)
(* The call part of the UI state machine of crates/call-ui/src/app.rs.     *)
(* Every operator is the effect of one AppState method on the fields of    *)
(* the struct; the queues that lead to these methods, and the threads that *)
(* call them, are in CallSession.                                          *)
(*                                                                         *)
(* UiEvents and WorkerCmds of the code carry no call identity.  `subject`  *)
(* is a history variable: the call the screen is about.  No guard reads it.*)
(***************************************************************************)
EXTENDS Sequences

CONSTANTS Calls,   \* identities of calls, dialled or received
          NoCall   \* the absence of a call

ASSUME NoCallAssumption == NoCall \notin Calls

VARIABLES phase,      \* AppState.phase
          dir,        \* AppState.call_dir
          confirmed,  \* AppState.confirmed_at is Some
          subject,    \* history: the call that took phase out of Idle
          unsaved     \* AppState.unsaved: records waiting for the 1 s timer

appVars == <<phase, dir, confirmed, subject, unsaved>>

Phase == {"Idle", "Outgoing", "Incoming", "InCall"}
CallDir == {"Outgoing", "Incoming", "None"}

CallRecords ==
  [call : Calls, outgoing : BOOLEAN, missed : BOOLEAN, connected : BOOLEAN]

AppTypeOK ==
  /\ phase \in Phase
  /\ dir \in CallDir
  /\ confirmed \in BOOLEAN
  /\ subject \in IF phase = "Idle" THEN {NoCall} ELSE Calls
  /\ unsaved \in Seq(CallRecords)

AppInit ==
  /\ phase = "Idle"
  /\ dir = "None"
  /\ confirmed = FALSE
  /\ subject = NoCall
  /\ unsaved = <<>>

-----------------------------------------------------------------------------
(* What the record of a call ending now says, by the phase it ends in.     *)
CallRecord ==
  [ call      |-> subject,
    outgoing  |-> \/ phase = "Outgoing"
                  \/ phase = "InCall" /\ (dir # "Incoming" \/ ~confirmed),
    missed    |-> phase = "Incoming",
    connected |-> phase = "InCall" /\ confirmed ]

PushCallRecord ==
  unsaved' = IF phase = "Idle" THEN unsaved ELSE Append(unsaved, CallRecord)

EndCall ==
  /\ PushCallRecord
  /\ phase' = "Idle"
  /\ dir' = "None"
  /\ confirmed' = FALSE
  /\ subject' = NoCall

(* dial, accept, reject and hangup: the guards are the states in which the *)
(* method returns Some(WorkerCmd).                                         *)
DialFor(c) ==
  /\ phase = "Idle"
  /\ phase' = "Outgoing"
  /\ dir' = "Outgoing"
  /\ confirmed' = FALSE
  /\ subject' = c
  /\ UNCHANGED unsaved

Accept == phase = "Incoming" /\ UNCHANGED appVars

Reject == phase = "Incoming" /\ EndCall

(* Bug: the record is made at once, the screen left for Terminated to reset. *)
HangupLater ==
  phase \in {"Outgoing", "InCall"} /\ PushCallRecord /\ UNCHANGED <<phase, dir, confirmed, subject>>

Hangup == phase \in {"Outgoing", "InCall"} /\ EndCall

-----------------------------------------------------------------------------
(* on_event, one operator per arm that touches the call.                   *)
OnIncoming(c) ==
  IF phase = "Idle"
  THEN /\ phase' = "Incoming"
       /\ dir' = "Incoming"
       /\ confirmed' = FALSE
       /\ subject' = c
       /\ UNCHANGED unsaved
  ELSE UNCHANGED appVars

OnConfirmed ==
  IF phase \in {"Outgoing", "Incoming"}
  THEN phase' = "InCall" /\ confirmed' = TRUE /\ UNCHANGED <<dir, subject, unsaved>>
  ELSE UNCHANGED appVars

OnTerminated == EndCall

(* Bug: a failure only raises its notice.                                  *)
OnFailedNoticeOnly == UNCHANGED appVars

(* Failed also raises a notice unless the phase is Idle; no state of its own. *)
OnFailed == EndCall
=============================================================================
