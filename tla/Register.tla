----------------------------- MODULE Register -------------------------------
(***************************************************************************)
(* SIP registration: process_register and register_cycle of                *)
(* crates/ipcam-sip/src/client.rs, the registrar they talk to, and the     *)
(* worker loop of crates/call-ui/src/session/worker.rs that shows the      *)
(* outcome.  Time passes in ticks of one second, and only while nothing    *)
(* else is due: a round trip and the 500 ms of shutdown() take none.       *)
(***************************************************************************)
EXTENDS Integers, Sequences

CONSTANTS Requested,          \* registration_duration, in seconds
          Grants,             \* expiries the registrar may grant
          TxnTimeout,         \* rsipstack gives a transaction up
          InitialBackoff,     \* INITIAL_BACKOFF
          MaxBackoff,         \* MAX_BACKOFF
          UnregisterTimeout   \* UNREGISTER_TIMEOUT

ASSUME RequestedAssumption == Requested \in Nat
ASSUME GrantsAssumption == Grants \subseteq Nat \ {0}
ASSUME TimeoutAssumption ==
  TxnTimeout \in Nat \ {0} /\ UnregisterTimeout \in Nat \ {0}
ASSUME BackoffAssumption ==
  /\ InitialBackoff \in Nat \ {0} /\ MaxBackoff \in Nat
  /\ InitialBackoff <= MaxBackoff

VARIABLES
  loop,        \* where process_register stands
  cycle,       \* what the attempt that is being slept off has returned
  timer,       \* seconds to the end of the sleep or the transaction
  backoff,     \* pause after the next failure
  registered,  \* the loop's local: a cycle has returned Registered
  answer,      \* the final response on its way back
  reachable,   \* the network and the registrar work
  bound,       \* seconds the registrar will keep our binding
  status,      \* the watch channel: value and whether the worker saw it
  worker,      \* the worker loop
  cancelled,   \* the cancel token
  evq,         \* Registered and RegisterFailed on their way to the screen
  shown        \* AppState.registered

loopVars == <<loop, cycle, timer, backoff, registered>>
netVars  == <<answer, reachable, bound>>
uiVars   == <<status, worker, cancelled, evq, shown>>
vars     == <<loopVars, netVars, uiVars>>

-----------------------------------------------------------------------------
Least(a, b) == IF a < b THEN a ELSE b
Greatest(a, b) == IF a < b THEN b ELSE a

(* Bug: the renewal goes out when the binding ends.                        *)
RefreshAtExpiry(granted) == Greatest(granted, 1)

(* Three quarters of the expiry, a second at least.                        *)
RefreshAfter(granted) == Greatest((granted * 3) \div 4, 1)

NextBackoff(b) == Least(b * 2, MaxBackoff)

Permanent == {"Unauthorized", "Forbidden", "NotFound"}
Codes == {"OK", "other"} \cup Permanent

TypeOK ==
  /\ loop \in {"trying", "waiting", "unregistering", "done"}
  /\ cycle \in {"none", "Registered", "Retry", "refused"}
  /\ timer \in Nat
  /\ backoff \in InitialBackoff..MaxBackoff
  /\ registered \in BOOLEAN
  /\ answer \in Codes \cup {"none", "lost"}
  /\ reachable \in BOOLEAN
  /\ bound \in Nat
  /\ status \in [registered : BOOLEAN, changed : BOOLEAN]
  /\ worker \in {"running", "stopping", "gone"}
  /\ cancelled \in BOOLEAN
  /\ evq \in Seq({"Registered", "RegisterFailed"})
  /\ shown \in BOOLEAN

Init ==
  /\ loop = "trying" /\ cycle = "none" /\ timer = TxnTimeout
  /\ backoff = InitialBackoff /\ registered = FALSE
  /\ answer = "none" /\ reachable \in BOOLEAN /\ bound = 0
  /\ status = [registered |-> FALSE, changed |-> FALSE]
  /\ worker = "running" /\ cancelled = FALSE /\ evq = <<>> /\ shown = FALSE

-----------------------------------------------------------------------------
(* The registrar and the network between it and the client.                *)

Asked == loop = "trying" /\ answer = "none" /\ ~cancelled

(* A reachable registrar answers, and a 200 OK binds.                      *)
Accepts ==
  /\ Asked /\ reachable
  /\ answer' = "OK"
  /\ bound' \in Grants
  /\ UNCHANGED <<loopVars, reachable, uiVars>>

Refuses ==
  /\ Asked /\ reachable
  /\ answer' \in Codes \ {"OK"}
  /\ UNCHANGED <<loopVars, reachable, bound, uiVars>>

(* The request, or the answer to one that was granted, is lost.            *)
Loses ==
  /\ Asked /\ ~reachable
  /\ answer' = "lost"
  /\ bound' \in {bound} \cup Grants
  /\ UNCHANGED <<loopVars, reachable, uiVars>>

NetworkChanges ==
  /\ reachable' = ~reachable
  /\ UNCHANGED <<loopVars, answer, bound, uiVars>>

-----------------------------------------------------------------------------
(* register_cycle and process_register.                                    *)

(* set_registered wakes the subscribers only if the value changes.         *)
SetRegistered(value) ==
  status' = IF status.registered = value THEN status
            ELSE [registered |-> value, changed |-> TRUE]

(* The attempt failed in a way that may pass: sleep the backoff.           *)
Failed ==
  /\ cycle' = "Retry" /\ timer' = backoff /\ loop' = "waiting"
  /\ UNCHANGED status

(* 200 OK: sleep to the renewal, which goes by the requested duration.     *)
Succeeded ==
  /\ cycle' = "Registered" /\ timer' = RefreshAfter(Requested) /\ loop' = "waiting"
  /\ SetRegistered(TRUE)

Answered ==
  /\ loop = "trying" /\ ~cancelled
  /\ \/ answer = "OK" /\ Succeeded
     \/ answer = "other" /\ Failed
     \/ answer \in {"none", "lost"} /\ timer = 0 /\ Failed
  /\ answer' = "none"
  /\ UNCHANGED <<backoff, registered, reachable, bound, worker, cancelled, evq, shown>>

(* Refused for good: the loop returns its error, the worker's select! takes *)
(* that branch at once, tells the screen and stops.                        *)
RefusedForGood ==
  /\ loop = "trying" /\ ~cancelled /\ answer \in Permanent
  /\ loop' = "done" /\ cycle' = "refused" /\ timer' = 0 /\ answer' = "none"
  /\ SetRegistered(FALSE)
  /\ evq' = Append(evq, "RegisterFailed")
  /\ worker' = "stopping" /\ cancelled' = TRUE
  /\ UNCHANGED <<backoff, registered, reachable, bound, shown>>

(* Bug: a failed attempt is the last one.                                  *)
NextCycleIfRegistered ==
  /\ loop = "waiting" /\ ~cancelled /\ timer = 0 /\ cycle = "Registered"
  /\ loop' = "trying" /\ timer' = TxnTimeout
  /\ registered' = TRUE /\ backoff' = InitialBackoff
  /\ UNCHANGED <<cycle, netVars, uiVars>>

(* The sleep is over: register_cycle returns and the next one begins.      *)
NextCycle ==
  /\ loop = "waiting" /\ ~cancelled /\ timer = 0
  /\ loop' = "trying" /\ timer' = TxnTimeout
  /\ registered' = (registered \/ cycle = "Registered")
  /\ backoff' = IF cycle = "Registered" THEN InitialBackoff ELSE NextBackoff(backoff)
  /\ UNCHANGED <<cycle, netVars, uiVars>>

(* run_until_cancelled drops the cycle wherever it is; an answer that is   *)
(* there goes with it.  A client that knows itself registered then asks to *)
(* be unbound; the answer to that can no longer be received.               *)
CycleDropped ==
  /\ cancelled /\ loop \in {"trying", "waiting"}
  /\ answer' = "none"
  /\ \/ /\ registered
        /\ loop' = "unregistering" /\ timer' = UnregisterTimeout
        /\ bound' \in IF reachable THEN {0} ELSE {0, bound}
     \/ /\ ~registered
        /\ loop' = "done" /\ timer' = 0
        /\ UNCHANGED bound
  /\ UNCHANGED <<cycle, backoff, registered, reachable, uiVars>>

(* Bug: the answer is awaited without the timeout.                         *)
UnregisterUnbounded == FALSE

UnregisterTimedOut ==
  /\ loop = "unregistering" /\ timer = 0
  /\ loop' = "done"
  /\ UNCHANGED <<cycle, timer, backoff, registered, netVars, uiVars>>

-----------------------------------------------------------------------------
(* The worker and the screen.                                              *)

StatusChanged ==
  /\ worker = "running" /\ status.changed
  /\ status' = [status EXCEPT !.changed = FALSE]
  /\ evq' = IF status.registered THEN Append(evq, "Registered") ELSE evq
  /\ UNCHANGED <<loopVars, netVars, worker, cancelled, shown>>

(* Another branch of the worker's loop ended it: shutdown() stops the client. *)
WorkerStops ==
  /\ worker = "running"
  /\ worker' = "stopping" /\ cancelled' = TRUE
  /\ UNCHANGED <<loopVars, netVars, status, evq, shown>>

WorkerGone ==
  /\ worker = "stopping" /\ loop = "done"
  /\ worker' = "gone"
  /\ UNCHANGED <<loopVars, netVars, status, cancelled, evq, shown>>

Deliver ==
  /\ evq # <<>>
  /\ evq' = Tail(evq)
  /\ shown' = (Head(evq) = "Registered")
  /\ UNCHANGED <<loopVars, netVars, status, worker, cancelled>>

-----------------------------------------------------------------------------
(* An answer, a cancelled token and a timer that ran out are acted on at   *)
(* once, and a registrar that can be reached answers at once.              *)
Due ==
  \/ loop = "trying" /\ (cancelled \/ answer \in Codes \/ (answer = "none" /\ reachable))
  \/ loop = "waiting" /\ cancelled
  \/ loop # "done" /\ timer = 0

(* The registrar's clock runs on after the client is gone.                 *)
Tick ==
  /\ ~Due
  /\ loop # "done" \/ bound > 0
  /\ timer' = IF loop = "done" THEN timer ELSE timer - 1
  /\ bound' = Greatest(bound - 1, 0)
  /\ UNCHANGED <<loop, cycle, backoff, registered, answer, reachable, uiVars>>

LoopStep == Answered \/ RefusedForGood \/ NextCycle \/ CycleDropped \/ UnregisterTimedOut

Over == worker = "gone" /\ evq = <<>> /\ bound = 0 /\ UNCHANGED vars

Next ==
  \/ Accepts \/ Refuses \/ Loses \/ NetworkChanges
  \/ LoopStep
  \/ StatusChanged \/ WorkerStops \/ WorkerGone \/ Deliver
  \/ Tick \/ Over

Spec == Init /\ [][Next]_vars

(* Timers and tasks run; the registrar, when it can be reached for good,   *)
(* answers.  The network and the other branches of the worker owe nothing. *)
Fairness ==
  /\ WF_vars(LoopStep) /\ WF_vars(StatusChanged) /\ WF_vars(WorkerGone)
  /\ WF_vars(Deliver) /\ WF_vars(Tick)
  /\ WF_vars(Accepts \/ Refuses \/ Loses)

FairSpec == Spec /\ Fairness

-----------------------------------------------------------------------------
(* While the client sleeps off a success the registrar still knows it:     *)
(* calls can reach us up to the renewal (client.rs refresh_after).         *)
BoundWhileAsleep == loop = "waiting" /\ cycle = "Registered" => bound > 0

(* Between two attempts there is a second at least, so no registrar is     *)
(* stormed, and after a failure no more than MAX_BACKOFF.                  *)
AttemptsArePaced ==
  [][loop = "trying" /\ loop' = "waiting"
       => timer' >= 1 /\ (cycle' = "Retry" => timer' <= MaxBackoff)]_vars

(* However the outage went, once the registrar can be reached and accepts, *)
(* the client gets bound and stays so, unless it was stopped.              *)
Rebinds ==
  <>[](reachable /\ answer \in {"OK", "none"}) => <>[](bound > 0 \/ cancelled)

(* stop() ends the loop, whatever it was waiting for.                      *)
StopEndsLoop == cancelled ~> loop = "done"

=============================================================================
