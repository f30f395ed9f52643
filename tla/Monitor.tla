------------------------------ MODULE Monitor -------------------------------
(***************************************************************************)
(* The camera monitor page beside the calls: MonitorController of          *)
(* crates/call-ui/src/camera/mod.rs, the page of ui/main.slint and the     *)
(* MonitorFailed event of bridge.rs, composed with CallSession.  A view is *)
(* one GstStreamHandle; its inside is Ingest's.  The monitor and the calls *)
(* draw into the same picture.                                             *)
(***************************************************************************)
EXTENDS CallSession

CONSTANTS Cameras,    \* rows of the camera table
          NoCamera,   \* monitor-selected-id -1
          Views,      \* identities of the streams that select() starts
          NoView      \* no stream

ASSUME NoCameraAssumption == NoCamera \notin Cameras
ASSUME NoViewAssumption == NoView \notin Views

VARIABLES
  page,      \* root.page = 3 in main.slint
  selected,  \* monitor-selected-id
  current,   \* MonitorController.current
  view,      \* the life of each view
  camera,    \* the camera of each view
  failures   \* views with a MonitorFailed closure in the event queue

monitorVars == <<page, selected, current, view, camera, failures>>
allVars     == <<vars, monitorVars>>

(* A view that failed is "told" once its terminal callback has run.        *)
Life == {"none", "running", "stopped", "failed", "told"}

MonitorTypeOK ==
  /\ page \in {"monitor", "other"}
  /\ selected \in Cameras \cup {NoCamera}
  /\ current \in Views \cup {NoView}
  /\ view \in [Views -> Life]
  /\ camera \in [Views -> Cameras \cup {NoCamera}]
  /\ failures \subseteq Views

MonitorInit ==
  /\ Init
  /\ page = "other"
  /\ selected = NoCamera
  /\ current = NoView
  /\ view = [v \in Views |-> "none"]
  /\ camera = [v \in Views |-> NoCamera]
  /\ failures = {}

-----------------------------------------------------------------------------
(* MonitorController::stop; the stop of a view that is over is ignored.    *)
Stopped ==
  [v \in Views |-> IF v = current /\ view[v] = "running" THEN "stopped" ELSE view[v]]

(* Bug: the highlight of the side bar is left alone.                       *)
StopAndResetKeepingSelection ==
  /\ view' = Stopped
  /\ current' = NoView
  /\ UNCHANGED selected

StopAndReset ==
  /\ view' = Stopped
  /\ current' = NoView
  /\ selected' = NoCamera

OnMonitorPage == window = "open" /\ phase = "Idle" /\ page = "monitor"

OpenPage ==
  /\ window = "open" /\ phase = "Idle" /\ page = "other"
  /\ page' = "monitor"
  /\ UNCHANGED <<vars, selected, current, view, camera, failures>>

LeavePage ==
  /\ OnMonitorPage
  /\ page' = "other"
  /\ StopAndReset
  /\ UNCHANGED <<vars, camera, failures>>

(* Bug: the new stream is started beside the old one.                      *)
StartBesideOld(v, cam) ==
  /\ view' = [view EXCEPT ![v] = "running"]
  /\ camera' = [camera EXCEPT ![v] = cam]
  /\ current' = v

(* MonitorController::select stops the old view and starts the new one.    *)
Start(v, cam) ==
  /\ view' = [Stopped EXCEPT ![v] = "running"]
  /\ camera' = [camera EXCEPT ![v] = cam]
  /\ current' = v

(* The stream starts and is highlighted, or only the old one is stopped.   *)
Select(v, cam) ==
  /\ OnMonitorPage
  /\ view[v] = "none"
  /\ \/ Start(v, cam) /\ selected' = cam
     \/ StopAndReset /\ UNCHANGED camera
  /\ UNCHANGED <<vars, page, failures>>

(* The ingest session gives up: from here on stop() does nothing.          *)
ViewFails(v) ==
  /\ view[v] = "running"
  /\ view' = [view EXCEPT ![v] = "failed"]
  /\ UNCHANGED <<vars, page, selected, current, camera, failures>>

(* on_terminal posts MonitorFailed from the thread of the session, by when *)
(* the user may have left, dialled or selected another view.               *)
PostFailure(v) ==
  /\ view[v] = "failed"
  /\ view' = [view EXCEPT ![v] = "told"]
  /\ failures' = IF window = "open" THEN failures \cup {v} ELSE failures
  /\ UNCHANGED <<vars, page, selected, current, camera>>

(* The queued closure: a failure of another camera than the selected one   *)
(* is dropped.  It touches nothing the call events touch, so its place     *)
(* among them is left open.                                                *)
DeliverFailure(v) ==
  /\ window = "open"
  /\ v \in failures
  /\ failures' = failures \ {v}
  /\ selected' = IF selected = camera[v] THEN NoCamera ELSE selected
  /\ UNCHANGED <<vars, page, current, view, camera>>

(* Bug: only accepting a call takes the picture from the monitor.          *)
CallTakesPictureOnAccept ==
  \/ /\ \E c \in Calls : UserDial(c)
     /\ UNCHANGED <<selected, current, view>>
  \/ UserAccept /\ StopAndReset

(* The dial and accept callbacks of wiring.rs stop the monitor first.      *)
CallTakesPicture ==
  \/ (\E c \in Calls : UserDial(c)) /\ StopAndReset
  \/ UserAccept /\ StopAndReset

RestOfSession ==
  \/ UserReject \/ UserHangup
  \/ Deliver \/ RunReturns
  \/ WorkerStep
  \/ NetworkStep
  \/ \E c \in Calls : TaskStep(c)

CloseWindow == UserClose /\ failures' = {}

MonitorNext ==
  \/ CallTakesPicture /\ UNCHANGED <<page, camera, failures>>
  \/ RestOfSession /\ UNCHANGED monitorVars
  \/ CloseWindow /\ UNCHANGED <<page, selected, current, view, camera>>
  \/ Exited /\ UNCHANGED monitorVars
  \/ OpenPage
  \/ LeavePage
  \/ \E v \in Views : ViewFails(v) \/ PostFailure(v) \/ DeliverFailure(v)
  \/ \E v \in Views, cam \in Cameras : Select(v, cam)

MonitorSpec == MonitorInit /\ [][MonitorNext]_allVars

-----------------------------------------------------------------------------
(* Safety.                                                                 *)

(* One camera at a time: whatever the user selects, leaves or dials, and   *)
(* whichever streams fail on their own, the only view that runs is the one *)
(* the controller still holds and can stop (camera/mod.rs:22).             *)
RunningIsHeld == \A v \in Views : view[v] = "running" => v = current

(* The side bar never highlights a camera whose view was stopped: it runs, *)
(* or the event that says it failed is on its way (camera/mod.rs:185-188). *)
SelectionIsLive ==
  selected # NoCamera /\ window = "open" =>
    /\ current # NoView
    /\ camera[current] = selected
    /\ view[current] \in {"running", "failed"} \/ current \in failures

(* From the dial to the end of the call on screen no camera runs under a   *)
(* call the user dialled.                                                  *)
DialSilencesMonitor ==
  phase # "Idle" /\ dir = "Outgoing" => \A v \in Views : view[v] # "running"

=============================================================================
