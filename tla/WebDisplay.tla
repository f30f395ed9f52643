----------------------------- MODULE WebDisplay ------------------------------
(***************************************************************************)
(* The web display: the session registry and its HTTP handlers             *)
(* (crates/web-display/src/lib.rs), the streaming task of each session     *)
(* (stream.rs) and the shutdown of the serve command                       *)
(* (crates/media_talk_rust/src/ipc/{serve,shutdown}.rs).  Handlers, tasks  *)
(* and shutdown run on different threads; each access to the registry is   *)
(* atomic.  Of a stream the module keeps what Ingest promises: the state    *)
(* its handle shows, the camera its pipelines hold, and the session thread *)
(* that ends some time after the state did.                                *)
(***************************************************************************)
CONSTANT Sessions

VARIABLES
  entry,    \* the registry: no entry yet, without a handle, with one, removed
  request,  \* the POST that creates the session
  task,     \* its streaming task
  state,    \* what handle.state() shows of its stream, by kind
  camera,   \* held or free; released with the end of the session thread
  told,     \* sessions whose end was announced on state_tx
  stored,   \* history: sessions whose handle ever was in the registry
  stopper,  \* who took the handle out and has not returned from stop()
  main,     \* serve::run: serving, shutting down, over
  ids,      \* stop_all's copy of the keys, as far as it has not been used
  server    \* the axum task

streamVars  == <<state, camera>>
sessionVars == <<entry, request, task, streamVars, told, stored, stopper>>
exitVars    == <<main, ids, server>>
vars        == <<sessionVars, exitVars>>

TypeOK ==
  /\ entry \in [Sessions -> {"none", "open", "stored", "removed"}]
  /\ request \in [Sessions -> {"none", "inserted", "created", "refused"}]
  /\ task \in [Sessions -> {"none", "resolving", "starting", "storing", "polling", "over"}]
  /\ state \in [Sessions -> {"none", "live", "failed", "ended"}]
  /\ camera \in [Sessions -> {"none", "held", "free", "released"}]
  /\ told \subseteq Sessions
  /\ stored \subseteq Sessions
  /\ stopper \in [Sessions -> {"nobody", "handler", "main"}]
  /\ main \in {"serving", "signalled", "stopping", "awaiting", "over"}
  /\ ids \subseteq Sessions
  /\ server \in {"serving", "draining", "closed"}

Init ==
  /\ entry = [s \in Sessions |-> "none"]
  /\ request = [s \in Sessions |-> "none"]
  /\ task = [s \in Sessions |-> "none"]
  /\ state = [s \in Sessions |-> "none"]
  /\ camera = [s \in Sessions |-> "none"]
  /\ told = {} /\ stored = {}
  /\ stopper = [s \in Sessions |-> "nobody"]
  /\ main = "serving" /\ ids = {} /\ server = "serving"

Alive == main # "over"
Becomes(f, s, value) == [f EXCEPT ![s] = value]
Registered(s) == entry[s] \in {"open", "stored"}
Terminal(s) == state[s] \in {"failed", "ended"}

-----------------------------------------------------------------------------
(* The HTTP handlers.  A draining server still finishes what it began.     *)

(* create_session: device and profile are known, the entry is made.        *)
CreateSession(s) ==
  /\ Alive /\ server # "closed"
  /\ entry[s] = "none"
  /\ entry' = Becomes(entry, s, "open")
  /\ request' = Becomes(request, s, "inserted")
  /\ UNCHANGED <<task, streamVars, told, stored, stopper, exitVars>>

(* A device without address is refused after that, the entry stays;        *)
(* otherwise the streaming task is spawned.                                *)
FinishRequest(s) ==
  /\ Alive /\ request[s] = "inserted"
  /\ \/ request' = Becomes(request, s, "refused") /\ UNCHANGED task
     \/ request' = Becomes(request, s, "created") /\ task' = Becomes(task, s, "resolving")
  /\ UNCHANGED <<entry, streamVars, told, stored, stopper, exitVars>>

(* Bug: the handle is dropped with the entry instead of stopped.           *)
RemoveUnstopped(s, who) ==
  /\ entry' = Becomes(entry, s, "removed")
  /\ UNCHANGED stopper

(* SessionRegistry::remove takes the entry out and then, the registry      *)
(* unlocked, stops the stream whose handle it found in it.                 *)
Remove(s, who) ==
  /\ entry' = Becomes(entry, s, "removed")
  /\ stopper' = IF entry[s] = "stored" THEN Becomes(stopper, s, who) ELSE stopper

(* stop() returns: a state that is terminal already stays as it is.        *)
StopHandle(s) ==
  /\ Alive /\ stopper[s] # "nobody"
  /\ stopper' = Becomes(stopper, s, "nobody")
  /\ state' = IF Terminal(s) THEN state ELSE Becomes(state, s, "ended")
  /\ UNCHANGED <<entry, request, task, camera, told, stored, exitVars>>

(* DELETE: GET /api/sessions lists a session as soon as it has an entry.   *)
DeleteSession(s) ==
  /\ Alive /\ server # "closed"
  /\ Registered(s)
  /\ Remove(s, "handler")
  /\ UNCHANGED <<request, task, streamVars, told, stored, exitVars>>

-----------------------------------------------------------------------------
(* The streaming task.                                                     *)

(* Announces the end of the session, as the last thing the task does.      *)
TaskEnds(s) ==
  /\ task' = Becomes(task, s, "over")
  /\ told' = told \cup {s}

ResolveUri(s) ==
  /\ Alive /\ task[s] = "resolving"
  /\ \/ task' = Becomes(task, s, "starting") /\ UNCHANGED told
     \/ TaskEnds(s)
  /\ UNCHANGED <<entry, request, streamVars, stored, stopper, exitVars>>

(* ipcam_gst::start: a pipeline is up and the session thread watches it,   *)
(* or there is no stream.                                                  *)
StartStream(s) ==
  /\ Alive /\ task[s] = "starting"
  /\ \/ /\ state' = Becomes(state, s, "live")
        /\ camera' = Becomes(camera, s, "held")
        /\ task' = Becomes(task, s, "storing")
        /\ UNCHANGED told
     \/ TaskEnds(s) /\ UNCHANGED streamVars
  /\ UNCHANGED <<entry, request, stored, stopper, exitVars>>

(* SessionRegistry::set_handle drops the handle if there is no entry.      *)
SetHandle(s) ==
  IF Registered(s)
  THEN entry' = Becomes(entry, s, "stored") /\ stored' = stored \cup {s}
  ELSE UNCHANGED <<entry, stored>>

StoreHandle(s) ==
  /\ Alive /\ task[s] = "storing"
  /\ SetHandle(s)
  /\ task' = Becomes(task, s, "polling")
  /\ UNCHANGED <<request, streamVars, told, stopper, exitVars>>

(* The task polls the state, and nothing else.  Bug: the loop is left when *)
(* the entry is gone.                                                      *)
PollOverWhenRemoved(s) ==
  /\ Alive /\ task[s] = "polling"
  /\ Terminal(s) \/ entry[s] = "removed"
  /\ TaskEnds(s)
  /\ UNCHANGED <<entry, request, streamVars, stored, stopper, exitVars>>

PollOver(s) ==
  /\ Alive /\ task[s] = "polling"
  /\ Terminal(s)
  /\ TaskEnds(s)
  /\ UNCHANGED <<entry, request, streamVars, stored, stopper, exitVars>>

-----------------------------------------------------------------------------
(* The stream, on the threads of ipcam_gst (see Ingest).                   *)

(* The stream is given up; its last pipeline may still be up.              *)
StreamFails(s) ==
  /\ Alive /\ state[s] = "live"
  /\ state' = Becomes(state, s, "failed")
  /\ UNCHANGED <<entry, request, task, camera, told, stored, stopper, exitVars>>

(* A pipeline goes down, on an error or in stop().                         *)
Disconnects(s) ==
  /\ Alive /\ camera[s] = "held"
  /\ camera' = Becomes(camera, s, "free")
  /\ UNCHANGED <<entry, request, task, state, told, stored, stopper, exitVars>>

(* A rebuilt pipeline comes up, also one that was being built when stop()  *)
(* was called.                                                             *)
Connects(s) ==
  /\ Alive /\ camera[s] = "free" /\ state[s] \in {"live", "ended"}
  /\ camera' = Becomes(camera, s, "held")
  /\ UNCHANGED <<entry, request, task, state, told, stored, stopper, exitVars>>

(* The session thread is over once it failed or a stop() has begun, and    *)
(* leaves no pipeline; it decides the outcome if nobody did.               *)
ThreadEnds(s) ==
  /\ Alive /\ camera[s] \in {"held", "free"}
  /\ Terminal(s) \/ stopper[s] # "nobody"
  /\ camera' = Becomes(camera, s, "released")
  /\ state' = IF Terminal(s) THEN state ELSE Becomes(state, s, "ended")
  /\ UNCHANGED <<entry, request, task, told, stored, stopper, exitVars>>

-----------------------------------------------------------------------------
(* Shutdown.                                                               *)

(* SIGINT or SIGTERM cancels the token: axum drains and run() goes on.     *)
Signal ==
  /\ main = "serving"
  /\ main' = "signalled" /\ server' = "draining"
  /\ UNCHANGED <<sessionVars, ids>>

(* A second signal exits at once.                                          *)
SecondSignal ==
  /\ main \in {"signalled", "stopping", "awaiting"}
  /\ main' = "over"
  /\ UNCHANGED <<sessionVars, ids, server>>

CollectIds ==
  /\ main = "signalled"
  /\ main' = "stopping"
  /\ ids' = {s \in Sessions : Registered(s)}
  /\ UNCHANGED <<sessionVars, server>>

MainStops == \E s \in Sessions : stopper[s] = "main"

(* One removal after the other; a session that was deleted meanwhile is    *)
(* skipped by remove.                                                      *)
StopNext ==
  /\ main = "stopping" /\ ~MainStops
  /\ \E s \in ids :
       /\ ids' = ids \ {s}
       /\ IF Registered(s) THEN Remove(s, "main") ELSE UNCHANGED <<entry, stopper>>
  /\ UNCHANGED <<request, task, streamVars, told, stored, main, server>>

AllStopped ==
  /\ main = "stopping" /\ ids = {} /\ ~MainStops
  /\ main' = "awaiting"
  /\ UNCHANGED <<sessionVars, ids, server>>

(* The last connection is gone; a client may keep its own for ever.        *)
ServerDrained ==
  /\ server = "draining" /\ Alive
  /\ \A s \in Sessions : request[s] # "inserted" /\ stopper[s] # "handler"
  /\ server' = "closed"
  /\ UNCHANGED <<sessionVars, main, ids>>

(* Bug: shutdown() waits for axum without a deadline.                      *)
ExitWhenDrained ==
  /\ main = "awaiting" /\ server = "closed"
  /\ main' = "over"
  /\ UNCHANGED <<sessionVars, ids, server>>

(* shutdown() returns with the server or after SHUTDOWN_TIMEOUT, and the   *)
(* process exits.                                                          *)
Exit ==
  /\ main = "awaiting"
  /\ main' = "over"
  /\ UNCHANGED <<sessionVars, ids, server>>

-----------------------------------------------------------------------------
Finished == main = "over" /\ UNCHANGED vars

TaskStep(s) == ResolveUri(s) \/ StartStream(s) \/ StoreHandle(s) \/ PollOver(s)

ShutdownStep == CollectIds \/ StopNext \/ AllStopped \/ Exit

Next ==
  \/ \E s \in Sessions :
       \/ CreateSession(s) \/ FinishRequest(s) \/ DeleteSession(s)
       \/ StopHandle(s) \/ TaskStep(s)
       \/ StreamFails(s) \/ Disconnects(s) \/ Connects(s) \/ ThreadEnds(s)
  \/ Signal \/ SecondSignal \/ ServerDrained
  \/ ShutdownStep \/ Finished

Spec == Init /\ [][Next]_vars

(* Tasks are polled and the URI is resolved with a timeout; shutdown goes   *)
(* on; stop() returns, and a session thread whose state is terminal or     *)
(* whose stop() has begun ends (Ingest's StopEndsSession).  Cameras,       *)
(* clients and signals owe nothing, nor does the server.                   *)
FairSpec ==
  /\ Spec
  /\ \A s \in Sessions :
       WF_vars(TaskStep(s)) /\ WF_vars(StopHandle(s)) /\ WF_vars(ThreadEnds(s))
  /\ WF_vars(ShutdownStep)

-----------------------------------------------------------------------------
(* A stream that ever was in the registry does not outlive its entry: both *)
(* DELETE and stop_all reach it, in whatever order they and the task run;  *)
(* whoever took its handle out is at stop() until the stream has ended     *)
(* (lib.rs:125-133).                                                       *)
StoredIsStopped ==
  \A s \in stored : entry[s] = "removed" => Terminal(s) \/ stopper[s] # "nobody"

(* The camera of a session whose end was announced, or that was stored and *)
(* removed, is let go of, although its state turns terminal while a        *)
(* pipeline is up and a rebuilt one may still come up after that           *)
(* (stream.rs:75-80, session.rs:121, 135, 203-205).                        *)
EndReleasesCamera ==
  \A s \in Sessions :
    (s \in told /\ state[s] # "none") \/ (s \in stored /\ entry[s] = "removed")
      ~> camera[s] = "released" \/ main = "over"

(* One signal is enough to end the process, whatever clients and cameras do. *)
SignalEndsProcess == main # "serving" ~> main = "over"

=============================================================================
