---------------------------- MODULE CallSession -----------------------------
(***************************************************************************)
(* One run of the call UI: the UI thread (AppState plus the slint event    *)
(* queue), the SIP worker loop, and one tokio task per call that holds the *)
(* line.  Sources: crates/call-ui/src/{wiring,bridge,lib}.rs and           *)
(* crates/call-ui/src/session/{worker,dispatch,incoming,outgoing,          *)
(* call_loop}.rs.                                                          *)
(*                                                                         *)
(* The UI thread, the worker loop and the call tasks run on different      *)
(* threads, so their steps interleave freely.  A step lasts from one await *)
(* (or blocking call) to the next.                                         *)
(***************************************************************************)
EXTENDS AppState, Naturals

CONSTANTS CtlCap,   \* capacity of a call's control channel (4 in the code)
          MaxCmds   \* bound of the model: commands waiting when a key is pressed

ASSUME CtlCapAssumption == CtlCap \in Nat \ {0}
ASSUME MaxCmdsAssumption == MaxCmds \in Nat

VARIABLES
  window,   \* the UI thread in run(): event loop, worker.join(), returned
  evq,      \* closures queued by invoke_from_event_loop, oldest first
  cmdq,     \* the unbounded UI -> worker channel; `call` is history
  worker,   \* the sip-worker thread
  slot,     \* CallCtlTx: the call whose sender is in it
  ctl,      \* the control channel of the call in the slot
  kind,     \* who started each call
  task,     \* where each call's task stands
  dialog,   \* the SIP dialog as rsipstack reports it
  routes,   \* CallRoutes: calls a re-INVITE can be forwarded to
  media     \* calls whose MediaHandles are alive

uiVars     == <<appVars, window>>
workerVars == <<cmdq, worker>>
lineVars   == <<slot, ctl, routes, media>>
callVars   == <<kind, task, dialog>>
vars       == <<uiVars, evq, workerVars, lineVars, callVars>>

-----------------------------------------------------------------------------
EndEvents == {"Terminated", "Failed"}
Events == [type : {"Incoming", "Confirmed"} \cup EndEvents, call : Calls]

Keys == {"Accept", "Reject", "Hangup"}
Cmds == [cmd : {"Dial"} \cup Keys, call : Calls]

(* A dialog that is over cancels its token: "failed" was never confirmed,  *)
(* "ended" was.                                                            *)
Over == {"failed", "ended"}
DialogState == {"none", "early", "confirmed"} \cup Over

(* The task of a call lives from the claim of the slot to its release.     *)
Live == {"starting", "ringing", "inviting", "cancelling", "mediaStart",
         "talking", "closing", "endOk", "endErr", "posted"}
TaskState == Live \cup {"none", "dialled", "refused", "done", "aborted"}

TypeOK ==
  /\ AppTypeOK
  /\ window \in {"open", "joining", "closed"}
  /\ evq \in Seq(Events)
  /\ cmdq \in Seq(Cmds)
  /\ worker \in {"running", "stopping", "gone"}
  /\ slot \in Calls \cup {NoCall}
  /\ ctl \in Seq(Keys) /\ Len(ctl) <= CtlCap
  /\ kind \in [Calls -> {"none", "out", "in"}]
  /\ task \in [Calls -> TaskState]
  /\ dialog \in [Calls -> DialogState]
  /\ routes \subseteq Calls
  /\ media \subseteq Calls

Init ==
  /\ AppInit
  /\ window = "open"
  /\ evq = <<>>
  /\ cmdq = <<>>
  /\ worker = "running"
  /\ slot = NoCall
  /\ ctl = <<>>
  /\ kind = [c \in Calls |-> "none"]
  /\ task = [c \in Calls |-> "none"]
  /\ dialog = [c \in Calls |-> "none"]
  /\ routes = {}
  /\ media = {}

-----------------------------------------------------------------------------
(* The channels.                                                           *)

(* UiHandle::post: once the event loop is gone the event is dropped.       *)
Post(type, c) ==
  evq' = IF window = "open" THEN Append(evq, [type |-> type, call |-> c]) ELSE evq

(* wiring.rs apply: a send to a worker that has returned only logs.        *)
Send(cmd, c) ==
  cmdq' = IF worker = "gone" THEN cmdq ELSE Append(cmdq, [cmd |-> cmd, call |-> c])

(* mpsc::Sender::try_send on the control channel: a full one drops.        *)
TrySend(key) ==
  ctl' = IF Len(ctl) < CtlCap THEN Append(ctl, key) ELSE ctl

Received(key) == ctl # <<>> /\ Head(ctl) = key /\ ctl' = Tail(ctl)

GoTo(c, s) == task' = [task EXCEPT ![c] = s]
DialogBecomes(c, d) == dialog' = [dialog EXCEPT ![c] = d]

-----------------------------------------------------------------------------
(* The UI thread.                                                          *)

CanPress == window = "open" /\ Len(cmdq) < MaxCmds

UserDial(c) ==
  /\ CanPress
  /\ task[c] = "none"
  /\ DialFor(c)
  /\ Send("Dial", c)
  /\ GoTo(c, "dialled")
  /\ kind' = [kind EXCEPT ![c] = "out"]
  /\ UNCHANGED <<window, evq, worker, lineVars, dialog>>

UserKey(key, Effect) ==
  /\ CanPress
  /\ Effect
  /\ Send(key, subject)
  /\ UNCHANGED <<window, evq, worker, lineVars, callVars>>

UserAccept == UserKey("Accept", Accept)
UserReject == UserKey("Reject", Reject)
UserHangup == UserKey("Hangup", Hangup)

(* One queued closure runs AppState::on_event on the UI thread.            *)
Deliver ==
  /\ window = "open"
  /\ evq # <<>>
  /\ evq' = Tail(evq)
  /\ \/ Head(evq).type = "Incoming" /\ OnIncoming(Head(evq).call)
     \/ Head(evq).type = "Confirmed" /\ OnConfirmed
     \/ Head(evq).type = "Terminated" /\ OnTerminated
     \/ Head(evq).type = "Failed" /\ OnFailed
  /\ UNCHANGED <<window, workerVars, lineVars, callVars>>

(* ui.run() returns, and run() drops its own command sender and joins the  *)
(* worker: what is queued is never delivered.  (The records are CallLog's: *)
(* here unsaved keeps every record ever pushed.)                           *)
UserClose ==
  /\ window = "open"
  /\ window' = "joining"
  /\ evq' = <<>>
  /\ UNCHANGED <<appVars, workerVars, lineVars, callVars>>

(* The join is over; run() returns and drops `ui`, its callbacks with it.  *)
RunReturns ==
  /\ window = "joining" /\ worker = "gone"
  /\ window' = "closed"
  /\ UNCHANGED <<appVars, evq, workerVars, lineVars, callVars>>

-----------------------------------------------------------------------------
(* The worker loop: handle_cmd and the incoming-call callback run on it.   *)

Claim(c) ==
  /\ slot' = c
  /\ ctl' = <<>>
  /\ GoTo(c, "starting")

NextCmd == worker = "running" /\ cmdq # <<>> /\ cmdq' = Tail(cmdq)

(* Bug: a return without telling the UI.                                   *)
RefuseDialSilently(c) == GoTo(c, "refused") /\ UNCHANGED <<evq, slot, ctl>>

(* prepare_dial refused: the line is busy, or the number is no SIP URI.    *)
RefuseDial(c) ==
  /\ Post("Failed", c)
  /\ GoTo(c, "refused")
  /\ UNCHANGED <<slot, ctl>>

(* Bug: the slot is taken without being looked at.                         *)
HandleDialUnchecked ==
  /\ NextCmd
  /\ Head(cmdq).cmd = "Dial"
  /\ Claim(Head(cmdq).call)
  /\ UNCHANGED <<uiVars, evq, worker, routes, media, kind, dialog>>

HandleDial ==
  /\ NextCmd
  /\ Head(cmdq).cmd = "Dial"
  /\ LET c == Head(cmdq).call
     IN \/ RefuseDial(c)
        \/ slot = NoCall /\ Claim(c) /\ UNCHANGED evq
  /\ UNCHANGED <<uiVars, worker, routes, media, kind, dialog>>

(* Accept, Reject and Hangup go to whichever call is in the slot.          *)
HandleKey ==
  /\ NextCmd
  /\ Head(cmdq).cmd \in Keys
  /\ IF slot = NoCall THEN UNCHANGED ctl ELSE TrySend(Head(cmdq).cmd)
  /\ UNCHANGED <<uiVars, evq, worker, slot, routes, media, callVars>>

(* Bug: a second INVITE takes the line over.                               *)
IncomingCallUnchecked(c) ==
  /\ worker = "running"
  /\ task[c] = "none"
  /\ kind' = [kind EXCEPT ![c] = "in"]
  /\ Claim(c)
  /\ DialogBecomes(c, "early")
  /\ routes' = routes \cup {c}
  /\ UNCHANGED <<uiVars, evq, workerVars, media>>

(* make_incoming_handler: 486 on a busy line, else claim, route and spawn. *)
IncomingCall(c) ==
  /\ worker = "running"
  /\ task[c] = "none"
  /\ kind' = [kind EXCEPT ![c] = "in"]
  /\ \/ /\ slot # NoCall
        /\ GoTo(c, "refused")
        /\ DialogBecomes(c, "failed")
        /\ UNCHANGED <<slot, ctl, routes>>
     \/ /\ slot = NoCall
        /\ Claim(c)
        /\ DialogBecomes(c, "early")
        /\ routes' = routes \cup {c}
  /\ UNCHANGED <<uiVars, evq, workerVars, media>>

(* The loop breaks and shutdown() hangs up the call in the slot.           *)
Stop ==
  /\ worker = "running"
  /\ worker' = "stopping"
  /\ IF slot = NoCall THEN UNCHANGED ctl ELSE TrySend("Hangup")
  /\ UNCHANGED <<uiVars, evq, cmdq, slot, routes, media, callVars>>

(* Registration, the transaction loop or the dialog state loop returned.   *)
ResidentLoopExits == Stop

(* Who can still send a command: run() itself, and the clones in the       *)
(* callbacks, which live as long as its `ui`.                              *)
CmdSenders ==
  {s \in {"run", "callbacks"} : window = "open" \/ (s = "callbacks" /\ window = "joining")}

(* recv() returns None, which also stops the loop.                         *)
CmdChannelClosed == CmdSenders = {} /\ cmdq = <<>> /\ Stop

(* run() returned after the 500 ms for the BYE and the 2 s of REGISTER: the *)
(* runtime is dropped, and with it every task that is still at an await.   *)
RuntimeDropped ==
  /\ worker = "stopping"
  /\ worker' = "gone"
  /\ cmdq' = <<>>
  /\ slot' = NoCall
  /\ ctl' = <<>>
  /\ routes' = {}
  /\ media' = {}
  /\ task' = [c \in Calls |-> IF task[c] \in Live THEN "aborted" ELSE task[c]]
  /\ UNCHANGED <<uiVars, evq, kind, dialog>>

-----------------------------------------------------------------------------
(* The network.  A BYE reaches its dialog through the worker's transaction *)
(* loop; CANCEL and responses reach theirs while the runtime lives.        *)

PeerAnswers(c) ==
  /\ worker # "gone"
  /\ kind[c] = "out" /\ dialog[c] = "early"
  /\ DialogBecomes(c, "confirmed")
  /\ UNCHANGED <<uiVars, evq, workerVars, lineVars, kind, task>>

PeerEnds(c) ==
  /\ \/ worker # "gone" /\ dialog[c] = "early" /\ DialogBecomes(c, "failed")
     \/ worker = "running" /\ dialog[c] = "confirmed" /\ DialogBecomes(c, "ended")
  /\ UNCHANGED <<uiVars, evq, workerVars, lineVars, kind, task>>

-----------------------------------------------------------------------------
(* The task of a received call: handle_incoming.                           *)

AtIn(c, s)  == worker # "gone" /\ kind[c] = "in" /\ task[c] = s
AtOut(c, s) == worker # "gone" /\ kind[c] = "out" /\ task[c] = s
At(c, s)    == worker # "gone" /\ task[c] = s

(* dialog.reject and accept act on a dialog that is not over yet.          *)
Rejected(c) == DialogBecomes(c, IF dialog[c] = "early" THEN "failed" ELSE dialog[c])

(* 180 Ringing fails only on an INVITE that was cancelled meanwhile.       *)
Ring(c) ==
  /\ AtIn(c, "starting")
  /\ \/ GoTo(c, "ringing") /\ Post("Incoming", c)
     \/ dialog[c] \in Over /\ GoTo(c, "endErr") /\ UNCHANGED evq
  /\ UNCHANGED <<uiVars, workerVars, lineVars, kind, dialog>>

PeerCancelled(c) ==
  /\ AtIn(c, "ringing")
  /\ dialog[c] \in Over
  /\ GoTo(c, "endOk")
  /\ UNCHANGED <<uiVars, evq, workerVars, lineVars, kind, dialog>>

(* Bug: no third branch in the select!.                                    *)
NoRingTimeout(c) == FALSE

(* Reject, Hangup, or nothing at all for 30 s.                             *)
Decline(c) ==
  /\ AtIn(c, "ringing")
  /\ Received("Reject") \/ Received("Hangup")
  /\ Rejected(c)
  /\ GoTo(c, "endOk")
  /\ UNCHANGED <<uiVars, evq, workerVars, slot, routes, media, kind>>

RingTimeout(c) ==
  /\ AtIn(c, "ringing")
  /\ Rejected(c)
  /\ GoTo(c, "endOk")
  /\ UNCHANGED <<uiVars, evq, workerVars, lineVars, kind>>

(* Bug: `?` on the error without the reject before it.                     *)
AnswerCallUnrejected(c) ==
  /\ AtIn(c, "ringing")
  /\ Received("Accept")
  /\ \/ /\ DialogBecomes(c, IF dialog[c] = "early" THEN "confirmed" ELSE dialog[c])
        /\ Post("Confirmed", c)
        /\ GoTo(c, "mediaStart")
     \/ GoTo(c, "endErr") /\ UNCHANGED <<dialog, evq>>
  /\ UNCHANGED <<uiVars, workerVars, slot, routes, media, kind>>

(* Accept: bind the RTP sockets, negotiate, 200 OK.  Sockets that cannot   *)
(* be bound, an offer that does not parse and a failing accept are all     *)
(* answered with a reject first.                                           *)
AnswerCall(c) ==
  /\ AtIn(c, "ringing")
  /\ Received("Accept")
  /\ \/ /\ DialogBecomes(c, IF dialog[c] = "early" THEN "confirmed" ELSE dialog[c])
        /\ Post("Confirmed", c)
        /\ GoTo(c, "mediaStart")
     \/ /\ Rejected(c)
        /\ GoTo(c, "endErr")
        /\ UNCHANGED evq
  /\ UNCHANGED <<uiVars, workerVars, slot, routes, media, kind>>

-----------------------------------------------------------------------------
(* The task of a dialled call: handle_outgoing.                            *)

StartInvite(c) ==
  /\ AtOut(c, "starting")
  /\ \/ GoTo(c, "inviting") /\ DialogBecomes(c, "early")
     \/ GoTo(c, "endErr") /\ UNCHANGED dialog
  /\ UNCHANGED <<uiVars, evq, workerVars, lineVars, kind>>

(* Bug: the route of a dialled call is not registered.                     *)
InviteAnsweredUnrouted(c) ==
  /\ AtOut(c, "inviting")
  /\ dialog[c] \in {"confirmed", "ended"}
  /\ \/ GoTo(c, "mediaStart") /\ Post("Confirmed", c)
     \/ GoTo(c, "endErr") /\ UNCHANGED evq
  /\ UNCHANGED <<uiVars, workerVars, lineVars, kind, dialog>>

(* 200 OK: the route is registered, then the answer SDP is parsed.         *)
InviteAnswered(c) ==
  /\ AtOut(c, "inviting")
  /\ dialog[c] \in {"confirmed", "ended"}
  /\ routes' = routes \cup {c}
  /\ \/ GoTo(c, "mediaStart") /\ Post("Confirmed", c)
     \/ GoTo(c, "endErr") /\ UNCHANGED evq
  /\ UNCHANGED <<uiVars, workerVars, slot, ctl, media, kind, dialog>>

InviteRefused(c) ==
  /\ AtOut(c, "inviting")
  /\ dialog[c] = "failed"
  /\ GoTo(c, "endErr")
  /\ UNCHANGED <<uiVars, evq, workerVars, lineVars, kind, dialog>>

(* The select! may see the key before a final response that is also there. *)
InviteKey(c) ==
  /\ AtOut(c, "inviting")
  /\ \/ Received("Hangup") /\ GoTo(c, "cancelling")
     \/ (Received("Accept") \/ Received("Reject")) /\ UNCHANGED task
  /\ UNCHANGED <<uiVars, evq, workerVars, slot, routes, media, kind, dialog>>

(* CANCEL came back.  If the 200 OK crossed it the call is up: BYE.        *)
CancelDone(c) ==
  /\ AtOut(c, "cancelling")
  /\ \/ dialog[c] = "early" /\ DialogBecomes(c, "failed") /\ GoTo(c, "endOk")
     \/ dialog[c] = "early" /\ UNCHANGED dialog /\ GoTo(c, "endErr")
     \/ dialog[c] = "confirmed" /\ UNCHANGED dialog /\ GoTo(c, "closing")
     \/ dialog[c] \in Over /\ UNCHANGED dialog /\ GoTo(c, "endOk")
  /\ UNCHANGED <<uiVars, evq, workerVars, lineVars, kind>>

-----------------------------------------------------------------------------
(* Both kinds of call: media, call_loop and finish_call.                   *)

(* No supported codec, or a pipeline that fails, leaves a call without media. *)
MediaUp(c) ==
  /\ At(c, "mediaStart")
  /\ GoTo(c, "talking")
  /\ media' \in {media, media \cup {c}}
  /\ UNCHANGED <<uiVars, evq, workerVars, slot, ctl, routes, kind, dialog>>

(* Bug: call_loop does not select on the cancel token.                     *)
PeerHungUpUnseen(c) == FALSE

PeerHungUp(c) ==
  /\ At(c, "talking")
  /\ dialog[c] \in Over
  /\ GoTo(c, "endOk")
  /\ UNCHANGED <<uiVars, evq, workerVars, lineVars, kind, dialog>>

TalkKey(c) ==
  /\ At(c, "talking")
  /\ \/ Received("Hangup") /\ GoTo(c, "closing")
     \/ (Received("Accept") \/ Received("Reject")) /\ UNCHANGED task
  /\ UNCHANGED <<uiVars, evq, workerVars, slot, routes, media, kind, dialog>>

(* bye_with_headers returned: answered, moot, or failed (`?`: an Err).     *)
ByeDone(c) ==
  /\ At(c, "closing")
  /\ \/ DialogBecomes(c, IF dialog[c] = "confirmed" THEN "ended" ELSE dialog[c])
        /\ GoTo(c, "endOk")
     \/ dialog[c] = "confirmed" /\ GoTo(c, "endErr") /\ UNCHANGED dialog
  /\ UNCHANGED <<uiVars, evq, workerVars, lineVars, kind>>

(* Bug: the media handles outlive the inner future.                        *)
PostEndStreaming(c) ==
  /\ At(c, "endOk") \/ At(c, "endErr")
  /\ Post(IF task[c] = "endOk" THEN "Terminated" ELSE "Failed", c)
  /\ routes' = routes \ {c}
  /\ GoTo(c, "posted")
  /\ UNCHANGED <<uiVars, workerVars, slot, ctl, media, kind, dialog>>

(* The inner future is over and dropped its media; the route is removed and *)
(* the result posted, before the slot is cleared.                          *)
PostEnd(c) ==
  /\ At(c, "endOk") \/ At(c, "endErr")
  /\ Post(IF task[c] = "endOk" THEN "Terminated" ELSE "Failed", c)
  /\ media' = media \ {c}
  /\ routes' = routes \ {c}
  /\ GoTo(c, "posted")
  /\ UNCHANGED <<uiVars, workerVars, slot, ctl, kind, dialog>>

Release(c) ==
  /\ At(c, "posted")
  /\ slot' = NoCall
  /\ ctl' = <<>>
  /\ GoTo(c, "done")
  /\ UNCHANGED <<uiVars, evq, workerVars, routes, media, kind, dialog>>

-----------------------------------------------------------------------------
(* The process is over: nothing is left to happen.                         *)
Exited == window = "closed" /\ UNCHANGED vars

TaskStep(c) ==
  \/ Ring(c) \/ PeerCancelled(c) \/ Decline(c) \/ RingTimeout(c) \/ AnswerCall(c)
  \/ StartInvite(c) \/ InviteAnswered(c) \/ InviteRefused(c) \/ InviteKey(c) \/ CancelDone(c)
  \/ MediaUp(c) \/ PeerHungUp(c) \/ TalkKey(c) \/ ByeDone(c) \/ PostEnd(c) \/ Release(c)

UserStep ==
  \/ \E c \in Calls : UserDial(c)
  \/ UserAccept \/ UserReject \/ UserHangup \/ UserClose

WorkerStep ==
  \/ HandleDial \/ HandleKey \/ ResidentLoopExits \/ RuntimeDropped
  \/ \E c \in Calls : IncomingCall(c)

NetworkStep == \E c \in Calls : PeerAnswers(c) \/ PeerEnds(c)

Next ==
  \/ UserStep
  \/ Deliver \/ RunReturns
  \/ WorkerStep
  \/ NetworkStep
  \/ \E c \in Calls : TaskStep(c)
  \/ Exited

Spec == Init /\ [][Next]_vars

(* What the schedulers owe: the event loop drains its queue, the worker    *)
(* loop its commands, and it notices that its channel closed (the code has *)
(* no other step than Stop for that, so Next names it only there); a ready *)
(* task is polled, and what a task awaits (a    *)
(* transaction, the 30 s timer, the media pipeline) ends.  The user and    *)
(* the peer owe nothing.                                                   *)
Fairness ==
  /\ WF_vars(Deliver)
  /\ WF_vars(HandleDial \/ HandleKey)
  /\ WF_vars(CmdChannelClosed)
  /\ WF_vars(RunReturns)
  /\ WF_vars(RuntimeDropped)
  /\ \A c \in Calls : WF_vars(TaskStep(c))

FairSpec == Spec /\ Fairness

-----------------------------------------------------------------------------
(* Safety.                                                                 *)

(* A call's task runs exactly while the slot is the call's: two calls never *)
(* run at once, and no call loses the line to another (dispatch.rs: every  *)
(* entry checks the slot before it takes it).                              *)
SlotOwner == \A c \in Calls : task[c] \in Live <=> slot = c

(* Microphone and camera stream only for the call on the line, only once   *)
(* that call was answered, and not after its end was announced.            *)
MediaFollowsCall ==
  \A c \in media :
    /\ slot = c /\ task[c] # "posted"
    /\ dialog[c] \notin {"none", "early"}

(* A re-INVITE is only ever forwarded to the call on the line, and a call  *)
(* in conversation can always be reached by one.                           *)
RoutesFollowCall ==
  /\ \A c \in routes : slot = c /\ task[c] # "posted"
  /\ \A c \in Calls : task[c] \in {"mediaStart", "talking"} => c \in routes

HasEnd(q) == \E i \in DOMAIN q : q[i].type \in EndEvents
HasDial == \E i \in DOMAIN cmdq : cmdq[i].cmd = "Dial"

(* The screen never shows a call that nothing backs: while it is not idle, *)
(* a dial is on its way to the worker, a call holds the line, or the event *)
(* that resets the screen is already queued.                               *)
NoOrphanUi ==
  worker = "running" /\ window = "open" /\ phase # "Idle"
    => HasDial \/ slot # NoCall \/ HasEnd(evq)

(* A caller is never left ringing: by the time a received call's task ends, *)
(* its INVITE has had a final answer on every path (incoming.rs:104-105).   *)
CallerAnswered ==
  \A c \in Calls : kind[c] = "in" /\ task[c] \in {"refused", "posted", "done"} => dialog[c] # "early"

(* However late the events of a call arrive, the call is logged at most     *)
(* once (app.rs:176-177).                                                   *)
OneRecordPerCall ==
  \A i, j \in DOMAIN unsaved : unsaved[i].call = unsaved[j].call => i = j

(* The slot, the tasks and the media together implement the exclusive line. *)
Line == INSTANCE CallLine WITH
  holder    <- slot,
  served    <- {c \in Calls : task[c] \in Live \cup {"done", "aborted"}},
  streaming <- media
LineSpec == Line!LineSpec

-----------------------------------------------------------------------------
(* Liveness, under FairSpec.                                               *)

OnLine(d) == slot # NoCall /\ dialog[slot] \in d

(* Once the callee answered, refused or ended the call, the screen does not *)
(* go on showing it as being dialled.                                       *)
DialResolves ==
  phase = "Outgoing" /\ dialog[subject] \in {"confirmed"} \cup Over
    ~> phase # "Outgoing" \/ window # "open" \/ worker # "running"

(* A received INVITE does not ring for ever, whatever the user does.       *)
RingingEnds ==
  OnLine({"early"}) /\ kind[slot] = "in"
    ~> ~OnLine({"early"}) \/ worker # "running"

(* When the peer hangs up, the line becomes free for the next call.        *)
PeerHangupFreesLine == OnLine(Over) ~> slot = NoCall

=============================================================================
