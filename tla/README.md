# media_talk_rust in TLA+

A verification project for media_talk_rust, a video intercom: a slint screen, a SIP
worker, camera ingest over RTSP and a web display, in Rust over tokio, rsipstack and
GStreamer. Paths below are relative to `src/crates/` unless they say otherwise.

The project models the parts where threads, tasks, the network, the database file and
the hardware meet, and the pure parts they run (SDP, codec choice, pipeline graphs). TLC
checks them on small instances; TLAPS proves every safety property of the runs for every value
of the constants. `PROJECT.json` maps every definition to the lines it models, and every
hazard of the code to the properties that would catch it.

## The system

| Component | State it keeps | Operations | Talks to | What is hard |
|---|---|---|---|---|
| UI call state machine, `call-ui/src/app.rs` | phase, direction, confirmation time, unsaved records | dial, accept, reject, hangup, on_event | called by the UI thread only | events are late and carry no call identity |
| UI event loop, `bridge.rs`, `wiring.rs`, `lib.rs` | queue of closures, command channel | callbacks, post, run, shutdown | every background thread posts to it | it answers the user before the worker has acted; it joins the worker at exit |
| SIP worker and call slot, `session/worker.rs`, `dispatch.rs` | the slot with the control channel of the one call | handle_cmd, incoming INVITE, shutdown | commands in, events out, spawns call tasks | busy check and claim on two entries; the slot is released by the task |
| Call tasks, `session/{incoming,outgoing,call_loop}.rs` | dialog, RTP ports, media, route | ring, answer, decline, invite, cancel, BYE, finish | control channel in, events out, dialog of rsipstack | select! over keys, timer and peer; CANCEL crossing 200 OK; failures half way |
| Call records, `persist.rs`, `store/` | records not yet written, SQLite table | 1 s timer, drain at exit | UI thread | records taken before they are written; calls alive at exit |
| SIP registration, `ipcam-sip/src/client.rs` | registered flag, back-off, cancel token | register, renew, retry, unregister | status watch to the worker | renewal failing, cancellation in any place |
| SIP dispatch, `ipcam-sip/src/{incoming,call_route}.rs` | dialog map, call routes | dispatch of dialogs, forward_update | worker, call tasks | a re-INVITE waits 2 s for a task while other dialog events wait for it |
| SDP and negotiation, `ipcam-sip/src/{sdp,negotiate}.rs`, `media/plan.rs` | none | parse, choose codecs, build answers | call tasks | directions and payload types on both sides |
| Media handles, RTP pipelines, `media/`, `ipcam-gst/src/rtp_*` | GStreamer pipelines of a call | start, renegotiate, drop | call tasks | thread joins in drop |
| RTSP ingest, `ipcam-gst/src/ingest/` | stream state, stop signal, pipeline slot, terminal outcome | start, stop, watch, reconnect, fire_terminal | own thread and a statistics thread; owners call stop | stop crossing failures, back-off and rebuilding |
| Monitor page, `call-ui/src/camera/mod.rs` | the one running view, the highlighted camera | select, stop, leave, MonitorFailed | ingest, the UI queue, the calls' picture | late failures; the picture is shared with the calls |
| Web display, `web-display/src/`, `media_talk_rust/src/ipc/` | session registry, stream handles | create, delete, shutdown | ingest, HTTP handlers | create, delete and shutdown at once |
| Camera settings, `camera/settings.rs`, `store/{cameras,migrate}.rs` | rows of cameras | add, save found, delete, merge by host | several threads, a connection each | read and write are two statements |
| Screen, `screen.rs` | display on or off, brightness remembered | power key, wake, slider | sysfs files that may refuse | one of several writes failing |
| Weather, `weather.rs` | caches of the place in the kv table | refresh, back-off, change of city | UI thread empties the caches | change of city during a request |
| Keyboard, discovery, boards, command line | none that lasts | library calls, lists | UI thread | little concurrency |

What makes each correct. One call has the line, from claim to release, and its media and
route follow it. Every caller gets a final answer. The screen shows a call only while
something backs it. A call is recorded once, and its record reaches the table. A dial, a
ringing call and a hung-up call resolve. The client can be reached whenever it believes to
be registered, and comes back after an outage. The media of a call run by the last offer
answered, and both ends read an answer alike. One stalled outlet does not stop the others.
The ingest session ends once, tells it once with the camera released, and stops when told
to. At most one camera plays on the panel, and who takes a stored stream out of the web
display's registry stops it. A device keeps one row, its best. A new city is shown at once. A
display that is dark is covered, so that a tap wakes it.

## Modules

| Module | Models |
|---|---|
| `AppState` | the call part of `call-ui/src/app.rs`: each operator is the effect of one method or event arm |
| `CallSession` | UI thread, worker loop, call tasks and network, over `AppState` |
| `CallLine` | abstract: one exclusive line, free of media when it changes hands |
| `Register` | the registration loop, the registrar and the worker that shows the outcome |
| `Sdp`, `Negotiate` | operators: SDP bodies written and read; codec choice, answers, plans |
| `Media` | the pipelines of one call and the offers its peer makes during it, over `Negotiate` |
| `Elements` | operators: GStreamer graphs as sets of links between queues, tees and outlets |
| `Receiver`, `Sender`, `Tracks` | operators: the graphs that `rtp_recv`, `rtp_send` and `ingest/track.rs` build, step by step |
| `Pipeline` | one pipeline from construction to its end: pads, stalled outlets, EOS, stop |
| `Ingest` | one RTSP session: session thread, statistics thread, callers of stop() |
| `Stream` | abstract: what a streaming session promises its owner |
| `Monitor` | the monitor page composed with the whole of `CallSession` |
| `WebDisplay` | the session registry, its streaming tasks, HTTP handlers and shutdown |
| `CallLog` | call records and contacts between screen, memory and table |
| `Cameras` | saved cameras: concurrent saving, the merge by host, the settings page |
| `Weather` | the weather worker, its caches, and the settings that steer it |
| `Screen` | the display: power key, overlay, slider, restarts |
| `MC...` | one TLC instance each of the modules that have variables |
| `CallSession_proofs` | theorems about `CallSession` (the line, the screen, the record), its refinement of `CallLine`, and `Monitor` |
| `Media_proofs` | theorems about `Media`, and about the operators of `Sdp` and `Negotiate` it runs |
| `Pipeline_proofs` | theorems about the sessions of `Pipeline` and the graphs of `Tracks` |
| `Store_proofs` | theorems about `Cameras` and `CallLog` |
| `Ingest_proofs`, `Register_proofs`, `WebDisplay_proofs`, `Screen_proofs` | theorems about the module each is named after; `Ingest_proofs` has the refinement of `Stream` |

Composition: `CallSession` extends `AppState`, `Monitor` extends `CallSession`, `Media` extends
`Negotiate` extends `Sdp`, and `Pipeline` extends `Receiver`, `Sender` and `Tracks`, all over
`Elements`. `CallSession` implements `CallLine` and `Ingest` implements `Stream`. Where one
module needs another only by what it promises, it takes the promise: a view of `Monitor`, a
stream of `WebDisplay` and the media of `CallSession` start, fail and stop as `Ingest` and
`Media` allow, without their inside.

### CallSession and the code

The UI thread, the worker (a multi-thread tokio runtime, `worker.rs:51`) and the call tasks
run in parallel, so their steps interleave freely; a step lasts from one await or blocking
call to the next. `handle_cmd` and the incoming-call handler are polled by the same task and
never overlap.

* `phase`, `dir`, `confirmed`, `unsaved` are the fields of `AppState`; `evq` is the queue of
  `invoke_from_event_loop`; `cmdq` the unbounded channel to the worker; `slot` and `ctl` are
  `CallCtlTx` and the channel of four keys in it; `task[c]` is the place of the task of `c` in
  `handle_incoming` or `handle_outgoing`; `routes` is `CallRoutes`; `media` the calls whose
  `MediaHandles` live. `dialog` is rsipstack's view of the SIP dialog.
* The code's events and commands name no call. `subject` and the `call` of events and
  commands are history: no guard reads them, except that `Incoming` and `Dial` bring the call
  they start.
* `window` follows the UI thread through `run()`: event loop, join of the worker, returned.
  The command senders in the callbacks live as long as its local `ui`.
* External, modelled from their use: the dialog of rsipstack (reject, accept, cancel, BYE,
  final answers; a ringing, reject or accept fails only when the transaction is over; cancel
  leaves the dialog over or failed to send) and the peer, who may answer, refuse, cancel and
  hang up whenever the dialog allows it, or never.

### Ingest and the code

`sess` is the place of the session thread in `spawn_session_loop`, `watch_bus` and
`reconnect_session`; `waiter` that of both threads in `wait_or_stop`, including the gap
between its check of the flag and its sleep; `caller` that of each caller of stop(). The
steps are locks, atomics and blocking calls. `state`, `terminal`, `hook` are the `Inner` of
the handle, `pipe`, `fresh` and `slot` where a pipeline is. Lengths of delays and the frame
counters are left out, and so are the unlimited policy of the web display and a pipeline
that fails half way through its construction.

### Monitor and the code

A view is one `GstStreamHandle` that `select` starts; what happens inside is `Ingest`'s, here
it runs and is stopped or fails at any time, and after a failure its callback runs some
time later on its own thread. The dial and accept callbacks stop the monitor
and then act on the call, in one step of the UI thread. `MonitorFailed` closures are kept
apart from the call events: they touch no common state, so their order among them is free.
The frames and the blanking of the picture are left out.

### Register and the code

`loop` is the place in `process_register` and `register_cycle`, `cycle` the result of the last
cycle, `timer` the sleep or the transaction that runs out, `cancelled` the token, `answer` the
response on its way. `bound` is what the registrar (external) will still keep. Time moves in
ticks of one second, only while nothing else is due; a round trip takes none. `RefreshAfter`
and `NextBackoff` are the arithmetic of the source, integer division included. The status
watch keeps only its last value; the worker's events go to a queue as in `CallSession`.

### Media, Sdp, Negotiate and the code

A body is a record of its media lines: payload types in order, rtpmap and fmtp as functions,
and a `c=` address per line or for all. A parser that returns an error returns `Invalid`.
`Media` runs the operators on every body of its instance: `plan`, `receiver` and `sender` are
the fields of `MediaHandles`; `updates` the channel of `CallRoutes` (one place); `working` the
offer the task is at; `queue` the dialog events of the state loop, which serves other dialogs
too (`Other`) and waits for the task of this one, two seconds at the most. Then the
loop answers the offer by itself with an empty 200 (`Bare`), and the task may still take it up.
Offers have numbers as history: no guard reads an earlier one.

### Pipeline, Elements and the code

A graph is a set of links, a builder a sequence of steps that add links or fail. Of an element
only this is kept: whether it has a thread of its own (sources and queues), whether a full
queue waits or drops, and whether buffers end in it. Which sources are stuck follows from
the links and the outlets that stall. Pads of a session appear in any order and their
callbacks run at the same time, one lock at a time. stop() sends EOS, waits five seconds on
the bus, then sets the state to Null. EOS travels in the thread that sends it as far as a queue
or an outlet, so that an outlet that stalls on that way, or a queue that is full and waits, holds
the sender (`EosIsKeptOut`). The state Null frees threads that wait in a queue or for the clock and
joins them all, so that a callback which never returns holds it (`InCallback`). How GStreamer
stalls and stops is external, modelled from how the code copes with it.

### WebDisplay and the code

`entry` is the value in the registry (absent, without handle, with one, removed), `task` the
place of the streaming task, `told` what was announced on `state_tx`, `main` and `ids` the
shutdown of `serve::run` with the copy of the keys that `stop_all` takes, `server` the axum task
with its graceful shutdown. Of the ingest session there are `state`, which is all the task
polls, `camera`, which its pipelines hold, let go of between two attempts, or have released for
good, and `stopper`, who is at stop(): the state turns terminal while a pipeline is still up, a
rebuilt one may come up after stop() ended it, and the session thread releases the camera last.
`stored` is history.

### CallLog, Cameras and the code

Both work statement by statement, as there is no transaction in the code: `job`, and the
place of each thread, are what it has read and has still to write. In `CallLog` all of it runs
on the UI thread, but another connection may hold the file (a statement then fails) and the
process may be killed between two statements; the table survives. A start that cannot read a
table goes on with an empty screen. `lost` and `hidden` are history: records whose write
failed, and those of the table that the last start could not read. In `Cameras` two saving
threads, the weather worker (it opens the store, and opening merges) and the UI thread race on
the rows of a device; any statement of theirs may fail, and a merge is given up at the
first delete that does.

### Weather, Screen and the code

`Weather` follows one refresh through its awaits: the city read, the place found, the weather
asked, the caches written; the settings change city and provider and empty the caches at any
of these points, and wake the worker. Requests, reads and the emptying of either cache fail
at will; how long the worker backs off is left out. `Screen` has one action per callback;
inside it `PowerOff`, `PowerOn` and `WriteAll` give the set of results that follow when any of
the writes is refused. The process may end at any time and start again over the display as it
is; what the detection of hardware finds is the constant `Boards`. A board has the scale of its
backlight (`max`) and whether its panel obeys `bl_power` also where the brightness can be
written (`obeys`), which the code leaves open (`screen.rs:49`, 186). Its `max_brightness` is
taken as readable. In both modules `excuse` is history: the reasons for which the code does
not keep what the property says, each set by the step in which it arises.

## What the runs check

| Run | Instance | States | Shows |
|---|---|---|---|
| `calls` | 2 calls, control channel of one, 2 pending commands, fair | 265 k | `SlotOwner`, `MediaFollowsCall`, `RoutesFollowCall`, `NoOrphanUi`, `CallerAnswered`, `OneRecordPerCall`, refinement of `CallLine`, `DialResolves`, `RingingEnds`, `PeerHangupFreesLine` |
| `ingest` | 2 callers, 2 attempts, fair | 13 k | `FailureIsDue`, refinement of `Stream`, `StopEndsSession`, `OutcomeIsTold`, `RetriesEnd` |
| `monitor` | 1 call, 2 cameras, 2 views, symmetric | 219 k | `RunningIsHeld`, `SelectionIsLive`, `DialSilencesMonitor` |
| `register` | expiry 8 s, granted whole or less one, back-off 1 to 4 s, fair | 8.7 k | `BoundWhileAsleep`, `Rebinds`, `StopEndsLoop` |
| `web` | 2 sessions, fair | 68 k | `StoredIsStopped`, `SignalEndsProcess`, `EndReleasesCamera` |
| `media` | every offer and answer of a set of bodies, 3 offers a call, fair | 111 k | `LastAnswerRules`, `EndsAgree`, `OffersAnswered` |
| `pipelines` | 6 receivers, 3 senders, 3 sessions with 5 kinds of camera, one stalled outlet, fair | 24 k | `OneTrackPerKind`, `UsableTrackPlays`, `StallStaysLocal`, `StopReturns` |
| `calllog` | 4 calls, 2 contacts, screen of 2 over a table of 3, 2 starts, fair | 89 k | `LogIsTable`, `EntryMeansItsContact`, `RecordsAreWritten` |
| `cameras` | 1 device with 2 streams, 2 saving threads, 3 additions, fair | 516 k | `MergeLeavesTheBest`, `IdMeansItsDevice`, `DuplicatesMerge` |
| `weather` | 2 cities, 3 changes, fair | 213 k | `NewCityIsShown` |
| `screen` | 40 displays, brightness up to 255 or up to 7, 3 places of the slider | 41 k | `DarkIsCovered`, `SliderTellsBrightness` |
| `weather_relocated` | 2 cities, 2 changes, fair | | `CityIsRelocated` is violated: a finding |

What each property says, and the lines it is about, stands above its definition.

The finding. A comment in `wiring.rs:114` says that a change of the weather settings empties
the cached location and wakes the worker to locate itself at once. `weather_relocated` shows a
run without any failure in which it does not: the worker has read the old city and waits for
its place, the settings change the city and empty the caches, the answer comes and is cached,
and the worker that is woken finds it there. The old city is shown until a setting is changed
again.

Bounds, and why they are enough.

* Calls. A call has one life, so the number of calls bounds the run: with two, one ends while the
  other is dialled, arrives or is refused, in both directions and in every order. (Three calls
  were checked too, 2.3 M states; nothing new happens.) `MaxCmds` only limits when the user
  presses a key: two waiting commands let a dial follow a hang-up. The control channel has four
  places in the code; with one, a full channel stays within reach. (Four places and three
  commands were checked too, for safety, with symmetric calls, 426 k states; the safety theorems
  hold for all of them.) The monitor run takes one place and one command.
* Ingest and monitor. Two callers of stop() are the least that race; two attempts give a retry
  that is followed by another and one that is the last. Two cameras and two views are the
  least for a change of camera and for a second view of one camera.
* Register. Eight seconds leave the renewal two seconds of margin, and an expiry granted one
  second shorter leaves one; the back-off doubles twice and reaches its limit.
* Media. Three offers let one be answered late while the next waits, with one more to come
  after both. The bodies hold the codecs the program knows and some it does not, two orders, static
  and dynamic payload types, one out of range, one lane only, and this program's own offer.
* Pipelines. The configurations differ in which outlets share a source; two pads of one kind
  are the least that contend for its slot. One outlet stalls at a time: the properties compare
  it with the others.
* CallLog. A screen shorter than the table, and the table shorter than the calls, so that both
  limits are passed; the second start reads what the first left, or cannot.
* Cameras and weather. Two savers race and a third addition comes after; rows of different
  devices are never compared, and an address that cannot be read stands for a second device.
  Three changes give a city, another one, and the first again; the finding needs two.
* Screen. A scale of 255 tells every percentage from zero, one of 7 takes the lowest for zero;
  the displays are all combinations of what the files allow and whether `bl_power` is obeyed.

The proofs remove the bounds of the modules they are about.

Fairness, and why the code justifies it.

* `CallSession`: the event loop drains its queue, the worker takes its commands and sees a closed
  channel, the join returns, and a call task goes on: what it awaits is a transaction with a
  timeout, the ringing timer or a pipeline being built, so each wait ends. (A call in
  conversation owes nothing: only its peer, its key or its end move it.) The user and the peer
  owe nothing. Liveness of the screen is stated for a running worker and an open window.
* `Ingest`: both threads go on and a stop() once begun goes on; nobody must call stop() and the
  camera owes nothing.
* `Register`: the loop, the worker and time go on; an answer or its loss arrives, since rsipstack
  bounds a transaction. That the registrar is back for good and accepts is a premise of `Rebinds`,
  not of the specification.
* `WebDisplay`: a task that was spawned goes on, stop() once called returns, a session thread ends
  once its state is terminal (`StopEndsSession` of `Ingest`), and the shutdown once begun goes on.
  No client and no camera owes anything.
* `Media`: the state loop and the task go on, and ringing ends (30 s). The peer owes nothing.
* `Pipeline`: a lane that is not stuck moves, and a stop() once begun goes on as far as GStreamer
  lets it. A stalled outlet may stay so for ever.
* `CallLog`: the UI thread goes on, and the one-second timer gets its turn although other
  callbacks come between (strong fairness: the event loop looks at its timers every round).
* `Cameras`: what `DuplicatesMerge` needs and no more. The weather worker, which opens the
  store every half hour, goes on, and not every delete of its merges fails (strong fairness).
* `Weather`: the worker goes on, and a read or request tried again and again succeeds now and
  then (strong fairness of the four): without it there is no weather to show, whatever the code
  does. Nothing is owed by the half-hour timer: what is promised is promised at once.
* `Screen` and `Monitor` are checked for safety only.

Symmetry is used in the monitor run only, which has invariants alone. Deadlock is not checked
where a bounded run really stops: the last offer answered, the pipeline down, the last call
written.

## What the code does not keep

Modelling showed behaviours a reader of the code should know of. Each is a behaviour of the
model as it stands, and the properties above are worded so that they hold with it.

* Closing the window ends neither worker nor process: the callbacks' command senders live
  until run() returns, and run() joins the worker first (`call-ui/src/lib.rs:157`; `CmdSenders`).
* Accept, then Reject before Confirmed is shown: the screen goes idle, the call loop throws the
  second key away, and the call goes on unseen (`call_loop.rs:48`). `NoOrphanUi` is one
  direction only for this reason.
* Confirmed of a call hung up meanwhile shows the next dial as answered (`app.rs:266`), and an
  Accept for a call that just ended answers the next one in the slot (`dispatch.rs:193`): events
  and keys name no call.
* A dial pressed while an INVITE has taken the slot: the ringing call is never shown
  (`app.rs:257`); it ends by its timer (`RingingEnds`).
* stop() notifies without the lock of `wait_or_stop`; the session thread can sleep out its
  back-off (`stats.rs:128`). `StopEndsSession` holds because the sleep has a limit.
* After a hang-up the phase is idle at once and a camera may be selected while the call's media
  still draw (`camera/mod.rs:23`). `DialSilencesMonitor` speaks of dialled calls only.
* A late MonitorFailed matches by camera, not by view, and unselects the new view of the same
  camera (`bridge.rs:76`).
* A DELETE before the streaming task has stored its handle leaves nothing to stop: the
  task goes on with a stream no request can reach, although `lib.rs:63` says that a closed page
  leaves no camera running (`web-display/src/lib.rs:113`). `StoredIsStopped` and
  `EndReleasesCamera` speak of streams that were stored.
* The renewal is reckoned from the expiry that was asked for, so a registrar that grants less
  than the renewal takes leaves the client unreachable in between (`client.rs:295`). The theorems
  about the binding assume `GrantsOutliveRenewal`.
* A merge deletes by the ids it has read (`migrate.rs:104-112`). When the row it means to keep is
  deleted by hand meanwhile, it deletes the others all the same, and the device has no row left.
  `MergeLeavesTheBest` speaks of a merge that reads and deletes undisturbed, `IdMeansItsDevice` of
  whose rows it may delete.
* A record whose write fails is taken off memory and stays on screen until the next start
  (`persist.rs:46`; `lost`).
* A start that cannot read the call records shows an empty log over a table that has some, until
  the next start (`persist.rs:33`; `hidden`).
* A weather place found for the old city after a change emptied the caches is cached for the
  new one (`"late"` in `excuse`, and the finding). A cache that cannot be emptied keeps the old place
  (`wiring.rs:284`; `"kept"`), and a worker that cannot read the city takes its own (`"unread"`).
* A program killed with the display dark starts without knowing it (`screen.rs:82`; `"found"` in
  `excuse`).
* Where the brightness can be written, switching on drops the error of `bl_power`
  (`screen.rs:206-215`): a panel that obeys it stays dark without the overlay, and nothing is told
  (`"dropped"`).
* On a backlight of less than ten steps the slider's lowest 5 % is zero, and the panel is black
  without the overlay (`screen.rs:379`; `"rounded"`).
* stop() of a receiver does not return when EOS cannot enter, because an outlet reached without
  a queue stalls, or a queue that waits is full with its source stuck behind it, nor when a
  callback of the program never returns, since the state Null joins its thread (`receiver.rs:70-79`).
  `StopReturns` names just these cases.

## What is proved

TLAPS checks all of it, for any set of calls, any capacity of the channel, any number of callers,
attempts, cameras, views, web sessions, devices, savers, records and contacts, any expiries, any
offers and codecs, any tracks and consumers of a session, and any set of displays. The
assumptions are those of the constants: a capacity of at least one, natural bounds, `NoCall`,
`NoCamera`, `NoView`, `NoHost` outside their sets, a back-off of at least a second, a slider
between 5 and 100, a table no shorter than the screen of the call log (200 and 20 in the code),
and bodies whose media lines and payload types are sequences. TLC evaluates each of them on the
instance of the run. One theorem has a hypothesis of its own, `StandIns`, explained with it.

* **The line.** `SlotOwner`, `MediaFollowsCall`, `RoutesFollowCall` and `CallerAnswered` follow
  from one inductive invariant, `LineInv` = `TypeOK`, `DialInv`, `SlotOwner` and `CallInv(c)` for
  every call. `SlotOwner` alone is not inductive: a Dial in the queue must be one whose task
  has not begun and the only one of its call (`DialInv`), or its claim would take the slot for
  a call that already ran; and what a task may do next depends on its dialog, media and route
  (`CallInv`).
* **The screen of a call.** `NoOrphanUi` needs more: an Incoming event still queued will turn the
  screen on, so it must itself be backed by its call or by an end event behind it; and a call
  that has posted its end backs nothing any more. That is `ScreenInv` of
  `CallSession_proofs`.
* **The call log.** `OneRecordPerCall` says nothing of the calls still to be shown. `RecordInv`
  follows a call from the start: one that waits to be dialled or announced is neither queued nor
  on screen nor logged; one whose Incoming event is queued is queued once, and neither on screen
  nor logged; the one on screen is not logged.
* **The abstract line.** Under `LineInv` the initial state and every step of `CallSession` map
  to `CallLine`: claim, start, stop, free and abandon, or a stutter.
* **Ingest.** `SessionInv` = `TypeOK`, `Frozen` (the outcome was decided exactly when the state
  became terminal), `ThreadKnows` (what each place of the session thread says of pipeline,
  slot and flag) and `FailureIsDue`. From it: the type, `FailureIsDue` and the refinement of
  `Stream`.
* **Monitor.** Each of its steps is a step of `CallSession` or leaves it alone, so the
  theorems above hold beside it (`SessionUndisturbed`). `MonitorInv`, the conjunction of its type
  and its three safety properties, is inductive as it stands.
* **Registration.** `RefreshBeforeExpiry`: if an expiry of two seconds or more is granted whole,
  the renewal leaves before it ends. From `BindingInv` (what is left of the sleep is shorter than
  what is left of the binding, and the renewal fits into a binding whose 200 is on its way)
  follows that a sleeping client is bound. Between two attempts lies a second at least, and after
  a failure no more than the largest back-off.
* **The web registry.** `RegistryInv` = `TypeOK`, `Places` (which entry, task, state, camera and
  caller of stop() go together) and `StoredIsStopped`, which is not inductive without it.
* **The display.** `ScreenInv` of `Screen_proofs`. `DarkIsCovered` is not inductive: the
  slider may leave zero again, and lights a display only if nothing else keeps it dark. `CoverInv`
  therefore says besides that the overlay is shown exactly when the controller takes the
  display for dark, and that a display without it, of which nothing but a zero of the slider was
  noted, would glow at full brightness (`LitWith`). No scale of the backlight is assumed.
  `SliderInv` says that the slider of a dark display agrees with the brightness remembered for
  waking, unless its percentage is zero there.

* **The offers of a call.** `LastAnswerRules` looks at the last offer only, and so is not inductive:
  an older offer that still waits, in the dialog queue, in the hands of the state loop, in the
  channel to the task or in the task, would overwrite what it says. `MediaInv` has them in order
  on that way (`OneByOne`), none of them before the peer made it (`Made`), nothing applied while
  the call rings (`Rings`), and nothing on the way any more once the last offer is
  answered with SDP (`OnlyLast`). It needs nothing of how bodies are read, so that it holds for any
  parser and any choice of codecs.
* **The two ends.** `EndsAgree` follows from `AnswersFit` (each answer is the one this program builds
  for its offer) and a lemma about the operators: for every offer that can be read, and every
  order of candidates and lines, what `ParseAnswerAll` makes of `BuildAnswer` names on each lane
  the codec that was picked and the port it is expected on, or a refused lane nothing is sent on.
  No induction over the body is needed, since `Pick` and `ParseMediaPair` select by position; the
  lemmas `Smallest` and `Largest` find it. Its hypothesis `StandIns` says that the constants that
  stand for nothing (`Invalid`, `NoMedia`, `NoCodec`, `Down`) are neither bodies, lanes, candidates,
  destinations, pipelines nor names of codecs: they are `None` and `Err` in the code, and model
  values in the run.
* **The tracks of a session.** A pad goes through `absent`, `linking` and `linked`, `broken`,
  `refused` or `ignored`, each in a callback of its own. `SessionInv` of `Pipeline_proofs`: the slots
  that are taken are the kinds of their owners, one owner each (`SlotsAreOwned`); the links at a
  pad with those its callback has still to make are the plan of its track, and a pad that owns
  nothing has no link (`LinkedAsPlanned`); and a pad was ignored, linked or refused as its codec and
  the slots allowed (`JudgedByVerdict`). `OneTrackPerKind` follows at once. For `UsableTrackPlays`,
  lemmas compute the links `LinkVideo` and `LinkAudio` add for every configuration (`VideoBuilt`,
  `AudioBuilt`), show that the buffers of a lane stay in it (`EndsInLane`), and follow them to the
  outlets (`VideoReaches`, `AudioReaches`).
* **Saved cameras.** `CamerasInv`: ids are unique and never above the last one given out, and whatever
  was read earlier (the list on screen, the rows a merge will delete, the row an update is meant
  for) names its device or a row that is gone (`ReadEarlier`). `IdMeansItsDevice` follows; alone it
  would say nothing of the updates that are decided and not written. `MergeLeavesTheBest` needs the
  unique ids and that a finite set of rows has a best, taken by well-founded induction.
* **The call records.** `LogIsTable` compares the screen with what the table holds or will hold.
  `LogInv` adds where each record is (in the table, in a job, or unsaved: `InOrder`, none
  overtakes another), that none is newer than the last call (`Numbered`), that a record given up
  is nowhere else (`LostIsGone`), that what the table keeps is on screen unless the last start
  could not read it, and that nothing is unsaved when the window is gone (`Drained`): without it
  a restart would lose what the screen no longer knows.
* **The contacts.** `ContactsInv`: an id is given once, over the rows of the table and the entries on
  screen together, however old these are.

Only model-checked: all liveness, that is the properties stated with `~>` or under fairness; it is
out of the provers' reach, and so `Weather`, of which the one property is of this kind, has no
theorem. Of `Pipeline` the theorems speak of sessions: what is stated of receivers and
senders (`StallStaysLocal`, `StopReturns`) is liveness.

## What is not modelled

* Keyboard: a pinyin engine on the UI thread whose answers are the library's. One thing a reader
  should know: two taps before slint's change handler ran overwrite each other's commit text.
* Device discovery, decoders and boards, the command line: requests and lists without state
  between them. What they return is an input of `Cameras`, `Tracks`, `Sender` and `WebDisplay`.
* Inside the modelled parts: visitors and short notices of `AppState`, frames and their picture,
  caps strings, bit rates and counters, static files and listing of the web server, wording
  of requests. No guard of a modelled step reads them.
* Weak points seen and left to review, because the code has one path only and a property would
  repeat it: a resident loop that returns stops the worker while the window stays open
  (`worker.rs:204`; `Stop` models it); records drained before the worker is joined
  (`lib.rs:153`); the statistics thread that outlives a failed stream whose owner never stops it
  (`bus.rs:95`); a frame queued before its stream was stopped (`video.rs:43`); the entry of a
  POST refused with 400 (`web-display/src/lib.rs:283`); a pad whose caps come after its callback
  (`source.rs:136`).
