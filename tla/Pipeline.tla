------------------------------ MODULE Pipeline ------------------------------
(***************************************************************************)
(* One GStreamer pipeline of ipcam-gst from its construction to its end:   *)
(* an RTP receiver, an RTP sender, or the pipeline of an RTSP session.     *)
(* The start function builds what can be built at once; the rest is linked *)
(* by callbacks when the pads of a source appear, each in the thread that  *)
(* will push the data of its pad, so that two callbacks may cross.  Then   *)
(* buffers flow, outlets stall, and the pipeline is stopped.               *)
(***************************************************************************)
EXTENDS Receiver, Tracks, Sender

CONSTANTS
    RecvConfigs, SendConfigs, SessionConfigs,   \* what pipelines are built for
    Offers,        \* what a camera may offer: functions from pads to tracks
    MaxStalled      \* bound on the outlets that stall

ASSUME PipelineAssumption == MaxStalled \in Nat

Pads == UNION { DOMAIN o : o \in Offers }
Lanes == {"video", "audio"}
Ids == Pads \cup Lanes

VARIABLES
    kind,       \* "receiver", "sender" or "session"
    cfg,        \* its configuration
    offer,      \* of a session: the tracks the camera offers
    stage,      \* "building", "failed", "playing", "stopping", "down"
    work,       \* the steps the start function has before it
    pads,       \* what has become of each pad: [at, todo, notified]
    claimed,    \* the kinds of track whose slot is taken (TrackState)
    links,
    held,       \* queues that hold a buffer; one stands for their capacity
    serving,    \* <<thread, end>>: where the buffer of a thread must still go
    stalled,    \* outlets that take nothing any more
    pushed      \* lanes stop() has pushed EOS into

vars == <<kind, cfg, offer, stage, work, pads, claimed, links, held, serving, stalled, pushed>>
given == <<kind, cfg, offer>>
flow == <<held, serving>>

NoPad == [at |-> "absent", todo |-> << >>, notified |-> FALSE]

\* The pads a callback will be called for.
Shown ==
    CASE kind = "session" -> DOMAIN offer
      [] kind = "sender"  -> { lane \in SendLanes(cfg) : IsDecoded(cfg, lane) }
      [] OTHER            -> {}

\* The lanes whose source the start function has made itself.
Plugged ==
    CASE kind = "receiver" -> DOMAIN cfg.port
      [] kind = "sender"   -> SendLanes(cfg) \ Shown
      [] OTHER             -> {}

-----------------------------------------------------------------------------
Init ==
    /\ \/ kind = "receiver" /\ cfg \in RecvConfigs /\ work = StartRtpReceiver(cfg)
          /\ offer = << >>
       \/ kind = "sender" /\ cfg \in SendConfigs /\ work = StartRtpSender(cfg)
          /\ offer = << >>
       \/ kind = "session" /\ cfg \in SessionConfigs /\ work = BuildPipeline(cfg)
          /\ offer \in Offers
    /\ stage = "building"
    /\ pads = [id \in Ids |-> NoPad]
    /\ claimed = {} /\ links = {} /\ held = {} /\ serving = {}
    /\ stalled = {} /\ pushed = {}

-----------------------------------------------------------------------------
(* The start function. *)

BuildStep ==
    /\ stage = "building" /\ work # << >> /\ Head(work) # Refused
    /\ links' = links \cup Head(work)
    /\ work' = Tail(work)
    /\ UNCHANGED <<given, stage, pads, claimed, flow, stalled, pushed>>

Play ==
    /\ stage = "building" /\ work = << >>
    /\ stage' = "playing"
    /\ UNCHANGED <<given, work, pads, claimed, links, flow, stalled, pushed>>

\* Any step may fail, the last being the change to Playing; the pipeline is dropped.
StartFails ==
    /\ stage = "building"
    /\ stage' = "failed" /\ links' = {} /\ work' = << >>
    /\ UNCHANGED <<given, pads, claimed, flow, stalled, pushed>>

-----------------------------------------------------------------------------
(* The callbacks for pads. *)

Becomes(id, at, todo) == pads' = [pads EXCEPT ![id].at = at, ![id].todo = todo]

\* Mutant: the slot is looked at, and never taken.
ClaimTrackLate(media) == media \notin claimed /\ claimed' = claimed

\* Checked and taken under one lock.
ClaimTrack(media) == media \notin claimed /\ claimed' = claimed \cup {media}

\* Mutant: the slot is taken before the codec is looked at.
TrackAppearsClaiming(id) ==
    LET media == offer[id].media
        verdict == Verdict(cfg, offer[id])
    IN /\ kind = "session"
       /\ \/ ClaimTrack(media)
             /\ \/ verdict = "refuse" /\ Becomes(id, "refused", << >>)
                \/ verdict = "ignore" /\ Becomes(id, "ignored", << >>)
                \/ verdict = "link" /\ Becomes(id, "linking", LinkTrack(cfg, offer[id], id))
          \/ /\ media \in claimed
             /\ Becomes(id, "refused", << >>) /\ UNCHANGED claimed

\* A track of a camera: only the first usable one of its kind is linked.
TrackAppears(id) ==
    LET media == offer[id].media
        verdict == Verdict(cfg, offer[id])
    IN /\ kind = "session"
       /\ \/ verdict = "refuse" /\ Becomes(id, "refused", << >>) /\ UNCHANGED claimed
          \/ /\ verdict # "refuse" /\ media \in claimed
             /\ Becomes(id, "refused", << >>) /\ UNCHANGED claimed
          \/ verdict = "ignore" /\ ClaimTrack(media) /\ Becomes(id, "ignored", << >>)
          \/ /\ verdict = "link" /\ ClaimTrack(media)
             /\ Becomes(id, "linking", LinkTrack(cfg, offer[id], id))

\* A track of a decoder.  Its caps may not be known yet: a shared decoder is
\* asked again when they are, another is asked what it could give and its
\* pad is forgotten if that is not the track.
PadAppears(id) ==
    /\ kind = "sender" /\ UNCHANGED claimed
    /\ \/ Becomes(id, "linking", LinkSendChain(id))
       \/ IsShared(cfg) /\ pads' = [pads EXCEPT ![id].at = "waiting", ![id].notified = TRUE]
       \/ ~IsShared(cfg) /\ Becomes(id, "ignored", << >>)

PadAdded(id) ==
    /\ stage = "playing" /\ id \in Shown /\ pads[id].at = "absent"
    /\ TrackAppears(id) \/ PadAppears(id)
    /\ UNCHANGED <<given, stage, work, links, flow, stalled, pushed>>

IsLinked(id) == Successors(links, {Source(id)}) # {}

\* The caps of a pad of a shared decoder, known at last or changed: a pad
\* that is linked is left alone, one whose chain failed is tried again.
CapsNotified(id) ==
    /\ stage = "playing" /\ pads[id].notified
    /\ pads[id].at \in {"waiting", "broken"} /\ ~IsLinked(id)
    /\ Becomes(id, "linking", LinkSendChain(id))
    /\ UNCHANGED <<given, stage, work, claimed, links, flow, stalled, pushed>>

LinkStep(id) ==
    /\ stage = "playing" /\ pads[id].at = "linking"
    /\ links' = links \cup Head(pads[id].todo)
    /\ Becomes(id, IF Tail(pads[id].todo) = << >> THEN "linked" ELSE "linking", Tail(pads[id].todo))
    /\ UNCHANGED <<given, stage, work, claimed, flow, stalled, pushed>>

\* A step of a callback fails: this is logged, and the rest is not done.
LinkFails(id) ==
    /\ stage = "playing" /\ pads[id].at = "linking"
    /\ Becomes(id, "broken", << >>)
    /\ UNCHANGED <<given, stage, work, claimed, links, flow, stalled, pushed>>

-----------------------------------------------------------------------------
(* The data, moved by the library. *)

Flows(id) == id \in Plugged \/ pads[id].at \in {"linked", "ignored", "refused", "broken"}

Serves(n) == \E e \in serving : e[1] = n

Arrive(id) ==
    /\ stage = "playing" /\ Flows(id) /\ ~Serves(Source(id))
    /\ serving' = serving \cup ({Source(id)} \X Ends(links, Source(id)))
    /\ UNCHANGED <<given, stage, work, pads, claimed, links, held, stalled, pushed>>

Take(q) ==
    /\ q \in held /\ ~Serves(q)
    /\ held' = held \ {q}
    /\ serving' = serving \cup ({q} \X Ends(links, q))
    /\ UNCHANGED <<given, stage, work, pads, claimed, links, stalled, pushed>>

Deliver(n, e) ==
    /\ <<n, e>> \in serving
    /\ e.kind = "queue" => e \notin held
    /\ e \notin stalled
    /\ serving' = serving \ {<<n, e>>}
    /\ held' = IF IsQueue(e) THEN held \cup {e} ELSE held
    /\ UNCHANGED <<given, stage, work, pads, claimed, links, stalled, pushed>>

\* The threads of a lane, its source and its queues, move a buffer on.
LaneMoves(id) ==
    /\ stage \in {"playing", "stopping"}
    /\ \/ \E q \in held : q.lane = id /\ Take(q)
       \/ \E s \in serving : s[1].lane = id /\ Deliver(s[1], s[2])

\* A player without a device, a card that is full, or, of a tap, a callback
\* that never returns.
Stall ==
    /\ stage \in {"playing", "stopping"} /\ Cardinality(stalled) < MaxStalled
    /\ \E l \in links : l[2].kind = "outlet" /\ stalled' = stalled \cup {l[2]}
    /\ UNCHANGED <<given, stage, work, pads, claimed, links, flow, pushed>>

-----------------------------------------------------------------------------
(* The end. *)

\* A thread is inside a callback that never returns.
InCallback == \E e \in serving : e[2] \in stalled /\ e[2].use = "tap"

\* The state of every element is set to Null: threads end, buffers are dropped.
\* This joins every thread: players and files are made to let go of theirs,
\* a callback is not.
TearDown ==
    /\ ~InCallback
    /\ stage' = "down" /\ links' = {} /\ held' = {} /\ serving' = {} /\ stalled' = {}
    /\ pads' = [id \in Ids |-> NoPad]
    /\ UNCHANGED <<given, work, claimed, pushed>>

\* A sender and a session are torn down at once; a callback that runs is let
\* finish, its thread being joined.
StopNow ==
    /\ stage = "playing" /\ kind \in {"sender", "session"}
    /\ \A id \in Ids : pads[id].at # "linking"
    /\ TearDown

\* A receiver first pushes EOS behind the data of every lane.
StopReceiving ==
    /\ stage = "playing" /\ kind = "receiver"
    /\ stage' = "stopping"
    /\ UNCHANGED <<given, work, pads, claimed, links, flow, stalled, pushed>>

\* stop() pushes EOS itself, behind the buffer the thread of the lane is
\* pushing, through the elements as far as a queue, which takes it full or
\* not, or an outlet, which takes it when it would take a buffer.
PushEos(lane) ==
    /\ stage = "stopping" /\ lane \in DOMAIN cfg.port \ pushed
    /\ lane = "audio" => DOMAIN cfg.port \ pushed = {"audio"}
    /\ ~Serves(Source(lane)) /\ Ends(links, Source(lane)) \cap stalled = {}
    /\ pushed' = pushed \cup {lane}
    /\ UNCHANGED <<given, stage, work, pads, claimed, links, flow, stalled>>

AllPushed == stage = "stopping" /\ pushed = DOMAIN cfg.port

\* EOS has come through to every outlet.
EosArrives == AllPushed /\ held = {} /\ serving = {} /\ stalled = {} /\ TearDown

\* Mutant: stop() waits for EOS however long it takes.
EosTimesOutNever == AllPushed /\ held = {} /\ serving = {} /\ TearDown

\* An outlet that stalls never passes EOS: five seconds are enough.
EosTimesOut == AllPushed /\ TearDown

-----------------------------------------------------------------------------
StopStep == (\E lane \in Lanes : PushEos(lane)) \/ EosArrives \/ EosTimesOut

Next ==
    \/ BuildStep \/ Play \/ StartFails
    \/ \E id \in Ids : PadAdded(id) \/ CapsNotified(id) \/ LinkStep(id) \/ LinkFails(id)
                          \/ Arrive(id) \/ LaneMoves(id)
    \/ Stall
    \/ StopNow \/ StopReceiving \/ EosArrives \/ EosTimesOut
    \/ \E lane \in Lanes : PushEos(lane)

\* Nothing obliges a peer to send, an outlet to stall, or a user to stop.
Fairness ==
    /\ \A id \in Ids : WF_vars(LaneMoves(id))
    /\ WF_vars(StopStep)

Spec == Init /\ [][Next]_vars /\ Fairness

-----------------------------------------------------------------------------
(* Properties. *)

\* However the callbacks of a session cross, one track of each kind at most
\* is linked: two would be mixed in one outlet (track.rs:128-149).
OneTrackPerKind ==
    kind = "session" =>
        \A p, q \in Shown :
            IsLinked(p) /\ IsLinked(q) /\ offer[p].media = offer[q].media => p = q

Consumers(id) ==
    IF offer[id].media = "video"
    THEN (IF cfg.webrtc THEN {Outlet(id, "webrtc")} ELSE {})
            \cup (IF cfg.tap THEN {Outlet(id, "tap")} ELSE {})
    ELSE (IF cfg.webrtc THEN {Outlet(id, "webrtc")} ELSE {})
            \cup (IF cfg.alsa THEN {Outlet(id, "speaker")} ELSE {})
            \cup (IF cfg.audioTap THEN {Outlet(id, "tap")} ELSE {})

\* The outlets the buffers of a pad come to.
Outlets(id) ==
    LET first == Ends(links, Source(id))
    IN { n \in first \cup UNION { Ends(links, q) : q \in first } : n.kind = "outlet" }

\* When the callbacks of all pads of a kind have returned and none of them
\* failed halfway, a camera that offers a usable track of the kind is seen, or
\* heard, by every consumer: an unusable track before it does not take its
\* place (track.rs:211-212, 487-493).
UsableTrackPlays ==
    kind = "session" /\ stage = "playing" =>
        \A media \in {"video", "audio"} :
            LET mine == { p \in Shown : offer[p].media = media }
            IN /\ \A p \in mine : pads[p].at \in {"linked", "refused", "ignored"}
               /\ \E p \in mine : Verdict(cfg, offer[p]) = "link"
               => \E p \in mine : pads[p].at = "linked" /\ Outlets(p) = Consumers(p)

\* The outlets that may stall without harm to others: all of a receiver
\* ("one stalled branch must not freeze the whole pipeline", receiver.rs:424-427)
\* and the taps of a session ("the WebRTC browser path is unaffected", tap.rs:1-4).
StallIsTolerated ==
    kind = "session" => \A o \in stalled : o.use = "tap"

Stuck(id) == Serves(Source(id))

\* An outlet that stalls keeps no source from passing its buffers on to other
\* outlets: a source waits for ever only for the one outlet it has, linked
\* without any branch, or for one that is not tolerated.
StallStaysLocal ==
    \A id \in Ids :
        Stuck(id) ~> \/ ~Stuck(id) \/ ~StallIsTolerated
                     \/ stalled # {} /\ Outlets(id) = stalled

\* What keeps EOS out of a lane: an outlet that stalls with no queue before
\* it, whether a buffer is on its way or not, or a buffer that waits at a
\* queue which is full and does not leak.
EosIsKeptOut(lane) ==
    \/ Ends(links, Source(lane)) \cap stalled # {}
    \/ \E q \in held : /\ <<Source(lane), q>> \in serving /\ q.kind = "queue"
                       /\ Ends(links, q) \cap stalled # {}

\* stop() returns, in five seconds if it must: a stalled outlet behind a queue
\* delays it and no more (receiver.rs:64-80).  It hangs only when EOS cannot
\* enter a lane, or when a thread it joins is in a callback that never
\* returns, behind a leaky queue as well.
StopReturns ==
    kind = "receiver" /\ stage = "stopping" ~>
        \/ stage = "down"
        \/ InCallback
        \/ kind = "receiver" /\ \E lane \in DOMAIN cfg.port \ pushed : EosIsKeptOut(lane)
=============================================================================
