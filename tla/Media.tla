------------------------------- MODULE Media -------------------------------
(***************************************************************************)
(* The media of one call and the offers its peer makes during it:          *)
(* call-ui/src/media/mod.rs (the pipelines and the plan they run by), the  *)
(* parts of session/{incoming,outgoing,call_loop}.rs that start, change    *)
(* and stop them, and ipcam-sip's route of an offer from the dialog state  *)
(* loop to the task of the call (incoming.rs, call_route.rs).  The loop    *)
(* serves all dialogs, and waits for the answer of one call's task before  *)
(* it takes the next event.                                                *)
(***************************************************************************)
EXTENDS Negotiate

CONSTANTS
    InitialOffers,  \* bodies of the INVITE of an incoming call
    InitialAnswers, \* bodies of the 200 to an INVITE of ours
    Reoffers,       \* bodies of a re-INVITE or UPDATE
    MaxOffers,      \* bound on the offers the peer makes in a call
    UpdateCapacity, \* of the channel from the loop to the task
    Local, AudioPort, VideoPort, MaxWidth,
    Other,          \* the event of another dialog
    Down,           \* a pipeline that does not run
    NoReply,        \* not answered yet
    Bare            \* answered with a 200 that carries no SDP

ASSUME MediaAssumption ==
    /\ MaxOffers \in Nat \ {0} /\ UpdateCapacity \in Nat \ {0}
    /\ Other \notin Nat
    /\ NoReply # Bare /\ Local # NoAddr

\* Lines and payload types come in an order.
ASSUME BodyAssumption ==
    \A body \in (InitialOffers \cup Reoffers) \ {Invalid} :
        /\ body.media \in Seq(ToSet(body.media))
        /\ \A i \in DOMAIN body.media : body.media[i].fmt \in Seq(Int)

VARIABLES
    stage,      \* "ringing", "talking", "stopping", "dropping", "over"
    route,      \* whether the call's dialog is in the routing table
    asked,      \* the offers of the peer, the one of its INVITE included
    reply,      \* what each of them was answered
    queue,      \* events of the dialog layer the loop has not taken
    loop,       \* what the loop does: [at |-> "idle" | "sending" | "waiting", n]
    updates,    \* the channel to the task: offers by number
    working,    \* the offer the task is applying, 0 for none
    plan,       \* the plan of the media handles
    receiver, sender

vars == <<stage, route, asked, reply, queue, loop, updates, working, plan, receiver, sender>>
dialogVars == <<asked, queue>>
pipes == <<plan, receiver, sender>>

Idle == [at |-> "idle", n |-> 0]
NoPlan == [recvAudio |-> NoCodec, recvVideo |-> NoCodec,
           sendAudio |-> NoCodec, sendVideo |-> NoCodec]

Numbers == 1..MaxOffers

\* A pipeline is started with the lanes of the plan.  It stays down when the
\* plan has none for it, and when it cannot be started.
StartReceiver(p, ok) ==
    IF ~ok \/ (p.recvAudio = NoCodec /\ p.recvVideo = NoCodec) THEN Down
    ELSE [audio |-> p.recvAudio, video |-> p.recvVideo]

\* Only H264 is ever sent.
SendableVideo(p) ==
    IF p.sendVideo = NoCodec THEN NoCodec
    ELSE IF p.sendVideo.codec = "H264" THEN p.sendVideo ELSE NoCodec

StartSender(p, ok) ==
    IF ~ok \/ (p.sendAudio = NoCodec /\ SendableVideo(p) = NoCodec) THEN Down
    ELSE [audio |-> p.sendAudio, video |-> SendableVideo(p)]

-----------------------------------------------------------------------------
Init ==
    /\ stage = "ringing"
    /\ \/ route = TRUE /\ \E offer \in InitialOffers : asked = <<offer>>
       \/ route = FALSE /\ asked = << >>
    /\ reply = [n \in Numbers |-> NoReply]
    /\ queue = << >> /\ loop = Idle /\ updates = << >> /\ working = 0
    /\ plan = NoPlan /\ receiver = Down /\ sender = Down

Incoming == stage = "ringing" /\ route

-----------------------------------------------------------------------------
(* The peer, and other dialogs. *)

PeerOffers ==
    /\ stage # "over" /\ Len(asked) < MaxOffers
    /\ \E sdp \in Reoffers : asked' = Append(asked, sdp)
    /\ queue' = Append(queue, Len(asked'))
    /\ UNCHANGED <<stage, route, reply, loop, updates, working, pipes>>

OtherDialog ==
    /\ ~Contains(queue, Other)
    /\ queue' = Append(queue, Other)
    /\ UNCHANGED <<stage, route, asked, reply, loop, updates, working, pipes>>

-----------------------------------------------------------------------------
(* The dialog state loop. *)

Respond(n, body) == reply' = [reply EXCEPT ![n] = body]

LoopTakes ==
    /\ loop = Idle /\ queue # << >>
    /\ queue' = Tail(queue)
    /\ LET event == Head(queue)
       IN \/ event = Other /\ UNCHANGED <<reply, loop>>
          \/ event # Other /\ ~route /\ Respond(event, Bare) /\ UNCHANGED loop
          \/ event # Other /\ route /\ loop' = [at |-> "sending", n |-> event] /\ UNCHANGED reply
    /\ UNCHANGED <<stage, route, asked, updates, working, pipes>>

\* The channel holds a few offers; while it is full the loop waits, with no limit.
LoopSends ==
    /\ loop.at = "sending" /\ stage # "over"
    /\ Len(updates) < UpdateCapacity
    /\ updates' = Append(updates, loop.n)
    /\ loop' = [loop EXCEPT !.at = "waiting"]
    /\ UNCHANGED <<stage, route, asked, reply, queue, working, pipes>>

LoopFindsTaskGone ==
    /\ loop.at = "sending" /\ stage = "over"
    /\ Respond(loop.n, Bare) /\ loop' = Idle
    /\ UNCHANGED <<stage, route, asked, queue, updates, working, pipes>>


\* Mutant: the loop counts its two seconds only during the conversation.
LoopGivesUpTalking ==
    /\ loop.at = "waiting" /\ stage = "talking"
    /\ Respond(loop.n, Bare) /\ loop' = Idle
    /\ UNCHANGED <<stage, route, asked, queue, updates, working, pipes>>

\* Two seconds without an answer, or the task dropped the offer.
LoopGivesUp ==
    /\ loop.at = "waiting"
    /\ Respond(loop.n, Bare) /\ loop' = Idle
    /\ UNCHANGED <<stage, route, asked, queue, updates, working, pipes>>

-----------------------------------------------------------------------------
(* The task of the call. *)

StartMedia(p) ==
    /\ plan' = p
    /\ \E recvOk, sendOk \in BOOLEAN :
          receiver' = StartReceiver(p, recvOk) /\ sender' = StartSender(p, sendOk)

\* The user answers: the offer of the INVITE is answered, and planned by.
AcceptWithAnswer ==
    LET offer == ParseOfferAll(asked[1])
    IN /\ Incoming /\ offer # Invalid
       /\ stage' = "talking"
       /\ Respond(1, BuildAnswer(offer, Local, AudioPort, VideoPort))
       /\ StartMedia(PlanFromOffer(offer, MaxWidth))
       /\ UNCHANGED <<route, asked, queue, loop, updates, working>>

\* The peer answers our offer.
StartOutgoing ==
    /\ stage = "ringing" /\ ~route
    /\ \E sdp \in InitialAnswers :
          /\ ParseAnswerAll(sdp) # Invalid
          /\ StartMedia(PlanFromAnswer(ParseAnswerAll(sdp), MaxWidth))
    /\ stage' = "talking" /\ route' = TRUE
    /\ UNCHANGED <<asked, reply, queue, loop, updates, working>>

\* Declined, cancelled, timed out, or answered with SDP that cannot be read.
RingEnds ==
    /\ stage = "ringing"
    /\ stage' = "over" /\ route' = FALSE /\ updates' = << >>
    /\ UNCHANGED <<asked, reply, queue, loop, working, pipes>>

TakeUpdate ==
    /\ stage = "talking" /\ working = 0 /\ updates # << >>
    /\ working' = Head(updates) /\ updates' = Tail(updates)
    /\ UNCHANGED <<stage, route, asked, reply, queue, loop, pipes>>


\* Mutant: a late answer goes to whatever offer the loop waits for now.
DeliverLate(n, body) ==
    IF loop.at = "waiting"
    THEN Respond(loop.n, body) /\ loop' = Idle
    ELSE UNCHANGED <<reply, loop>>

\* The answer reaches the loop only if it still waits for this offer.
Deliver(n, body) ==
    IF loop = [at |-> "waiting", n |-> n]
    THEN Respond(n, body) /\ loop' = Idle
    ELSE UNCHANGED <<reply, loop>>

RecvChanged(new) == <<new.recvAudio, new.recvVideo>> # <<plan.recvAudio, plan.recvVideo>>

SendChanged(new) == new.sendAudio # plan.sendAudio \/ new.sendVideo # plan.sendVideo

\* A pipeline is started anew exactly when its part of the plan changes.
Renegotiate(new) ==
    /\ \E ok \in BOOLEAN :
          receiver' = IF RecvChanged(new) THEN StartReceiver(new, ok) ELSE receiver
    /\ \E ok \in BOOLEAN :
          sender' = IF SendChanged(new) THEN StartSender(new, ok) ELSE sender
    /\ plan' = new

ReinviteAnswer ==
    /\ working # 0
    /\ \E offer \in {ParseOfferAll(asked[working])} :
          IF offer = Invalid
          THEN Deliver(working, Bare) /\ UNCHANGED pipes
          ELSE /\ Deliver(working, BuildAnswer(offer, Local, AudioPort, VideoPort))
               /\ \E new \in {PlanFromOffer(offer, MaxWidth)} : Renegotiate(new)
    /\ working' = 0
    /\ UNCHANGED <<stage, route, asked, queue, updates>>

\* The peer hung up, or our BYE was sent: the handles are stopped.
CallEnds ==
    /\ stage = "talking" /\ working = 0
    /\ stage' = "stopping"
    /\ UNCHANGED <<route, reply, loop, updates, working, dialogVars, pipes>>

\* Our BYE could not be sent: the task returns with the error and the handles
\* are dropped, field by field in the order of their declaration.
ByeFails ==
    /\ stage = "talking" /\ working = 0
    /\ stage' = "dropping"
    /\ UNCHANGED <<route, reply, loop, updates, working, dialogVars, pipes>>

StopSender ==
    /\ sender # Down
    /\ stage = "stopping" \/ (stage = "dropping" /\ receiver = Down)
    /\ sender' = Down
    /\ UNCHANGED <<stage, route, reply, loop, updates, working, dialogVars, plan, receiver>>

StopReceiver ==
    /\ receiver # Down
    /\ stage = "dropping" \/ (stage = "stopping" /\ sender = Down)
    /\ receiver' = Down
    /\ UNCHANGED <<stage, route, reply, loop, updates, working, dialogVars, plan, sender>>

TaskReturns ==
    /\ stage \in {"stopping", "dropping"} /\ receiver = Down /\ sender = Down
    /\ stage' = "over" /\ route' = FALSE /\ updates' = << >>
    /\ UNCHANGED <<reply, loop, working, dialogVars, pipes>>

-----------------------------------------------------------------------------
LoopStep == LoopTakes \/ LoopSends \/ LoopFindsTaskGone \/ LoopGivesUp
Ending == StopSender \/ StopReceiver \/ TaskReturns

Next ==
    \/ PeerOffers \/ OtherDialog
    \/ LoopTakes \/ LoopSends \/ LoopFindsTaskGone \/ LoopGivesUp
    \/ AcceptWithAnswer \/ StartOutgoing \/ RingEnds
    \/ TakeUpdate \/ ReinviteAnswer \/ CallEnds \/ ByeFails
    \/ StopSender \/ StopReceiver \/ TaskReturns

\* The loop and the task are scheduled, the two seconds pass, and an
\* unanswered ring is given up by a timer of ours or of the peer's.
Fairness ==
    /\ WF_vars(LoopStep) /\ WF_vars(TakeUpdate) /\ WF_vars(ReinviteAnswer)
    /\ WF_vars(RingEnds) /\ WF_vars(Ending)

Spec == Init /\ [][Next]_vars /\ Fairness

-----------------------------------------------------------------------------
(* Properties. *)

Answered(n) == n \in Numbers /\ reply[n] \notin {NoReply, Bare}
PlanOf(n) == PlanFromOffer(ParseOfferAll(asked[n]), MaxWidth)

\* While the call lasts, a pipeline runs as the handles' plan says or is down:
\* a renegotiation that leaves a pipeline alone must not leave it with the
\* lanes of an earlier offer (media/mod.rs:110-146).
RunsAsPlanned ==
    stage = "talking" =>
        /\ receiver \in {Down, StartReceiver(plan, TRUE)}
        /\ sender \in {Down, StartSender(plan, TRUE)}

\* When the last offer the peer made was answered with SDP, the call runs by
\* exactly that offer: no earlier offer, answered late or never, is applied
\* after it (call_route.rs:29-51 gives up after two seconds, the task does not).
LastAnswerRules ==
    LET n == Len(asked)
    IN stage = "talking" /\ Answered(n) =>
        /\ ParseOfferAll(asked[n]) # Invalid
        /\ plan = PlanOf(n) /\ RunsAsPlanned
        /\ updates = << >> /\ working = 0

\* The codecs an answer can name: G.711 under its static number, and H264.
Nameable(offer) ==
    /\ PickAudio(offer) # NoCodec => PickAudio(offer).codec = CodecName(PickAudio(offer).pt)
    /\ PickVideo(offer) # NoCodec => PickVideo(offer).codec = "H264"

\* The plan of a peer that runs this program too and reads our answer.
PeerPlan(n) == PlanFromAnswer(ParseAnswerAll(reply[n]), MaxWidth)

\* Such a peer sends on each lane what we receive on it, to the port we
\* receive it on, and receives what we send; on a lane we refused nothing runs
\* at either end, although it does not look at the port 0 of the refusal
\* (negotiate.rs:157-178, media/mod.rs:375-416).
EndsAgree ==
    \A n \in Numbers :
        Answered(n) /\ Nameable(ParseOfferAll(asked[n])) =>
            LET ours == PlanOf(n)
                peer == StartSender(PeerPlan(n), TRUE)
            IN /\ <<PeerPlan(n).recvAudio, PeerPlan(n).recvVideo>>
                    = <<CodecOf(ours.sendAudio), CodecOf(SendableVideo(ours))>>
               /\ peer = Down <=> ours.recvAudio = NoCodec /\ ours.recvVideo = NoCodec
               /\ peer # Down =>
                    /\ CodecOf(peer.audio) = ours.recvAudio
                    /\ CodecOf(peer.video) = ours.recvVideo
                    /\ peer.audio # NoCodec => peer.audio.port = AudioPort
                    /\ peer.video # NoCodec => peer.video.port = VideoPort

\* Every offer is answered, and with it every event behind it in the queue is
\* taken, whatever the task of the call does: a ringing call does not read
\* its channel, and a busy one answers late (incoming.rs:148-156).
OffersAnswered ==
    \A n \in Numbers : (n \in ToSet(queue)) ~> (reply[n] # NoReply)
=============================================================================
