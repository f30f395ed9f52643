----------------------------- MODULE Negotiate -----------------------------
(***************************************************************************)
(* The choice of codecs: crates/ipcam-sip/src/negotiate.rs, which answers  *)
(* an offer, and crates/call-ui/src/media/plan.rs, which derives from an   *)
(* offer or an answer what the pipelines of a call receive and send.       *)
(***************************************************************************)
EXTENDS Sdp

CONSTANT NoCodec    \* the lane is not received, or not sent

\* G.711 both ways, H264 and H265 towards us.
AudioPred == {"PCMU", "PCMA"}
VideoPred == {"H264", "H265"}

\* VideoCodec::from_name knows these names.
KnownVideo == {"H264", "H265", "AV1"}

\* The place of the first candidate the program supports, in the peer's order.
FirstSupported(codecs, supported) == SelectInSeq(codecs, LAMBDA c : c.codec \in supported)

Pick(lane, supported) ==
    IF lane = NoMedia THEN NoCodec
    ELSE LET first == FirstSupported(lane.codecs, supported)
         IN IF first = 0 THEN NoCodec ELSE lane.codecs[first]

PickAudio(offer) == Pick(offer.audio, AudioPred)
PickVideo(offer) == Pick(offer.video, VideoPred)


\* Mutant: a refused video line is written like any other of ours.
RejectedLikeOurs(type, lane) ==
    IF type = "video" THEN VideoMediaDescription(0, lane.codecs[1].pt, NoFmtp)
    ELSE AudioMediaDescription(0, <<lane.codecs[1].pt>>)

\* A refused lane: port 0, and the first payload type offered for it.
RejectedMedia(type, lane) ==
    LET first == lane.codecs[1]
    IN [type |-> type, port |-> 0, conn |-> NoAddr, fmt |-> <<first.pt>>,
        rtpmap |-> [pt \in {first.pt} |-> first.codec], fmtp |-> << >>]

AudioAnswer(offer, port) ==
    IF offer.audio = NoMedia THEN << >>
    ELSE IF PickAudio(offer) = NoCodec THEN << RejectedMedia("audio", offer.audio) >>
    ELSE << AudioMediaDescription(port, <<PickAudio(offer).pt>>) >>

VideoAnswer(offer, port) ==
    IF offer.video = NoMedia THEN << >>
    ELSE IF PickVideo(offer) = NoCodec THEN << RejectedMedia("video", offer.video) >>
    ELSE << VideoMediaDescription(port, PickVideo(offer).pt, PickVideo(offer).fmtp) >>

\* Lanes that were not offered are not answered; audio is answered first.
BuildAnswer(offer, local, audioPort, videoPort) ==
    [SessionSkeleton(local) EXCEPT !.media =
        AudioAnswer(offer, audioPort) \o VideoAnswer(offer, videoPort)]

-----------------------------------------------------------------------------
CodecOf(pick) == IF pick = NoCodec THEN NoCodec ELSE pick.codec

AudioDest(lane, pick) ==
    IF pick = NoCodec THEN NoCodec
    ELSE [addr |-> lane.addr, port |-> lane.port, pt |-> pick.pt, codec |-> pick.codec]

VideoDest(lane, pick, cfgMaxWidth) ==
    IF pick = NoCodec THEN NoCodec
    ELSE [addr |-> lane.addr, port |-> lane.port, pt |-> pick.pt, codec |-> pick.codec,
          maxWidth |-> ClampMaxWidth(cfgMaxWidth, pick.fmtp)]

\* What a callee plans from the caller's offer.
PlanFromOffer(offer, cfgMaxWidth) ==
    [recvAudio |-> CodecOf(PickAudio(offer)),
     recvVideo |-> CodecOf(PickVideo(offer)),
     sendAudio |-> AudioDest(offer.audio, PickAudio(offer)),
     sendVideo |-> VideoDest(offer.video, PickVideo(offer), cfgMaxWidth)]

Accepted(peer, supported) ==
    IF peer = NoMedia THEN NoCodec ELSE IF peer.codec \in supported THEN peer ELSE NoCodec

\* What a caller plans from the callee's answer: it sends any video codec it
\* has a name for, and receives those it can decode.  The port the answer
\* gives is not looked at.
PlanFromAnswer(peers, cfgMaxWidth) ==
    [recvAudio |-> CodecOf(Accepted(peers.audio, AudioPred)),
     recvVideo |-> CodecOf(Accepted(peers.video, VideoPred)),
     sendAudio |-> AudioDest(peers.audio, Accepted(peers.audio, AudioPred)),
     sendVideo |-> VideoDest(peers.video, Accepted(peers.video, KnownVideo), cfgMaxWidth)]
=============================================================================
