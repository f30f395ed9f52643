------------------------------- MODULE Sender -------------------------------
(***************************************************************************)
(* What start_rtp_sender builds: rtp_send/{sender,source,chain}.rs.  A     *)
(* lane comes from a file, an RTSP camera, or a device of the panel.       *)
(***************************************************************************)
EXTENDS Elements

\* source is defined on the lanes that are sent.
SendLanes(c) == DOMAIN c.source

\* Both lanes of one file share its decoder.
IsShared(c) ==
    /\ SendLanes(c) = {"video", "audio"}
    /\ c.source["video"].from = "file" /\ c.source["audio"] = c.source["video"]

\* A decoder shows its pad when it has found the track; a device has one.
IsDecoded(c, lane) == c.source[lane].from \in {"file", "rtsp"}

\* The common end of a chain: its elements join a pipeline that plays already
\* and are linked, the pad of the source is plugged into the first, and only
\* then are they brought to the state of the pipeline.
AddLinkAndPlug(lane) ==
    << AddAndSync, Link(<<Queue(lane, "send"), Outlet(lane, "udp")>>),
       Link(<<Source(lane), Queue(lane, "send")>>), AddAndSync >>

\* A lane is scaled or resampled and encoded behind a queue of its own.
LinkVideoSendChain == << Make >> \o AddLinkAndPlug("video")
LinkAudioSendChain == << Make >> \o AddLinkAndPlug("audio")
LinkSendChain(lane) == IF lane = "video" THEN LinkVideoSendChain ELSE LinkAudioSendChain

\* A decoder links nothing until its pads appear; a device has its pad at once.
PlugUriSource == << Make, AddAndSync >>
PlugSharedUriSource == << Make, AddAndSync >>
PlugDeviceSource(lane) == << Make, AddAndSync >> \o LinkSendChain(lane)

PlugSource(c, lane) == IF IsDecoded(c, lane) THEN PlugUriSource ELSE PlugDeviceSource(lane)

BuildTracks(c) ==
    (IF "video" \in SendLanes(c) THEN PlugSource(c, "video") ELSE << >>)
    \o (IF "audio" \in SendLanes(c) THEN PlugSource(c, "audio") ELSE << >>)

StartRtpSender(c) ==
    IF SendLanes(c) = {} THEN << Refused >>
    ELSE IF IsShared(c) THEN PlugSharedUriSource
    ELSE BuildTracks(c)
=============================================================================
