------------------------------ MODULE Receiver ------------------------------
(***************************************************************************)
(* What start_rtp_receiver builds: rtp_recv/{receiver,config}.rs.          *)
(* The RTP of a lane is recorded, played, or both; the picture may go to   *)
(* the tap of the window instead of a player.                              *)
(***************************************************************************)
EXTENDS Elements

\* The recording of both lanes ends in one muxer and its file.
Mux == Outlet("both", "file")

\* port is defined on the lanes that are received.
Validate(c) ==
    /\ c.record \/ c.playback \/ c.tap
    /\ DOMAIN c.port # {}
    /\ \A lane \in DOMAIN c.port : c.port[lane] # 0
    /\ Cardinality({ c.port[lane] : lane \in DOMAIN c.port }) = Cardinality(DOMAIN c.port)

\* The tap is for the picture only, and takes the place of its player.
IsTapped(c, lane) == lane = "video" /\ c.tap
IsShown(c, lane) == c.playback \/ IsTapped(c, lane)
PlayOutlet(c, lane) == Outlet(lane, IF IsTapped(c, lane) THEN "tap" ELSE "player")

\* Mutant: the branches of a tee are given ordinary queues.
BuildTrackPlainQueues(c, lane) ==
    LET src == Source(lane)
        record == Queue(lane, "record")
        play == Queue(lane, "play")
    IN IF c.record /\ IsShown(c, lane) THEN
         << Make, AddAndSync, Link(<<src, Tee(lane)>>),
            Link(<<play, PlayOutlet(c, lane)>>),
            Link(<<Tee(lane), record>>), Link(<<Tee(lane), play>>), Link(<<record, Mux>>) >>
       ELSE IF c.record THEN
         << Make, AddAndSync, Link(<<src, record>>), Link(<<record, Mux>>) >>
       ELSE << Make, AddAndSync, Link(<<src, PlayOutlet(c, lane)>>) >>

\* The steps for one lane.
BuildTrack(c, lane) ==
    LET src == Source(lane)
        record == LeakyQueue(lane, "record")
        play == LeakyQueue(lane, "play")
    IN IF c.record /\ IsShown(c, lane) THEN
         << Make, AddAndSync, Link(<<src, Tee(lane)>>),
            Link(<<play, PlayOutlet(c, lane)>>),
            Link(<<Tee(lane), record>>), Link(<<Tee(lane), play>>), Link(<<record, Mux>>) >>
       ELSE IF c.record THEN
         << Make, AddAndSync, Link(<<src, Queue(lane, "record")>>),
            Link(<<Queue(lane, "record"), Mux>>) >>
       ELSE IF IsShown(c, lane) THEN
         << Make, AddAndSync, Link(<<src, PlayOutlet(c, lane)>>) >>
       ELSE << Refused >>

\* Sound is built the same way, and has no tap.
BuildAudioTrack(c) == BuildTrack(c, "audio")

StartRtpReceiver(c) ==
    IF ~Validate(c) THEN << Refused >>
    ELSE (IF c.record THEN << Make, AddAndSync >> ELSE << >>)
         \o (IF "video" \in DOMAIN c.port THEN BuildTrack(c, "video") ELSE << >>)
         \o (IF "audio" \in DOMAIN c.port THEN BuildAudioTrack(c) ELSE << >>)
=============================================================================
