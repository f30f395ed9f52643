------------------------------- MODULE Tracks -------------------------------
(***************************************************************************)
(* What is linked to the pads of an RTSP source as they appear:            *)
(* ingest/track.rs, for the pipeline of ingest/pipeline.rs.  A camera may  *)
(* offer several tracks of a kind and codecs nobody here decodes.          *)
(***************************************************************************)
EXTENDS Elements

\* A configuration says which consumers a session has: the browser (webrtc),
\* the loudspeaker (alsa), and the callbacks for frames (tap) and samples
\* (audioTap).
VideoConsumed(c) == c.webrtc \/ c.tap
AudioConsumed(c) == c.webrtc \/ c.alsa \/ c.audioTap

\* What the callback does with a pad before it claims the slot of its kind.
\* Sound nobody consumes takes the slot and nothing else.
Verdict(c, pad) ==
    CASE pad.media = "video" /\ (~VideoConsumed(c) \/ ~pad.known) -> "refuse"
      [] pad.media = "audio" /\ ~AudioConsumed(c)                 -> "ignore"
      [] pad.media = "audio" /\ ~pad.known                        -> "refuse"
      [] pad.media \notin {"video", "audio"}                      -> "refuse"
      [] OTHER                                                    -> "link"

\* The branches that leave a track's tee.  A callback takes what its sink
\* pulls on the thread of the branch, so a tap stands behind a leaky queue.
VideoTapBranch(lane) == << LeakyQueue(lane, "tap"), Outlet(lane, "tap") >>
AudioTapBranch(lane) == << LeakyQueue(lane, "tap"), Outlet(lane, "tap") >>
WebAudioBranch(lane) == << Queue(lane, "webrtc"), Outlet(lane, "webrtc") >>
AlsaBranch(lane)     == << Queue(lane, "speaker"), Outlet(lane, "speaker") >>

LinkTeeBranch(lane, head) == Link(<<Tee(lane), head>>)

\* The browser's picture leaves the tee without a queue.
LinkVideo(c, lane) ==
    LET web == Outlet(lane, "webrtc")
        gui == VideoTapBranch(lane)
    IN << Make, AddAndSync, Link(<<Source(lane), DepayHead(lane)>>) >>
       \o IF c.tap
          THEN << Link(<<DepayHead(lane), Tee(lane)>>) >>
               \o (IF c.webrtc THEN << Request, LinkTeeBranch(lane, web) >> ELSE << >>)
               \o << LinkTeeBranch(lane, gui[1]), Link(gui) >>
          ELSE << Request, Link(<<DepayHead(lane), web>>) >>

\* Sound is decoded once, ahead of the tee; the pad is linked when every
\* branch is.
LinkAudio(c, lane) ==
    LET joined(branch) == << Link(branch), LinkTeeBranch(lane, branch[1]) >>
    IN << Make, AddAndSync >>
       \o (IF c.webrtc THEN << Request >> \o joined(WebAudioBranch(lane)) ELSE << >>)
       \o (IF c.alsa THEN joined(AlsaBranch(lane)) ELSE << >>)
       \o (IF c.audioTap THEN joined(AudioTapBranch(lane)) ELSE << >>)
       \o << Link(<<Source(lane), Tee(lane)>>) >>

LinkTrack(c, pad, lane) == IF pad.media = "video" THEN LinkVideo(c, lane) ELSE LinkAudio(c, lane)

\* build_pipeline makes the RTSP source and, for the browser, the sink.
BuildPipeline(c) == << Make, AddAndSync >>
=============================================================================
