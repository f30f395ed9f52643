----------------------------- MODULE MCPipeline -----------------------------
(* Receivers that record, play and tap; senders from files, cameras and      *)
(* devices; sessions for the browser and for the window.                     *)
EXTENDS Pipeline, TLC

Both == ("video" :> 1) @@ ("audio" :> 2)
Recv(record, playback, tap, port) ==
    [record |-> record, playback |-> playback, tap |-> tap, port |-> port]
MCRecvConfigs ==
    { Recv(TRUE, TRUE, TRUE, "video" :> 1), Recv(TRUE, FALSE, TRUE, Both),
      Recv(FALSE, TRUE, TRUE, Both), Recv(TRUE, TRUE, FALSE, "audio" :> 1),
      Recv(FALSE, FALSE, TRUE, "audio" :> 1),
      Recv(FALSE, TRUE, FALSE, ("video" :> 1) @@ ("audio" :> 1)) }

File == [from |-> "file", name |-> 1]
Mic == [from |-> "device", name |-> 0]
Camera == [from |-> "rtsp", name |-> 0]
MCSendConfigs ==
    { [source |-> ("video" :> File) @@ ("audio" :> File)],
      [source |-> ("video" :> Camera) @@ ("audio" :> Mic)],
      [source |-> << >>] }

Session(webrtc, tap, alsa, audioTap) ==
    [webrtc |-> webrtc, tap |-> tap, alsa |-> alsa, audioTap |-> audioTap]
MCSessionConfigs ==
    { Session(TRUE, TRUE, FALSE, FALSE), Session(FALSE, TRUE, TRUE, TRUE),
      Session(TRUE, FALSE, FALSE, TRUE) }

Track(media, known) == [media |-> media, known |-> known]
MCTracks ==
    { ("p" :> Track("video", k)) @@ ("q" :> Track(m, TRUE)) :
        k \in BOOLEAN, m \in {"video", "audio"} }
    \cup { ("p" :> Track("audio", FALSE)) @@ ("q" :> Track("audio", TRUE)) }
=============================================================================
