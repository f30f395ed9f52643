------------------------------ MODULE MCMedia ------------------------------
(* Bodies a peer may send: this program's own offer, and offers of phones   *)
(* with other codecs, other orders, other levels, and one line only.        *)
EXTENDS Media

Md(type, conn, fmt, rtpmap, fmtp) ==
    [type |-> type, port |-> IF type = "audio" THEN 30000 ELSE 30002, conn |-> conn,
     fmt |-> fmt, rtpmap |-> rtpmap, fmtp |-> fmtp]
Body(media) == [conn |-> "peer", media |-> media]

Pcmu == Md("audio", NoAddr, <<0>>, << >>, << >>)
Pcma == Md("audio", NoAddr, <<8>>, << >>, << >>)
Opus == Md("audio", "gate", <<111>>, 111 :> "opus", << >>)
Audio == { Md("audio", NoAddr, <<111, 8, 0>>, 111 :> "opus", << >>),
           Md("audio", NoAddr, <<100>>, 100 :> "PCMU", << >>) }

H264(level) == Md("video", NoAddr, <<97>>, 97 :> "H264", 97 :> level)
Vp8 == Md("video", NoAddr, <<96>>, 96 :> "VP8", << >>)
Video == { Vp8, Md("video", NoAddr, <<96, 97>>, (96 :> "VP8") @@ (97 :> "H264"), 97 :> 31),
           Md("video", NoAddr, <<98, 97>>, (98 :> "H265") @@ (97 :> "H264"), << >>) }

MCInitialOffers ==
    { Body(<<a, H264(31)>>) : a \in Audio } \cup { Body(<<v, Pcmu>>) : v \in Video }
    \cup { Body(<<Pcmu>>), Body(<<Opus, Vp8>>), BuildAvOffer("peer", 5004, 5006, <<0, 8>>),
           Body(<<Md("audio", NoAddr, <<300>>, << >>, << >>)>>) }

MCReoffers == { Invalid, Body(<<Pcma, H264(31)>>), Body(<<Pcma, H264(13)>>) }

MCInitialAnswers == { Invalid, Body(<<Pcma, H264(31)>>),
    Body(<<Pcma, Md("video", NoAddr, <<96>>, 96 :> "AV1", << >>)>>) }
=============================================================================
