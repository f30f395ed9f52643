-------------------------------- MODULE Sdp --------------------------------
(***************************************************************************)
(* The SDP bodies of crates/ipcam-sip/src/sdp.rs: what this program writes *)
(* into an offer or an answer and what it reads out of one.  A body is a   *)
(* record [conn, media]; a media description has its type, port, its own   *)
(* c= address (NoAddr when it has none), the payload types of its m= line  *)
(* in the order of preference, and what a=rtpmap and a=fmtp say of some of *)
(* them.  A name stands for a codec, an fmtp for the level byte of its     *)
(* profile-level-id.  Origin, times, clock rates and channels, which no    *)
(* decision of the program reads, are left out.                            *)
(***************************************************************************)
EXTENDS Integers, Sequences, SequencesExt

CONSTANTS
    NoAddr,     \* no c= line
    NoFmtp,     \* no a=fmtp line, or one without profile-level-id
    NoMedia,    \* the lane is absent
    Invalid     \* the body cannot be used: parsing returns an error

PT_PCMU == 0
PT_PCMA == 8
PT_H264 == 96

\* The payload types RFC 3551 fixes, as far as the program knows them.
StaticPtInfo == (PT_PCMU :> "PCMU") @@ (PT_PCMA :> "PCMA") @@ (3 :> "GSM")
                  @@ (9 :> "G722") @@ (18 :> "G729")

CodecName(pt) == IF pt \in DOMAIN StaticPtInfo THEN StaticPtInfo[pt] ELSE "unknown"

\* profile-level-id=42e01f, what a video line of ours says unless it echoes.
DefaultFmtp == 31

-----------------------------------------------------------------------------
(* What we write. *)

AudioMediaDescription(port, pts) ==
    [type |-> "audio", port |-> port, conn |-> NoAddr, fmt |-> pts,
     rtpmap |-> [pt \in ToSet(pts) |-> CodecName(pt)], fmtp |-> << >>]

\* Offer and answer alike name the codec of a video line H264.
VideoMediaDescription(port, pt, fmtp) ==
    [type |-> "video", port |-> port, conn |-> NoAddr, fmt |-> <<pt>>,
     rtpmap |-> [p \in {pt} |-> "H264"],
     fmtp |-> [p \in {pt} |-> IF fmtp = NoFmtp THEN DefaultFmtp ELSE fmtp]]

SessionSkeleton(local) == [conn |-> local, media |-> << >>]

BuildAvOffer(local, audioPort, videoPort, pts) ==
    [SessionSkeleton(local) EXCEPT !.media =
        << AudioMediaDescription(audioPort, pts),
           VideoMediaDescription(videoPort, PT_H264, NoFmtp) >>]

-----------------------------------------------------------------------------
(* What we read. *)

IsU8(pt) == pt \in 0..255

ResolveFmtp(md, pt) == IF pt \in DOMAIN md.fmtp THEN md.fmtp[pt] ELSE NoFmtp

\* The candidates of a line, in the peer's order of preference.  An a=rtpmap
\* line names the codec; a static payload type may do without.
ParseFmtCodecs(md) ==
    [i \in DOMAIN md.fmt |->
        LET pt == md.fmt[i]
        IN [pt |-> pt,
            codec |-> IF pt \in DOMAIN md.rtpmap THEN md.rtpmap[pt] ELSE CodecName(pt),
            fmtp |-> ResolveFmtp(md, pt)]]

MediaIp(sdp, md) == IF md.conn # NoAddr THEN md.conn ELSE sdp.conn

OfferFromMedia(sdp, md) ==
    [addr |-> MediaIp(sdp, md), port |-> md.port, codecs |-> ParseFmtCodecs(md)]

\* An answer has narrowed each line to one codec: the first is taken.
PeerFromMedia(sdp, md) ==
    LET first == ParseFmtCodecs(md)[1]
    IN [addr |-> MediaIp(sdp, md), port |-> md.port, pt |-> first.pt,
        codec |-> first.codec, fmtp |-> first.fmtp]

Readable(sdp, md) ==
    /\ md.fmt # << >>
    /\ \A i \in DOMAIN md.fmt : IsU8(md.fmt[i])
    /\ MediaIp(sdp, md) # NoAddr

\* The place of the last line of a type, 0 when there is none.
LastLine(media, type) == SelectLastInSeq(media, LAMBDA md : md.type = type)

\* One line that cannot be read fails the whole body, whatever its type; of
\* two lines of a type the last one counts; without either lane there is
\* nothing to negotiate.  parsed holds what each line comes to.
ParseMediaPair(sdp, parsed) ==
    LET lane(type) ==
          LET last == LastLine(sdp.media, type)
          IN IF last = 0 THEN NoMedia ELSE parsed[last]
        pair == [audio |-> lane("audio"), video |-> lane("video")]
    IN IF \/ sdp = Invalid
          \/ \E i \in DOMAIN sdp.media : ~Readable(sdp, sdp.media[i])
          \/ pair.audio = NoMedia /\ pair.video = NoMedia
       THEN Invalid ELSE pair

ParseOfferAll(sdp) ==
    ParseMediaPair(sdp, [i \in DOMAIN sdp.media |-> OfferFromMedia(sdp, sdp.media[i])])

ParseAnswerAll(sdp) ==
    ParseMediaPair(sdp, [i \in DOMAIN sdp.media |-> PeerFromMedia(sdp, sdp.media[i])])

-----------------------------------------------------------------------------
(* How wide a picture the peer can decode, 0 when nothing limits it. *)

H264RecvMaxWidth(level) ==
    CASE level \in 10..11          -> 176
      [] level \in {12, 13, 20}    -> 352
      [] level = 21                -> 704
      [] level \in {22, 30}        -> 720
      [] level \in 31..32          -> 1280
      [] level \in 40..42          -> 1920
      [] level \in 50..52          -> 3840
      [] OTHER                     -> 0

\* The tighter of our limit and the peer's; 0 limits nothing.
ClampMaxWidth(configured, fmtp) ==
    LET limits == {configured, IF fmtp = NoFmtp THEN 0 ELSE H264RecvMaxWidth(fmtp)} \ {0}
    IN IF limits = {} THEN 0 ELSE Min(limits)
=============================================================================
