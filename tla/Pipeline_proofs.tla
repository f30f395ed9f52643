-------------------------- MODULE Pipeline_proofs --------------------------
(***************************************************************************)
(* What a session links, for every set of configurations and offers.       *)
(* Part 1 is about builders; part 2 gives the invariant of a session and   *)
(* its first consequence, that one track of each kind is linked at most;   *)
(* part 3 shows that a track that is linked reaches every consumer.        *)
(***************************************************************************)
EXTENDS Pipeline, TLAPS

-----------------------------------------------------------------------------
(* Part 1.  The links a sequence of steps adds. *)

Kinds == {"source", "filter", "tee", "queue", "leaky", "outlet"}
Uses == {"rtp", "depay", "tee", "webrtc", "speaker", "tap"}
NodesOf(id) == [lane : {id}, kind : Kinds, use : Uses]
LinksOf(id) == NodesOf(id) \X NodesOf(id)
Builders(id) == Seq(SUBSET LinksOf(id))

Built(steps) == UNION { steps[i] : i \in 1..Len(steps) }

\* What a path of two nodes adds.
LEMMA LinkOfTwo ==
    ASSUME NEW a, NEW b
    PROVE  Link(<<a, b>>) = {<<a, b>>}
<1>1. Len(<<a, b>>) = 2 /\ <<a, b>>[1] = a /\ <<a, b>>[2] = b
    OBVIOUS
<1>2. 1..Len(<<a, b>>) - 1 = {1}
    BY <1>1
<1> QED
    BY <1>1, <1>2 DEF Link

\* Two builders one after the other build what each of them builds.
LEMMA BuiltByBoth ==
    ASSUME NEW S, NEW s \in Seq(S), NEW t \in Seq(S)
    PROVE  Built(s \o t) = Built(s) \cup Built(t)
<1>1. Len(s) \in Nat /\ Len(t) \in Nat /\ Len(s \o t) = Len(s) + Len(t)
    OBVIOUS
<1>2. ASSUME NEW i \in 1..Len(s)
      PROVE  i \in 1..Len(s \o t) /\ (s \o t)[i] = s[i]
    BY <1>1
<1>3. ASSUME NEW i \in 1..Len(t)
      PROVE  Len(s) + i \in 1..Len(s \o t) /\ (s \o t)[Len(s) + i] = t[i]
    BY <1>1
<1>4. ASSUME NEW i \in 1..Len(s \o t)
      PROVE  \/ i \in 1..Len(s) /\ (s \o t)[i] = s[i]
             \/ i - Len(s) \in 1..Len(t) /\ (s \o t)[i] = t[i - Len(s)]
    BY <1>1
<1>5. Built(s \o t) \subseteq Built(s) \cup Built(t)
    BY <1>4 DEF Built
<1>6. Built(s) \subseteq Built(s \o t)
    BY <1>2 DEF Built
<1>7. Built(t) \subseteq Built(s \o t)
    BY <1>3 DEF Built
<1> QED
    BY <1>5, <1>6, <1>7

\* The first step builds what is missing when the rest is done.
LEMMA BuiltByHead ==
    ASSUME NEW S, NEW s \in Seq(S), s # << >>
    PROVE  Built(s) = Head(s) \cup Built(Tail(s))
<1>1. Len(s) \in Nat \ {0} /\ Len(Tail(s)) = Len(s) - 1
    OBVIOUS
<1>2. ASSUME NEW i \in 1..Len(Tail(s))
      PROVE  i + 1 \in 1..Len(s) /\ Tail(s)[i] = s[i + 1]
    BY <1>1
<1>3. ASSUME NEW i \in 1..Len(s), i # 1
      PROVE  i - 1 \in 1..Len(Tail(s)) /\ Tail(s)[i - 1] = s[i]
    BY <1>1, <1>3
<1>4. Head(s) = s[1] /\ 1 \in 1..Len(s)
    BY <1>1
<1>5. Built(s) \subseteq Head(s) \cup Built(Tail(s))
    BY <1>3, <1>4 DEF Built
<1>6. Head(s) \subseteq Built(s)
    BY <1>4 DEF Built
<1>7. Built(Tail(s)) \subseteq Built(s)
    BY <1>2 DEF Built
<1> QED
    BY <1>5, <1>6, <1>7

\* What a builder of one lane builds are links of that lane.
LEMMA BuiltInLane ==
    ASSUME NEW id, NEW s \in Builders(id)
    PROVE  Built(s) \subseteq LinksOf(id)
BY DEF Built, Builders

\* The elements of a lane are nodes of it.
LEMMA NodesInLane ==
    ASSUME NEW id, NEW use \in Uses
    PROVE  /\ Source(id) \in NodesOf(id)
           /\ DepayHead(id) \in NodesOf(id)
           /\ Tee(id) \in NodesOf(id)
           /\ Outlet(id, use) \in NodesOf(id)
           /\ Queue(id, use) \in NodesOf(id)
           /\ LeakyQueue(id, use) \in NodesOf(id)
<1>1. ASSUME NEW k \in Kinds, NEW u \in Uses
      PROVE  Node(id, k, u) \in NodesOf(id)
    BY DEF NodesOf, Node
<1>2. {"rtp", "depay", "tee"} \subseteq Uses
    BY DEF Uses
<1>3. {"source", "filter", "tee", "queue", "leaky", "outlet"} \subseteq Kinds
    BY DEF Kinds
<1> QED
    BY <1>1, <1>2, <1>3 DEF Source, DepayHead, Tee, Outlet, Queue, LeakyQueue

\* A link between two nodes of a lane is a step of it, and so is no link.
LEMMA StepsInLane ==
    ASSUME NEW id
    PROVE  /\ \A a, b \in NodesOf(id) : Link(<<a, b>>) \in SUBSET LinksOf(id)
           /\ Make \in SUBSET LinksOf(id)
           /\ AddAndSync \in SUBSET LinksOf(id)
           /\ Request \in SUBSET LinksOf(id)
<1>1. ASSUME NEW a \in NodesOf(id), NEW b \in NodesOf(id)
      PROVE  Link(<<a, b>>) \in SUBSET LinksOf(id)
    <2>1. <<a, b>> \in LinksOf(id)
        BY DEF LinksOf
    <2>2. Link(<<a, b>>) = {<<a, b>>}
        BY LinkOfTwo
    <2> QED
        BY <2>1, <2>2
<1> QED
    BY <1>1 DEF Make, AddAndSync, Request

\* What the callbacks link for a picture and for sound, whatever the order.
VideoLinks(c, id) ==
    {<<Source(id), DepayHead(id)>>}
        \cup IF c.tap
             THEN {<<DepayHead(id), Tee(id)>>, <<Tee(id), LeakyQueue(id, "tap")>>,
                   <<LeakyQueue(id, "tap"), Outlet(id, "tap")>>}
                   \cup (IF c.webrtc THEN {<<Tee(id), Outlet(id, "webrtc")>>} ELSE {})
             ELSE {<<DepayHead(id), Outlet(id, "webrtc")>>}

Branch(id, q, o) == {<<q, o>>, <<Tee(id), q>>}

AudioLinks(c, id) ==
    {<<Source(id), Tee(id)>>}
        \cup (IF c.webrtc THEN Branch(id, Queue(id, "webrtc"), Outlet(id, "webrtc")) ELSE {})
        \cup (IF c.alsa THEN Branch(id, Queue(id, "speaker"), Outlet(id, "speaker")) ELSE {})
        \cup (IF c.audioTap THEN Branch(id, LeakyQueue(id, "tap"), Outlet(id, "tap")) ELSE {})

\* Builders of a lane make a builder of it.
LEMMA BothInLane ==
    ASSUME NEW id, NEW s \in Builders(id), NEW t \in Builders(id)
    PROVE  s \o t \in Builders(id) /\ Built(s \o t) = Built(s) \cup Built(t)
BY BuiltByBoth DEF Builders

\* A builder of a few steps builds what each of them is.
LEMMA OneStep ==
    ASSUME NEW id, NEW x \in SUBSET LinksOf(id)
    PROVE  <<x>> \in Builders(id) /\ Built(<<x>>) = x
<1>1. 1..Len(<<x>>) = {1} /\ <<x>>[1] = x
    OBVIOUS
<1> QED
    BY <1>1 DEF Built, Builders

\* Two steps.
LEMMA TwoSteps ==
    ASSUME NEW id, NEW x \in SUBSET LinksOf(id), NEW y \in SUBSET LinksOf(id)
    PROVE  <<x, y>> \in Builders(id) /\ Built(<<x, y>>) = x \cup y
<1>1. 1..Len(<<x, y>>) = {1, 2} /\ <<x, y>>[1] = x /\ <<x, y>>[2] = y
    OBVIOUS
<1> QED
    BY <1>1 DEF Built, Builders

\* Three steps.
LEMMA ThreeSteps ==
    ASSUME NEW id, NEW x \in SUBSET LinksOf(id), NEW y \in SUBSET LinksOf(id), NEW z \in SUBSET LinksOf(id)
    PROVE  <<x, y, z>> \in Builders(id) /\ Built(<<x, y, z>>) = x \cup y \cup z
<1>1. /\ 1..Len(<<x, y, z>>) = {1, 2, 3}
      /\ <<x, y, z>>[1] = x /\ <<x, y, z>>[2] = y /\ <<x, y, z>>[3] = z
    OBVIOUS
<1> QED
    BY <1>1 DEF Built, Builders

\* Nothing is built by no step.
LEMMA NoStep ==
    ASSUME NEW id
    PROVE  << >> \in Builders(id) /\ Built(<< >>) = {}
<1>1. 1..Len(<< >>) = {}
    OBVIOUS
<1> QED
    BY <1>1 DEF Built, Builders

\* What is built for a picture.
LEMMA VideoBuilt ==
    ASSUME NEW c, NEW id
    PROVE  LinkVideo(c, id) \in Builders(id) /\ Built(LinkVideo(c, id)) = VideoLinks(c, id)
<1> DEFINE
    src == Source(id)
    depay == DepayHead(id)
    tee == Tee(id)
    web == Outlet(id, "webrtc")
    leaky == LeakyQueue(id, "tap")
    tap == Outlet(id, "tap")
    first == << Make, AddAndSync, Link(<<src, depay>>) >>
    teed == << Link(<<depay, tee>>) >>
    webbed == IF c.webrtc THEN << Request, Link(<<tee, web>>) >> ELSE << >>
    tapped == << Link(<<tee, leaky>>), Link(<<leaky, tap>>) >>
    plain == << Request, Link(<<depay, web>>) >>
<1>1. "webrtc" \in Uses /\ "tap" \in Uses
    BY DEF Uses
<1>2. /\ src \in NodesOf(id) /\ depay \in NodesOf(id) /\ tee \in NodesOf(id)
      /\ web \in NodesOf(id) /\ leaky \in NodesOf(id) /\ tap \in NodesOf(id)
    BY <1>1, NodesInLane
<1>3. LinkVideo(c, id) = first \o IF c.tap THEN teed \o webbed \o tapped ELSE plain
    BY DEF LinkVideo, VideoTapBranch, LinkTeeBranch
<1> HIDE DEF src, depay, tee, web, leaky, tap
<1>4. first \in Builders(id) /\ Built(first) = {<<src, depay>>}
    <2>1. first \in Builders(id) /\ Built(first) = Make \cup AddAndSync \cup Link(<<src, depay>>)
        BY <1>2, StepsInLane, ThreeSteps
    <2> QED
        BY <2>1, LinkOfTwo DEF Make, AddAndSync
<1>5. teed \in Builders(id) /\ Built(teed) = {<<depay, tee>>}
    <2>1. teed \in Builders(id) /\ Built(teed) = Link(<<depay, tee>>)
        BY <1>2, StepsInLane, OneStep
    <2> QED
        BY <2>1, LinkOfTwo
<1>6. webbed \in Builders(id) /\ Built(webbed) = IF c.webrtc THEN {<<tee, web>>} ELSE {}
    <2>1. CASE c.webrtc
        <3>1. webbed \in Builders(id) /\ Built(webbed) = Request \cup Link(<<tee, web>>)
            BY <1>2, <2>1, StepsInLane, TwoSteps
        <3> QED
            BY <2>1, <3>1, LinkOfTwo DEF Request
    <2>2. CASE ~c.webrtc
        BY <2>2, NoStep
    <2> QED
        BY <2>1, <2>2
<1>7. tapped \in Builders(id) /\ Built(tapped) = {<<tee, leaky>>, <<leaky, tap>>}
    <2>1. tapped \in Builders(id) /\ Built(tapped) = Link(<<tee, leaky>>) \cup Link(<<leaky, tap>>)
        BY <1>2, StepsInLane, TwoSteps
    <2> QED
        BY <2>1, LinkOfTwo
<1>8. plain \in Builders(id) /\ Built(plain) = {<<depay, web>>}
    <2>1. plain \in Builders(id) /\ Built(plain) = Request \cup Link(<<depay, web>>)
        BY <1>2, StepsInLane, TwoSteps
    <2> QED
        BY <2>1, LinkOfTwo DEF Request
<1>9. VideoLinks(c, id) =
        {<<src, depay>>} \cup IF c.tap THEN {<<depay, tee>>, <<tee, leaky>>, <<leaky, tap>>}
                                             \cup (IF c.webrtc THEN {<<tee, web>>} ELSE {})
                              ELSE {<<depay, web>>}
    BY DEF VideoLinks, src, depay, tee, web, leaky, tap
<1> HIDE DEF first, teed, webbed, tapped, plain
<1>10. CASE c.tap
    <2>1. teed \o webbed \in Builders(id) /\ Built(teed \o webbed) = Built(teed) \cup Built(webbed)
        BY <1>5, <1>6, BothInLane
    <2>2. /\ teed \o webbed \o tapped \in Builders(id)
          /\ Built(teed \o webbed \o tapped) = Built(teed) \cup Built(webbed) \cup Built(tapped)
        BY <1>7, <2>1, BothInLane
    <2>3. /\ first \o (teed \o webbed \o tapped) \in Builders(id)
          /\ Built(first \o (teed \o webbed \o tapped)) = Built(first) \cup Built(teed \o webbed \o tapped)
        BY <1>4, <2>2, BothInLane
    <2> QED
        BY <1>3, <1>4, <1>5, <1>6, <1>7, <1>9, <1>10, <2>2, <2>3
<1>11. CASE ~c.tap
    <2>1. first \o plain \in Builders(id) /\ Built(first \o plain) = Built(first) \cup Built(plain)
        BY <1>4, <1>8, BothInLane
    <2> QED
        BY <1>3, <1>4, <1>8, <1>9, <1>11, <2>1
<1> QED
    BY <1>10, <1>11

\* A branch that is linked and joined to the tee.
LEMMA BranchBuilt ==
    ASSUME NEW id, NEW q \in NodesOf(id), NEW o \in NodesOf(id)
    PROVE  /\ << Link(<<q, o>>), Link(<<Tee(id), q>>) >> \in Builders(id)
           /\ Built(<< Link(<<q, o>>), Link(<<Tee(id), q>>) >>) = Branch(id, q, o)
<1>1. "tap" \in Uses
    BY DEF Uses
<1>2. Tee(id) \in NodesOf(id)
    BY <1>1, NodesInLane
<1>3. Link(<<q, o>>) \in SUBSET LinksOf(id) /\ Link(<<Tee(id), q>>) \in SUBSET LinksOf(id)
    BY <1>2, StepsInLane
<1>4. Link(<<q, o>>) = {<<q, o>>} /\ Link(<<Tee(id), q>>) = {<<Tee(id), q>>}
    BY LinkOfTwo
<1> QED
    BY <1>3, <1>4, TwoSteps DEF Branch

\* What is built for sound.
LEMMA AudioBuilt ==
    ASSUME NEW c, NEW id
    PROVE  LinkAudio(c, id) \in Builders(id) /\ Built(LinkAudio(c, id)) = AudioLinks(c, id)
<1> DEFINE
    src == Source(id)
    tee == Tee(id)
    queue(use) == Queue(id, use)
    leaky == LeakyQueue(id, "tap")
    out(use) == Outlet(id, use)
    made == << Make, AddAndSync >>
    joined(q, o) == << Link(<<q, o>>), Link(<<tee, q>>) >>
    web == IF c.webrtc THEN << Request >> \o joined(queue("webrtc"), out("webrtc")) ELSE << >>
    alsa == IF c.alsa THEN joined(queue("speaker"), out("speaker")) ELSE << >>
    tap == IF c.audioTap THEN joined(leaky, out("tap")) ELSE << >>
    last == << Link(<<src, tee>>) >>
<1>1. "webrtc" \in Uses /\ "speaker" \in Uses /\ "tap" \in Uses
    BY DEF Uses
<1>2. /\ src \in NodesOf(id) /\ tee \in NodesOf(id) /\ leaky \in NodesOf(id)
      /\ queue("webrtc") \in NodesOf(id) /\ queue("speaker") \in NodesOf(id)
      /\ out("webrtc") \in NodesOf(id) /\ out("speaker") \in NodesOf(id) /\ out("tap") \in NodesOf(id)
    BY <1>1, NodesInLane
<1>3. LinkAudio(c, id) = made \o web \o alsa \o tap \o last
    BY DEF LinkAudio, WebAudioBranch, AlsaBranch, AudioTapBranch, LinkTeeBranch
<1>4. AudioLinks(c, id) =
        {<<src, tee>>} \cup (IF c.webrtc THEN Branch(id, queue("webrtc"), out("webrtc")) ELSE {})
                       \cup (IF c.alsa THEN Branch(id, queue("speaker"), out("speaker")) ELSE {})
                       \cup (IF c.audioTap THEN Branch(id, leaky, out("tap")) ELSE {})
    BY DEF AudioLinks
<1>5. ASSUME NEW q \in NodesOf(id), NEW o \in NodesOf(id)
      PROVE  joined(q, o) \in Builders(id) /\ Built(joined(q, o)) = Branch(id, q, o)
    BY BranchBuilt
<1> HIDE DEF src, tee, queue, leaky, out, joined
<1>6. made \in Builders(id) /\ Built(made) = {}
    <2>1. made \in Builders(id) /\ Built(made) = Make \cup AddAndSync
        BY StepsInLane, TwoSteps
    <2> QED
        BY <2>1 DEF Make, AddAndSync
<1>7. /\ web \in Builders(id)
      /\ Built(web) = IF c.webrtc THEN Branch(id, queue("webrtc"), out("webrtc")) ELSE {}
    <2>1. CASE c.webrtc
        <3>1. << Request >> \in Builders(id) /\ Built(<< Request >>) = {}
            <4>1. << Request >> \in Builders(id) /\ Built(<< Request >>) = Request
                BY StepsInLane, OneStep
            <4> QED
                BY <4>1 DEF Request
        <3>2. /\ joined(queue("webrtc"), out("webrtc")) \in Builders(id)
              /\ Built(joined(queue("webrtc"), out("webrtc"))) = Branch(id, queue("webrtc"), out("webrtc"))
            BY <1>2, <1>5
        <3>3. web = << Request >> \o joined(queue("webrtc"), out("webrtc"))
            BY <2>1
        <3> HIDE DEF web
        <3>4. /\ web \in Builders(id)
              /\ Built(web) = Built(<< Request >>) \cup Built(joined(queue("webrtc"), out("webrtc")))
            BY <3>1, <3>2, <3>3, BothInLane
        <3> QED
            BY <2>1, <3>1, <3>2, <3>4
    <2>2. CASE ~c.webrtc
        BY <2>2, NoStep
    <2> QED
        BY <2>1, <2>2
<1>8. /\ alsa \in Builders(id)
      /\ Built(alsa) = IF c.alsa THEN Branch(id, queue("speaker"), out("speaker")) ELSE {}
    BY <1>2, <1>5, NoStep
<1>9. /\ tap \in Builders(id)
      /\ Built(tap) = IF c.audioTap THEN Branch(id, leaky, out("tap")) ELSE {}
    BY <1>2, <1>5, NoStep
<1>10. last \in Builders(id) /\ Built(last) = {<<src, tee>>}
    BY <1>2, StepsInLane, OneStep, LinkOfTwo
<1> HIDE DEF made, web, alsa, tap, last
<1>11. made \o web \in Builders(id) /\ Built(made \o web) = Built(made) \cup Built(web)
    BY <1>6, <1>7, BothInLane
<1>12. /\ made \o web \o alsa \in Builders(id)
       /\ Built(made \o web \o alsa) = Built(made) \cup Built(web) \cup Built(alsa)
    BY <1>8, <1>11, BothInLane
<1>13. /\ made \o web \o alsa \o tap \in Builders(id)
       /\ Built(made \o web \o alsa \o tap) = Built(made) \cup Built(web) \cup Built(alsa) \cup Built(tap)
    BY <1>9, <1>12, BothInLane
<1>14. /\ made \o web \o alsa \o tap \o last \in Builders(id)
       /\ Built(made \o web \o alsa \o tap \o last) =
            Built(made) \cup Built(web) \cup Built(alsa) \cup Built(tap) \cup Built(last)
    BY <1>10, <1>13, BothInLane
<1> QED
    BY <1>3, <1>4, <1>6, <1>7, <1>8, <1>9, <1>10, <1>14

\* What is linked to the pad of a track.
TrackLinks(c, pad, id) == IF pad.media = "video" THEN VideoLinks(c, id) ELSE AudioLinks(c, id)

\* A track always needs some step, and is built as planned.
LEMMA TrackBuilt ==
    ASSUME NEW c, NEW pad, NEW id
    PROVE  /\ LinkTrack(c, pad, id) \in Builders(id)
           /\ LinkTrack(c, pad, id) # << >>
           /\ Built(LinkTrack(c, pad, id)) = TrackLinks(c, pad, id)
<1>1. /\ LinkTrack(c, pad, id) \in Builders(id)
      /\ Built(LinkTrack(c, pad, id)) = TrackLinks(c, pad, id)
    BY VideoBuilt, AudioBuilt DEF LinkTrack, TrackLinks
<1>2. TrackLinks(c, pad, id) # {}
    BY DEF TrackLinks, VideoLinks, AudioLinks
<1>3. Built(<< >>) = {}
    BY NoStep
<1> QED
    BY <1>1, <1>2, <1>3

-----------------------------------------------------------------------------
(* Part 2.  The slot of a kind of track has one owner, and only the pads    *)
(* of owners are linked.                                                    *)

Places == {"absent", "refused", "ignored", "linking", "linked", "broken"}
Owning == {"ignored", "linking", "linked", "broken"}

Owners == { id \in DOMAIN offer : pads[id].at \in Owning }

LinksAt(id) == { l \in links : l[1].lane = id }

SessionTypeOK ==
    /\ cfg \in SessionConfigs /\ offer \in Offers
    /\ stage \in {"building", "failed", "playing", "down"}
    /\ work \in Seq({{}})

\* A session never waits for caps, so none of its pads is notified.
PadsOK ==
    /\ pads = [id \in Ids |-> pads[id]]
    /\ \A id \in Ids : pads[id] \in [at : Places, todo : Builders(id), notified : {FALSE}]

\* Callbacks run while the pipeline plays, for the tracks that are offered.
OnlyWhilePlaying ==
    /\ stage # "playing" => links = {} /\ \A id \in Ids : pads[id].at = "absent"
    /\ \A id \in Ids : pads[id].at # "absent" => id \in DOMAIN offer

\* The slots that are taken are those of the owners, each of a kind of its own.
SlotsAreOwned ==
    /\ stage # "down" => claimed = { offer[id].media : id \in Owners }
    /\ \A p, q \in Owners : offer[p].media = offer[q].media => p = q

\* What a callback has linked, with what it still has to link, is the plan of its track.
LinkedAsPlanned(id) ==
    LET plan == TrackLinks(cfg, offer[id], id)
    IN /\ pads[id].at = "linking" =>
            pads[id].todo # << >> /\ LinksAt(id) \cup Built(pads[id].todo) = plan
       /\ pads[id].at = "linked" => LinksAt(id) = plan
       /\ pads[id].at \in {"absent", "refused", "ignored"} => LinksAt(id) = {}

\* What has become of a pad is what its codec and the slots allowed.
JudgedByVerdict(id) ==
    LET verdict == Verdict(cfg, offer[id])
    IN /\ pads[id].at = "ignored" => verdict = "ignore"
       /\ pads[id].at \in {"linking", "linked"} => verdict = "link"
       /\ pads[id].at = "refused" /\ verdict = "link" => offer[id].media \in claimed

SessionInv ==
    /\ SessionTypeOK /\ PadsOK /\ OnlyWhilePlaying /\ SlotsAreOwned
    /\ \A id \in Ids : LinkedAsPlanned(id)
    /\ \A id \in Ids : JudgedByVerdict(id)

Inv == kind = "session" => SessionInv

\* What a session reads of the state, and what the provers need of its parts.
core == <<kind, cfg, offer, stage, work, pads, claimed, links>>

\* The callbacks of a session are called for the tracks of the camera.
LEMMA ShownOfSession ==
    ASSUME kind = "session"
    PROVE  Shown = DOMAIN offer
<1>1. kind # "sender"
    OBVIOUS
<1> QED
    BY <1>1, Zenon DEF Shown

\* A pad a camera offers is a pad.
LEMMA OfferedIsPad ==
    ASSUME SessionTypeOK
    PROVE  DOMAIN offer \subseteq Ids
BY DEF SessionTypeOK, Ids, Pads

\* A callback changes its own pad and no other.
LEMMA BecomesOnly ==
    ASSUME PadsOK, NEW id \in Ids, NEW at \in Places, NEW todo \in Builders(id), Becomes(id, at, todo)
    PROVE  /\ PadsOK'
           /\ pads'[id].at = at /\ pads'[id].todo = todo
           /\ \A other \in Ids : other # id => pads'[other] = pads[other]
<1>1. pads' = [other \in Ids |-> IF other = id THEN [pads[id] EXCEPT !.at = at, !.todo = todo]
                                               ELSE pads[other]]
    BY DEF PadsOK, Becomes
<1>2. pads[id] \in [at : Places, todo : Builders(id), notified : {FALSE}]
    BY DEF PadsOK
<1>3. /\ [pads[id] EXCEPT !.at = at, !.todo = todo]
            \in [at : Places, todo : Builders(id), notified : {FALSE}]
      /\ [pads[id] EXCEPT !.at = at, !.todo = todo].at = at
      /\ [pads[id] EXCEPT !.at = at, !.todo = todo].todo = todo
    BY <1>2
<1> HIDE DEF Becomes
<1>4. /\ \A other \in Ids : other # id => pads'[other] = pads[other]
      /\ pads'[id] = [pads[id] EXCEPT !.at = at, !.todo = todo]
      /\ pads' = [other \in Ids |-> pads'[other]]
    BY <1>1
<1> QED
    BY <1>3, <1>4 DEF PadsOK

\* The links of a builder are all at its pad.
LEMMA LinksGrow ==
    ASSUME NEW id, NEW more \in SUBSET LinksOf(id), links' = links \cup more
    PROVE  /\ LinksAt(id)' = LinksAt(id) \cup more
           /\ \A other : other # id => LinksAt(other)' = LinksAt(other)
<1>1. \A l \in more : l[1].lane = id
    BY DEF LinksOf, NodesOf
<1> QED
    BY <1>1 DEF LinksAt

\* A session starts with nothing linked and no slot taken.
LEMMA SessionInitially ==
    Init => Inv
<1> SUFFICES ASSUME Init, kind = "session"
             PROVE  SessionInv
    BY DEF Inv
<1>1. /\ cfg \in SessionConfigs /\ offer \in Offers /\ work = << {}, {} >> /\ stage = "building"
      /\ claimed = {} /\ links = {}
    BY DEF Init, BuildPipeline, Make, AddAndSync
<1>2. pads = [id \in Ids |-> NoPad]
    BY DEF Init
<1>3. SessionTypeOK
    BY <1>1 DEF SessionTypeOK
<1>4. \A id \in Ids : pads[id] = NoPad
    BY <1>2
<1>5. \A id \in Ids : pads[id].at = "absent" /\ pads[id].todo = << >> /\ ~pads[id].notified
    BY <1>4 DEF NoPad
<1>6. PadsOK
    <2>1. \A id : << >> \in Builders(id)
        BY NoStep
    <2>2. \A id \in Ids : NoPad \in [at : Places, todo : Builders(id), notified : {FALSE}]
        BY <2>1 DEF NoPad, Places
    <2> QED
        BY <1>2, <1>4, <2>2 DEF PadsOK
<1>7. Owners = {}
    BY <1>3, <1>5, OfferedIsPad DEF Owners, Owning
<1>8. OnlyWhilePlaying /\ SlotsAreOwned
    BY <1>1, <1>5, <1>7 DEF OnlyWhilePlaying, SlotsAreOwned
<1>9. \A id \in Ids : LinkedAsPlanned(id) /\ JudgedByVerdict(id)
    BY <1>1, <1>5 DEF LinkedAsPlanned, JudgedByVerdict, LinksAt
<1> QED
    BY <1>3, <1>6, <1>8, <1>9 DEF SessionInv

\* Before it plays, a session links nothing.
LEMMA BuildingKeepsInv ==
    ASSUME kind = "session", SessionInv, BuildStep \/ Play \/ StartFails
    PROVE  SessionInv'
<1>1. UNCHANGED <<kind, cfg, offer, pads, claimed>> /\ stage = "building"
    BY DEF BuildStep, Play, StartFails, given, flow
<1>2. links = {} /\ links' = {} /\ work' \in Seq({{}})
    <2>1. links = {} /\ work \in Seq({{}})
        BY <1>1 DEF SessionInv, OnlyWhilePlaying, SessionTypeOK
    <2>2. CASE BuildStep
        <3>1. Head(work) = {} /\ Tail(work) \in Seq({{}})
            BY <2>1, <2>2 DEF BuildStep
        <3> QED
            BY <2>1, <2>2, <3>1 DEF BuildStep
    <2>3. CASE Play
        BY <2>1, <2>3 DEF Play
    <2>4. CASE StartFails
        BY <2>1, <2>4 DEF StartFails
    <2> QED
        BY <2>2, <2>3, <2>4
<1>3. stage' \in {"building", "playing", "failed"}
    BY <1>1 DEF BuildStep, Play, StartFails
<1>4. SessionTypeOK'
    BY <1>1, <1>2, <1>3 DEF SessionInv, SessionTypeOK
<1>5. PadsOK' /\ OnlyWhilePlaying'
    BY <1>1, <1>2 DEF SessionInv, PadsOK, OnlyWhilePlaying
<1>6. SlotsAreOwned'
    BY <1>1 DEF SessionInv, SlotsAreOwned, Owners
<1>7. ASSUME NEW id \in Ids
      PROVE  LinkedAsPlanned(id)' /\ JudgedByVerdict(id)'
    BY <1>1, <1>2 DEF SessionInv, LinkedAsPlanned, JudgedByVerdict, LinksAt
<1> QED
    BY <1>4, <1>5, <1>6, <1>7 DEF SessionInv

\* A pad that is not the owner of its slot takes no slot when it is refused.
LEMMA RefusingKeepsInv ==
    ASSUME kind = "session", SessionInv, stage = "playing", NEW id \in DOMAIN offer,
           pads[id].at = "absent", Becomes(id, "refused", << >>),
           Verdict(cfg, offer[id]) = "link" => offer[id].media \in claimed,
           UNCHANGED <<kind, cfg, offer, stage, work, claimed, links>>
    PROVE  SessionInv'
<1>1. id \in Ids
    BY OfferedIsPad DEF SessionInv
<1>2. "refused" \in Places /\ << >> \in Builders(id)
    BY NoStep DEF Places
<1>3. /\ PadsOK' /\ pads'[id].at = "refused"
      /\ \A other \in Ids : other # id => pads'[other] = pads[other]
    BY <1>1, <1>2, BecomesOnly DEF SessionInv
<1>4. SessionTypeOK'
    BY DEF SessionInv, SessionTypeOK
<1>5. OnlyWhilePlaying'
    BY <1>3 DEF SessionInv, OnlyWhilePlaying
<1>6. Owners' = Owners
    <2>1. DOMAIN offer \subseteq Ids
        BY OfferedIsPad DEF SessionInv
    <2> QED
        BY <1>3, <2>1 DEF Owners, Owning
<1>7. SlotsAreOwned'
    BY <1>6 DEF SessionInv, SlotsAreOwned
<1>8. ASSUME NEW other \in Ids
      PROVE  LinkedAsPlanned(other)' /\ JudgedByVerdict(other)'
    <2>1. LinksAt(other)' = LinksAt(other)
        BY DEF LinksAt
    <2>2. CASE other = id
        BY <1>1, <1>3, <2>1, <2>2 DEF SessionInv, LinkedAsPlanned, JudgedByVerdict
    <2>3. CASE other # id
        BY <1>3, <2>1, <2>3 DEF SessionInv, LinkedAsPlanned, JudgedByVerdict
    <2> QED
        BY <2>2, <2>3
<1> QED
    BY <1>3, <1>4, <1>5, <1>7, <1>8 DEF SessionInv

\* A pad that takes its slot is its only owner: nobody had it.
LEMMA ClaimingKeepsInv ==
    ASSUME kind = "session", SessionInv, stage = "playing", NEW id \in DOMAIN offer,
           pads[id].at = "absent", ClaimTrack(offer[id].media),
           \/ Verdict(cfg, offer[id]) = "ignore" /\ Becomes(id, "ignored", << >>)
           \/ /\ Verdict(cfg, offer[id]) = "link"
              /\ Becomes(id, "linking", LinkTrack(cfg, offer[id], id)),
           UNCHANGED <<kind, cfg, offer, stage, work, links>>
    PROVE  SessionInv'
<1>1. id \in Ids /\ DOMAIN offer \subseteq Ids
    BY OfferedIsPad DEF SessionInv
<1> DEFINE plan == TrackLinks(cfg, offer[id], id)
<1>2. /\ LinkTrack(cfg, offer[id], id) \in Builders(id) /\ LinkTrack(cfg, offer[id], id) # << >>
      /\ Built(LinkTrack(cfg, offer[id], id)) = plan
    BY TrackBuilt
<1>3. "ignored" \in Places /\ "linking" \in Places /\ << >> \in Builders(id)
    BY NoStep DEF Places
<1>4. /\ PadsOK' /\ \A other \in Ids : other # id => pads'[other] = pads[other]
      /\ \/ pads'[id].at = "ignored" /\ Verdict(cfg, offer[id]) = "ignore"
         \/ /\ pads'[id].at = "linking" /\ Verdict(cfg, offer[id]) = "link"
            /\ pads'[id].todo = LinkTrack(cfg, offer[id], id)
    <2>1. PadsOK
        BY DEF SessionInv
    <2>2. CASE Verdict(cfg, offer[id]) = "ignore" /\ Becomes(id, "ignored", << >>)
        BY <1>1, <1>3, <2>1, <2>2, BecomesOnly
    <2>3. CASE /\ Verdict(cfg, offer[id]) = "link"
               /\ Becomes(id, "linking", LinkTrack(cfg, offer[id], id))
        BY <1>1, <1>2, <1>3, <2>1, <2>3, BecomesOnly
    <2> QED
        BY <2>2, <2>3
<1>5. SessionTypeOK'
    BY DEF SessionInv, SessionTypeOK
<1>6. OnlyWhilePlaying'
    BY <1>4 DEF SessionInv, OnlyWhilePlaying
<1>7. Owners' = Owners \cup {id}
    BY <1>1, <1>4 DEF Owners, Owning
<1>8. SlotsAreOwned'
    <2>1. /\ claimed = { offer[p].media : p \in Owners }
          /\ \A p, q \in Owners : offer[p].media = offer[q].media => p = q
        BY DEF SessionInv, SlotsAreOwned
    <2>2. offer[id].media \notin claimed /\ claimed' = claimed \cup {offer[id].media}
        BY DEF ClaimTrack
    <2>3. claimed' = { offer[p].media : p \in Owners \cup {id} }
        BY <2>1, <2>2
    <2>4. \A p, q \in Owners \cup {id} : offer[p].media = offer[q].media => p = q
        BY <2>1, <2>2
    <2> QED
        BY <1>7, <2>3, <2>4 DEF SlotsAreOwned
<1>9. ASSUME NEW other \in Ids
      PROVE  LinkedAsPlanned(other)' /\ JudgedByVerdict(other)'
    <2>1. LinksAt(other)' = LinksAt(other) /\ claimed \subseteq claimed'
        BY DEF LinksAt, ClaimTrack
    <2>2. LinkedAsPlanned(other) /\ JudgedByVerdict(other)
        BY DEF SessionInv
    <2>3. CASE other = id
        <3>1. LinksAt(id) = {}
            BY <2>2, <2>3 DEF LinkedAsPlanned
        <3>2. LinkedAsPlanned(id)'
            BY <1>2, <1>4, <2>1, <2>3, <3>1 DEF LinkedAsPlanned
        <3>3. JudgedByVerdict(id)'
            BY <1>4 DEF JudgedByVerdict
        <3> QED
            BY <2>3, <3>2, <3>3
    <2>4. CASE other # id
        BY <1>4, <2>1, <2>2, <2>4 DEF LinkedAsPlanned, JudgedByVerdict
    <2> QED
        BY <2>3, <2>4
<1> QED
    BY <1>4, <1>5, <1>6, <1>8, <1>9 DEF SessionInv

\* Whatever the verdict on a pad, the slots stay owned.
LEMMA PadAddedKeepsInv ==
    ASSUME kind = "session", SessionInv, NEW id \in Ids, PadAdded(id)
    PROVE  SessionInv'
<1>1. /\ stage = "playing" /\ pads[id].at = "absent" /\ TrackAppears(id)
      /\ UNCHANGED <<kind, cfg, offer, stage, work, links>>
    BY DEF PadAdded, PadAppears, given
<1>2. id \in DOMAIN offer
    BY ShownOfSession DEF PadAdded
<1>3. CASE Verdict(cfg, offer[id]) = "refuse" /\ Becomes(id, "refused", << >>) /\ UNCHANGED claimed
    <2>1. Verdict(cfg, offer[id]) # "link"
        BY <1>3
    <2> QED
        BY <1>1, <1>2, <1>3, <2>1, RefusingKeepsInv
<1>4. CASE offer[id].media \in claimed /\ Becomes(id, "refused", << >>) /\ UNCHANGED claimed
    BY <1>1, <1>2, <1>4, RefusingKeepsInv
<1>5. CASE /\ ClaimTrack(offer[id].media)
           /\ \/ Verdict(cfg, offer[id]) = "ignore" /\ Becomes(id, "ignored", << >>)
              \/ /\ Verdict(cfg, offer[id]) = "link"
                 /\ Becomes(id, "linking", LinkTrack(cfg, offer[id], id))
    BY <1>1, <1>2, <1>5, ClaimingKeepsInv
<1> QED
    BY <1>1, <1>3, <1>4, <1>5 DEF TrackAppears

\* A callback links what its builder says, at its own pad.
LEMMA LinkingKeepsInv ==
    ASSUME kind = "session", SessionInv, NEW id \in Ids, LinkStep(id)
    PROVE  SessionInv'
<1> DEFINE
    todo == pads[id].todo
    at == IF Tail(todo) = << >> THEN "linked" ELSE "linking"
    plan == TrackLinks(cfg, offer[id], id)
<1>1. /\ stage = "playing" /\ pads[id].at = "linking" /\ links' = links \cup Head(todo)
      /\ Becomes(id, at, Tail(todo))
      /\ UNCHANGED <<kind, cfg, offer, stage, work, claimed>>
    BY DEF LinkStep, given
<1>2. /\ todo \in Builders(id) /\ todo # << >> /\ LinksAt(id) \cup Built(todo) = plan
      /\ Verdict(cfg, offer[id]) = "link"
    BY <1>1 DEF SessionInv, PadsOK, LinkedAsPlanned, JudgedByVerdict
<1>3. Head(todo) \in SUBSET LinksOf(id) /\ Tail(todo) \in Builders(id)
    BY <1>2 DEF Builders
<1>4. Built(todo) = Head(todo) \cup Built(Tail(todo))
    BY <1>2, BuiltByHead DEF Builders
<1>5. /\ PadsOK' /\ pads'[id].at = at /\ pads'[id].todo = Tail(todo)
      /\ \A other \in Ids : other # id => pads'[other] = pads[other]
    <2>1. at \in Places
        BY DEF Places
    <2> HIDE DEF at
    <2> QED
        BY <1>1, <1>3, <2>1, BecomesOnly DEF SessionInv
<1>6. /\ LinksAt(id)' = LinksAt(id) \cup Head(todo)
      /\ \A other : other # id => LinksAt(other)' = LinksAt(other)
    BY <1>1, <1>3, LinksGrow
<1>7. SessionTypeOK'
    BY <1>1 DEF SessionInv, SessionTypeOK
<1>8. id \in DOMAIN offer /\ OnlyWhilePlaying'
    BY <1>1, <1>5 DEF SessionInv, OnlyWhilePlaying
<1>9. Owners' = Owners
    <2>1. DOMAIN offer \subseteq Ids
        BY OfferedIsPad DEF SessionInv
    <2> QED
        BY <1>1, <1>5, <1>8, <2>1 DEF Owners, Owning
<1>10. SlotsAreOwned'
    BY <1>1, <1>9 DEF SessionInv, SlotsAreOwned
<1>11. LinkedAsPlanned(id)' /\ JudgedByVerdict(id)'
    <2>1. CASE Tail(todo) = << >>
        <3>1. Built(Tail(todo)) = {}
            BY <2>1, NoStep
        <3>2. LinksAt(id)' = plan
            BY <1>2, <1>4, <1>6, <3>1
        <3> QED
            BY <1>1, <1>2, <1>5, <2>1, <3>2 DEF LinkedAsPlanned, JudgedByVerdict
    <2>2. CASE Tail(todo) # << >>
        <3>1. LinksAt(id)' \cup Built(Tail(todo)) = plan
            BY <1>2, <1>4, <1>6
        <3> QED
            BY <1>1, <1>2, <1>5, <2>2, <3>1 DEF LinkedAsPlanned, JudgedByVerdict
    <2> QED
        BY <2>1, <2>2
<1>12. ASSUME NEW other \in Ids
       PROVE  LinkedAsPlanned(other)' /\ JudgedByVerdict(other)'
    <2>1. CASE other = id
        BY <1>11, <2>1
    <2>2. CASE other # id
        BY <1>1, <1>5, <1>6, <2>2 DEF SessionInv, LinkedAsPlanned, JudgedByVerdict
    <2> QED
        BY <2>1, <2>2
<1> QED
    BY <1>5, <1>7, <1>8, <1>10, <1>12 DEF SessionInv

\* A callback that fails leaves what it has linked, and keeps its slot.
LEMMA BreakingKeepsInv ==
    ASSUME kind = "session", SessionInv, NEW id \in Ids, LinkFails(id)
    PROVE  SessionInv'
<1>1. /\ stage = "playing" /\ pads[id].at = "linking" /\ Becomes(id, "broken", << >>)
      /\ UNCHANGED <<kind, cfg, offer, stage, work, claimed, links>>
    BY DEF LinkFails, given
<1>2. "broken" \in Places /\ << >> \in Builders(id)
    BY NoStep DEF Places
<1>3. /\ PadsOK' /\ pads'[id].at = "broken"
      /\ \A other \in Ids : other # id => pads'[other] = pads[other]
    BY <1>1, <1>2, BecomesOnly DEF SessionInv
<1>4. SessionTypeOK'
    BY <1>1 DEF SessionInv, SessionTypeOK
<1>5. id \in DOMAIN offer /\ OnlyWhilePlaying'
    BY <1>1, <1>3 DEF SessionInv, OnlyWhilePlaying
<1>6. Owners' = Owners
    <2>1. DOMAIN offer \subseteq Ids
        BY OfferedIsPad DEF SessionInv
    <2> QED
        BY <1>1, <1>3, <1>5, <2>1 DEF Owners, Owning
<1>7. SlotsAreOwned'
    BY <1>1, <1>6 DEF SessionInv, SlotsAreOwned
<1>8. ASSUME NEW other \in Ids
      PROVE  LinkedAsPlanned(other)' /\ JudgedByVerdict(other)'
    <2>1. LinksAt(other)' = LinksAt(other)
        BY <1>1 DEF LinksAt
    <2>2. CASE other = id
        BY <1>1, <1>3, <2>1, <2>2 DEF SessionInv, LinkedAsPlanned, JudgedByVerdict
    <2>3. CASE other # id
        BY <1>1, <1>3, <2>1, <2>3 DEF SessionInv, LinkedAsPlanned, JudgedByVerdict
    <2> QED
        BY <2>2, <2>3
<1> QED
    BY <1>3, <1>4, <1>5, <1>7, <1>8 DEF SessionInv

\* Nothing is left of a session that is torn down.
LEMMA StoppingKeepsInv ==
    ASSUME kind = "session", SessionInv, TearDown
    PROVE  SessionInv'
<1>1. /\ stage' = "down" /\ links' = {} /\ pads' = [id \in Ids |-> NoPad]
      /\ UNCHANGED <<kind, cfg, offer, work, claimed>>
    BY DEF TearDown, given
<1>2. \A id \in Ids : pads'[id] = NoPad
    BY <1>1
<1>3. \A id \in Ids : pads'[id].at = "absent"
    BY <1>2 DEF NoPad
<1>4. SessionTypeOK'
    BY <1>1 DEF SessionInv, SessionTypeOK
<1>5. PadsOK'
    <2>1. \A id \in Ids : NoPad \in [at : Places, todo : Builders(id), notified : {FALSE}]
        BY NoStep DEF NoPad, Places
    <2> QED
        BY <1>1, <1>2, <2>1 DEF PadsOK
<1>6. Owners' = {}
    BY <1>3, <1>4, OfferedIsPad DEF Owners, Owning, SessionTypeOK, Ids, Pads
<1>7. OnlyWhilePlaying' /\ SlotsAreOwned'
    BY <1>1, <1>3, <1>6 DEF OnlyWhilePlaying, SlotsAreOwned
<1>8. \A id \in Ids : LinkedAsPlanned(id)' /\ JudgedByVerdict(id)'
    BY <1>1, <1>3 DEF LinkedAsPlanned, JudgedByVerdict, LinksAt
<1> QED
    BY <1>4, <1>5, <1>7, <1>8 DEF SessionInv

\* Whatever does not touch what the invariant reads.
LEMMA IdleKeepsInv ==
    ASSUME SessionInv, UNCHANGED core
    PROVE  SessionInv'
<1>1. UNCHANGED <<kind, cfg, offer, stage, work, pads, claimed, links>>
    BY DEF core
<1>2. SessionTypeOK' /\ PadsOK' /\ OnlyWhilePlaying'
    BY <1>1 DEF SessionInv, SessionTypeOK, PadsOK, OnlyWhilePlaying
<1>3. SlotsAreOwned'
    BY <1>1 DEF SessionInv, SlotsAreOwned, Owners
<1>4. ASSUME NEW id \in Ids
      PROVE  LinkedAsPlanned(id)' /\ JudgedByVerdict(id)'
    BY <1>1 DEF SessionInv, LinkedAsPlanned, JudgedByVerdict, LinksAt
<1> QED
    BY <1>2, <1>3, <1>4 DEF SessionInv

\* No step of a session spoils its invariant.
LEMMA SessionKeepsInv ==
    Inv /\ [Next]_vars => Inv'
<1> SUFFICES ASSUME Inv, [Next]_vars, kind' = "session"
             PROVE  SessionInv'
    BY DEF Inv
<1>1. kind = "session" /\ SessionInv
    <2>1. kind' = kind
        BY DEF Next, vars, given, BuildStep, Play, StartFails, PadAdded, CapsNotified, LinkStep, LinkFails,
               Arrive, LaneMoves, Take, Deliver, Stall, StopNow, StopReceiving, EosArrives, EosTimesOut,
               TearDown, PushEos
    <2> QED
        BY <2>1 DEF Inv
<1>2. stage # "stopping" /\ \A id \in Ids : ~pads[id].notified
    BY <1>1 DEF SessionInv, SessionTypeOK, PadsOK
<1>3. CASE BuildStep \/ Play \/ StartFails
    BY <1>1, <1>3, BuildingKeepsInv
<1>4. ASSUME NEW id \in Ids, PadAdded(id)
      PROVE  SessionInv'
    BY <1>1, <1>4, PadAddedKeepsInv
<1>5. ASSUME NEW id \in Ids, CapsNotified(id)
      PROVE  SessionInv'
    BY <1>2, <1>5 DEF CapsNotified
<1>6. ASSUME NEW id \in Ids, LinkStep(id)
      PROVE  SessionInv'
    BY <1>1, <1>6, LinkingKeepsInv
<1>7. ASSUME NEW id \in Ids, LinkFails(id)
      PROVE  SessionInv'
    BY <1>1, <1>7, BreakingKeepsInv
<1>8. ASSUME NEW id \in Ids, Arrive(id) \/ LaneMoves(id)
      PROVE  SessionInv'
    BY <1>1, <1>8, IdleKeepsInv DEF Arrive, LaneMoves, Take, Deliver, core, given
<1>9. CASE Stall
    BY <1>1, <1>9, IdleKeepsInv DEF Stall, core, given
<1>10. CASE StopNow
    BY <1>1, <1>10, StoppingKeepsInv DEF StopNow
<1>11. CASE StopReceiving \/ EosArrives \/ EosTimesOut \/ \E lane \in Lanes : PushEos(lane)
    BY <1>1, <1>2, <1>11 DEF StopReceiving, EosArrives, EosTimesOut, AllPushed, PushEos
<1>12. CASE UNCHANGED vars
    BY <1>1, <1>12, IdleKeepsInv DEF vars, core
<1> QED
    BY <1>3, <1>4, <1>5, <1>6, <1>7, <1>8, <1>9, <1>10, <1>11, <1>12 DEF Next

\* The slots of a session and the links at its pads, however the callbacks
\* of its pads cross and wherever they fail (track.rs:128-218, 480-500).
THEOREM SessionInvariant ==
    Spec => []Inv
<1> QED
    BY SessionInitially, SessionKeepsInv, PTL DEF Spec

\* Only the owner of its slot has links.
LEMMA LinkedIsOwner ==
    ASSUME SessionInv, NEW id \in DOMAIN offer, IsLinked(id)
    PROVE  id \in Owners
<1>1. id \in Ids
    BY OfferedIsPad DEF SessionInv
<1>2. PICK l \in links : l[1] = Source(id)
    BY DEF IsLinked, Successors
<1>3. LinksAt(id) # {}
    BY <1>2 DEF LinksAt, Source, Node
<1>4. pads[id].at \notin {"absent", "refused", "ignored"}
    BY <1>1, <1>3 DEF SessionInv, LinkedAsPlanned
<1>5. pads[id].at \in Places
    BY <1>1 DEF SessionInv, PadsOK
<1> QED
    BY <1>4, <1>5 DEF Owners, Owning, Places

\* However the callbacks of a session cross, one track of each kind at most
\* is linked (track.rs:128-149).
THEOREM KindsHaveOneTrack ==
    Spec => []OneTrackPerKind
<1>1. Inv => OneTrackPerKind
    BY LinkedIsOwner, ShownOfSession DEF Inv, SessionInv, SlotsAreOwned, OneTrackPerKind
<1> QED
    BY SessionInvariant, <1>1, PTL

-----------------------------------------------------------------------------
(* Part 3.  A track that is linked reaches every consumer. *)

\* One hop of a buffer: it rests where it has come to, or goes on.
Through(net, nodes) ==
    { m \in nodes : IsRest(m) } \cup Successors(net, { m \in nodes : ~IsRest(m) })

\* Ends takes two hops after the first.
LEMMA EndsByHops ==
    ASSUME NEW net, NEW n
    PROVE  Ends(net, n) = { m \in Through(net, Through(net, Successors(net, {n}))) : IsRest(m) }
BY DEF Ends, Through

\* The buffers of a lane stay in it: the links of other lanes do not matter.
LEMMA LaneIsClosed ==
    ASSUME NEW id, LinksAt(id) \in SUBSET LinksOf(id), NEW S \in SUBSET NodesOf(id)
    PROVE  /\ Successors(links, S) = Successors(LinksAt(id), S)
           /\ Successors(LinksAt(id), S) \in SUBSET NodesOf(id)
<1>1. \A n \in S : n.lane = id
    BY DEF NodesOf
<1>2. Successors(links, S) = Successors(LinksAt(id), S)
    BY <1>1 DEF Successors, LinksAt
<1>3. \A l \in LinksAt(id) : l[2] \in NodesOf(id)
    BY DEF LinksOf
<1>4. Successors(LinksAt(id), S) \in SUBSET NodesOf(id)
    BY <1>3 DEF Successors
<1> QED
    BY <1>2, <1>4

\* Where the buffers of a lane end is in the lane, and told by its links.
LEMMA EndsInLane ==
    ASSUME NEW id, LinksAt(id) \in SUBSET LinksOf(id), NEW n \in NodesOf(id)
    PROVE  Ends(links, n) = Ends(LinksAt(id), n) /\ Ends(links, n) \in SUBSET NodesOf(id)
<1> DEFINE mine == LinksAt(id)
<1>1. ASSUME NEW S \in SUBSET NodesOf(id)
      PROVE  Through(links, S) = Through(mine, S) /\ Through(mine, S) \in SUBSET NodesOf(id)
    <2>1. { m \in S : ~IsRest(m) } \in SUBSET NodesOf(id)
        OBVIOUS
    <2>2. { m \in S : IsRest(m) } \in SUBSET NodesOf(id)
        OBVIOUS
    <2> QED
        BY <2>1, <2>2, LaneIsClosed DEF Through
<1>2. /\ Successors(links, {n}) = Successors(mine, {n})
      /\ Successors(mine, {n}) \in SUBSET NodesOf(id)
    BY LaneIsClosed
<1> HIDE DEF mine
<1>3. /\ Through(links, Successors(links, {n})) = Through(mine, Successors(mine, {n}))
      /\ Through(mine, Successors(mine, {n})) \in SUBSET NodesOf(id)
    BY <1>1, <1>2
<1>4. /\ Through(links, Through(links, Successors(links, {n})))
            = Through(mine, Through(mine, Successors(mine, {n})))
      /\ Through(mine, Through(mine, Successors(mine, {n}))) \in SUBSET NodesOf(id)
    BY <1>1, <1>3
<1> QED
    BY <1>4, EndsByHops DEF mine

\* Where the buffers of a track end, as Outlets has it, over its own links.
Reached(net, id) ==
    LET first == Ends(net, Source(id))
    IN { n \in first \cup UNION { Ends(net, q) : q \in first } : n.kind = "outlet" }

\* What tells the nodes of a lane apart.
LEMMA NodesDiffer ==
    ASSUME NEW id, NEW use
    PROVE  /\ Source(id).kind = "source" /\ DepayHead(id).kind = "filter" /\ Tee(id).kind = "tee"
           /\ Outlet(id, use).kind = "outlet" /\ Outlet(id, use).use = use
           /\ Queue(id, use).kind = "queue" /\ Queue(id, use).use = use
           /\ LeakyQueue(id, use).kind = "leaky" /\ LeakyQueue(id, use).use = use
BY DEF Node, Source, DepayHead, Tee, Outlet, Queue, LeakyQueue

\* Buffers that meet only nodes where they rest are where they end.
LEMMA RestIsEnd ==
    ASSUME NEW net, NEW n, NEW S, \A m \in S : IsRest(m),
           \/ Successors(net, {n}) = S
           \/ Through(net, Successors(net, {n})) = S
           \/ Through(net, Through(net, Successors(net, {n}))) = S
    PROVE  Ends(net, n) = S
<1>1. Through(net, S) = S
    <2>1. { m \in S : IsRest(m) } = S /\ { m \in S : ~IsRest(m) } = {}
        OBVIOUS
    <2>2. Successors(net, {}) = {}
        BY DEF Successors
    <2> QED
        BY <2>1, <2>2 DEF Through
<1>2. { m \in S : IsRest(m) } = S
    OBVIOUS
<1> QED
    BY <1>1, <1>2, EndsByHops

\* A node that is none of those where buffers rest passes them on.
LEMMA PassesOn ==
    ASSUME NEW net, NEW m, ~IsRest(m)
    PROVE  Through(net, {m}) = Successors(net, {m})
<1>1. { x \in {m} : IsRest(x) } = {} /\ { x \in {m} : ~IsRest(x) } = {m}
    OBVIOUS
<1> QED
    BY <1>1 DEF Through

\* The successors of a node, read off the links.
LEMMA SuccessorsOfNode ==
    ASSUME NEW id, NEW net \in SUBSET LinksOf(id), NEW n
    PROVE  Successors(net, {n}) = { m \in NodesOf(id) : <<n, m>> \in net }
<1>1. \A l \in net : l = <<l[1], l[2]>> /\ l[2] \in NodesOf(id)
    BY DEF LinksOf
<1>2. ASSUME NEW m \in Successors(net, {n})
      PROVE  m \in NodesOf(id) /\ <<n, m>> \in net
    <2>1. PICK l \in net : l[1] = n /\ l[2] = m
        BY DEF Successors
    <2> QED
        BY <1>1, <2>1
<1>3. ASSUME NEW m \in NodesOf(id), <<n, m>> \in net
      PROVE  m \in Successors(net, {n})
    <2>1. <<n, m>> \in net /\ <<n, m>>[1] = n /\ <<n, m>>[2] = m
        BY <1>3
    <2> QED
        BY <2>1 DEF Successors
<1> QED
    BY <1>2, <1>3

\* A picture linked as planned reaches the browser and the tap, if there are such.
LEMMA VideoReaches ==
    ASSUME NEW c, NEW id, VideoConsumed(c)
    PROVE  Reached(VideoLinks(c, id), id) =
             (IF c.webrtc THEN {Outlet(id, "webrtc")} ELSE {})
                \cup (IF c.tap THEN {Outlet(id, "tap")} ELSE {})
<1> DEFINE
    src == Source(id)
    depay == DepayHead(id)
    tee == Tee(id)
    web == Outlet(id, "webrtc")
    leaky == LeakyQueue(id, "tap")
    tap == Outlet(id, "tap")
    net == VideoLinks(c, id)
<1>1. /\ src.kind = "source" /\ depay.kind = "filter" /\ tee.kind = "tee"
      /\ web.kind = "outlet" /\ leaky.kind = "leaky" /\ tap.kind = "outlet"
      /\ web.use = "webrtc" /\ tap.use = "tap"
    BY NodesDiffer
<1>2. net = {<<src, depay>>}
              \cup IF c.tap THEN {<<depay, tee>>, <<tee, leaky>>, <<leaky, tap>>}
                                   \cup (IF c.webrtc THEN {<<tee, web>>} ELSE {})
                            ELSE {<<depay, web>>}
    BY DEF VideoLinks
<1>3. Reached(net, id) =
        { n \in Ends(net, src) \cup UNION { Ends(net, q) : q \in Ends(net, src) } : n.kind = "outlet" }
    BY DEF Reached
<1>4. net \in SUBSET LinksOf(id)
    BY VideoBuilt, BuiltInLane
<1>5. /\ src \in NodesOf(id) /\ depay \in NodesOf(id) /\ tee \in NodesOf(id)
      /\ web \in NodesOf(id) /\ leaky \in NodesOf(id) /\ tap \in NodesOf(id)
    BY NodesInLane DEF Uses
<1>6. \A n : Successors(net, {n}) = { m \in NodesOf(id) : <<n, m>> \in net }
    BY <1>4, SuccessorsOfNode
<1> HIDE DEF src, depay, tee, web, leaky, tap, net
<1>7. ~IsRest(depay) /\ ~IsRest(tee) /\ IsRest(web) /\ IsRest(leaky) /\ IsRest(tap)
    BY <1>1 DEF IsRest, IsQueue
<1>8. Successors(net, {src}) = {depay}
    <2>1. \A m \in NodesOf(id) : <<src, m>> \in net <=> m \in {depay}
        BY <1>1, <1>2
    <2>2. { m \in NodesOf(id) : <<src, m>> \in net } = {depay}
        BY <1>5, <2>1
    <2> QED
        BY <1>6, <2>2
<1>9. Ends(net, web) = {}
    <2>1. Successors(net, {web}) = {}
        <3>1. \A m \in NodesOf(id) : <<web, m>> \in net <=> m \in {}
            BY <1>1, <1>2
        <3> QED
            BY <1>5, <1>6, <3>1
    <2> QED
        BY <2>1, RestIsEnd
<1>10. CASE c.tap
    <2> DEFINE behind == {leaky} \cup (IF c.webrtc THEN {web} ELSE {})
    <2>1. Successors(net, {depay}) = {tee} /\ Successors(net, {leaky}) = {tap}
        <3>1. \A m \in NodesOf(id) : <<depay, m>> \in net <=> m \in {tee}
            BY <1>1, <1>2, <1>10
        <3>2. \A m \in NodesOf(id) : <<leaky, m>> \in net <=> m \in {tap}
            BY <1>1, <1>2, <1>10
        <3>3. { m \in NodesOf(id) : <<depay, m>> \in net } = {tee}
            BY <1>5, <3>1
        <3>4. { m \in NodesOf(id) : <<leaky, m>> \in net } = {tap}
            BY <1>5, <3>2
        <3>5. Successors(net, {depay}) = {tee}
            BY <1>6, <3>3
        <3>6. Successors(net, {leaky}) = {tap}
            BY <1>6, <3>4
        <3> QED
            BY <3>5, <3>6
    <2>2. Successors(net, {tee}) = behind
        <3>1. \A m \in NodesOf(id) : <<tee, m>> \in net <=> m \in behind
            BY <1>1, <1>2, <1>10
        <3>2. behind \in SUBSET NodesOf(id)
            BY <1>5
        <3> HIDE DEF behind
        <3>3. { m \in NodesOf(id) : <<tee, m>> \in net } = behind
            BY <3>1, <3>2
        <3> QED
            BY <1>6, <3>3
    <2>3. \A m \in behind : IsRest(m)
        BY <1>7
    <2> HIDE DEF behind
    <2>4. Ends(net, src) = behind
        <3>1. Through(net, Through(net, Successors(net, {src}))) = behind
            <4>1. Through(net, {depay}) = {tee} /\ Through(net, {tee}) = behind
                BY <1>7, <2>1, <2>2, PassesOn
            <4> QED
                BY <1>8, <4>1
        <3> QED
            BY <2>3, <3>1, RestIsEnd
    <2>5. Ends(net, leaky) = {tap}
        BY <1>7, <2>1, RestIsEnd
    <2>6. UNION { Ends(net, q) : q \in behind } = {tap}
        BY <1>9, <2>5 DEF behind
    <2>7. Reached(net, id) = {tap} \cup (IF c.webrtc THEN {web} ELSE {})
        BY <1>1, <1>3, <2>4, <2>6 DEF behind
    <2> QED
        BY <1>10, <2>7 DEF net, web, tap
<1>11. CASE ~c.tap
    <2>1. c.webrtc
        BY <1>11 DEF VideoConsumed
    <2>2. Successors(net, {depay}) = {web}
        <3>1. \A m \in NodesOf(id) : <<depay, m>> \in net <=> m \in {web}
            BY <1>1, <1>2, <1>11, <2>1
        <3>2. { m \in NodesOf(id) : <<depay, m>> \in net } = {web}
            BY <1>5, <3>1
        <3> QED
            BY <1>6, <3>2
    <2>3. Ends(net, src) = {web}
        <3>1. Through(net, Successors(net, {src})) = {web}
            BY <1>7, <1>8, <2>2, PassesOn
        <3> QED
            BY <1>7, <3>1, RestIsEnd
    <2>4. Reached(net, id) = {web}
        BY <1>1, <1>3, <1>9, <2>3
    <2> QED
        BY <1>11, <2>1, <2>4 DEF net, web
<1> QED
    BY <1>10, <1>11

\* Sound linked as planned reaches the browser, the speaker and the tap.
LEMMA AudioReaches ==
    ASSUME NEW c, NEW id
    PROVE  Reached(AudioLinks(c, id), id) =
             (IF c.webrtc THEN {Outlet(id, "webrtc")} ELSE {})
                \cup (IF c.alsa THEN {Outlet(id, "speaker")} ELSE {})
                \cup (IF c.audioTap THEN {Outlet(id, "tap")} ELSE {})
<1> DEFINE
    src == Source(id)
    tee == Tee(id)
    webQ == Queue(id, "webrtc")
    alsaQ == Queue(id, "speaker")
    tapQ == LeakyQueue(id, "tap")
    web == Outlet(id, "webrtc")
    alsa == Outlet(id, "speaker")
    tap == Outlet(id, "tap")
    net == AudioLinks(c, id)
    queues == (IF c.webrtc THEN {webQ} ELSE {}) \cup (IF c.alsa THEN {alsaQ} ELSE {})
                 \cup (IF c.audioTap THEN {tapQ} ELSE {})
    outs == (IF c.webrtc THEN {web} ELSE {}) \cup (IF c.alsa THEN {alsa} ELSE {})
                 \cup (IF c.audioTap THEN {tap} ELSE {})
<1>1. /\ src.kind = "source" /\ tee.kind = "tee"
      /\ webQ.kind = "queue" /\ alsaQ.kind = "queue" /\ tapQ.kind = "leaky"
      /\ webQ.use = "webrtc" /\ alsaQ.use = "speaker"
      /\ web.kind = "outlet" /\ alsa.kind = "outlet" /\ tap.kind = "outlet"
    BY NodesDiffer
<1>2. net = {<<src, tee>>} \cup (IF c.webrtc THEN {<<webQ, web>>, <<tee, webQ>>} ELSE {})
                           \cup (IF c.alsa THEN {<<alsaQ, alsa>>, <<tee, alsaQ>>} ELSE {})
                           \cup (IF c.audioTap THEN {<<tapQ, tap>>, <<tee, tapQ>>} ELSE {})
    BY DEF AudioLinks, Branch
<1>3. Reached(net, id) =
        { n \in Ends(net, src) \cup UNION { Ends(net, q) : q \in Ends(net, src) } : n.kind = "outlet" }
    BY DEF Reached
<1>4. /\ src \in NodesOf(id) /\ tee \in NodesOf(id)
      /\ webQ \in NodesOf(id) /\ alsaQ \in NodesOf(id) /\ tapQ \in NodesOf(id)
      /\ web \in NodesOf(id) /\ alsa \in NodesOf(id) /\ tap \in NodesOf(id)
    BY NodesInLane DEF Uses
<1>5. \A n : Successors(net, {n}) = { m \in NodesOf(id) : <<n, m>> \in net }
    <2>1. net \in SUBSET LinksOf(id)
        BY AudioBuilt, BuiltInLane
    <2> QED
        BY <2>1, SuccessorsOfNode
<1> HIDE DEF src, tee, webQ, alsaQ, tapQ, web, alsa, tap, net
<1>6. ~IsRest(tee) /\ \A m \in {webQ, alsaQ, tapQ, web, alsa, tap} : IsRest(m)
    BY <1>1 DEF IsRest, IsQueue
<1>7. Successors(net, {src}) = {tee}
    <2>1. \A m \in NodesOf(id) : <<src, m>> \in net <=> m \in {tee}
        BY <1>1, <1>2
    <2>2. { m \in NodesOf(id) : <<src, m>> \in net } = {tee}
        BY <1>4, <2>1
    <2> QED
        BY <1>5, <2>2
<1>8. Successors(net, {tee}) = queues
    <2>1. \A m \in NodesOf(id) : <<tee, m>> \in net <=> m \in queues
        BY <1>1, <1>2
    <2>2. queues \in SUBSET NodesOf(id)
        BY <1>4
    <2> HIDE DEF queues
    <2>3. { m \in NodesOf(id) : <<tee, m>> \in net } = queues
        BY <2>1, <2>2
    <2> QED
        BY <1>5, <2>3
<1>9. Ends(net, src) = queues
    <2>1. \A m \in queues : IsRest(m)
        BY <1>6
    <2> HIDE DEF queues
    <2>2. Through(net, {tee}) = queues
        BY <1>6, <1>8, PassesOn
    <2> QED
        BY <1>7, <2>1, <2>2, RestIsEnd
<1>10. ASSUME NEW q \in NodesOf(id), NEW o \in {web, alsa, tap},
              \A m \in NodesOf(id) : <<q, m>> \in net <=> m = o
       PROVE  Ends(net, q) = {o}
    <2>1. { m \in NodesOf(id) : <<q, m>> \in net } = {o}
        BY <1>4, <1>10
    <2>2. Successors(net, {q}) = {o}
        BY <1>5, <2>1
    <2>3. \A m \in {o} : IsRest(m)
        BY <1>6
    <2> QED
        BY <2>2, <2>3, RestIsEnd
<1>11. c.webrtc => Ends(net, webQ) = {web}
    <2> SUFFICES ASSUME c.webrtc PROVE Ends(net, webQ) = {web}
        OBVIOUS
    <2>1. \A m \in NodesOf(id) : <<webQ, m>> \in net <=> m = web
        BY <1>1, <1>2
    <2> QED
        BY <1>4, <1>10, <2>1
<1>12. c.alsa => Ends(net, alsaQ) = {alsa}
    <2> SUFFICES ASSUME c.alsa PROVE Ends(net, alsaQ) = {alsa}
        OBVIOUS
    <2>1. \A m \in NodesOf(id) : <<alsaQ, m>> \in net <=> m = alsa
        BY <1>1, <1>2
    <2> QED
        BY <1>4, <1>10, <2>1
<1>13. c.audioTap => Ends(net, tapQ) = {tap}
    <2> SUFFICES ASSUME c.audioTap PROVE Ends(net, tapQ) = {tap}
        OBVIOUS
    <2>1. \A m \in NodesOf(id) : <<tapQ, m>> \in net <=> m = tap
        BY <1>1, <1>2
    <2> QED
        BY <1>4, <1>10, <2>1
<1>14. UNION { Ends(net, q) : q \in queues } = outs
    BY <1>11, <1>12, <1>13
<1>15. \A n \in queues : n.kind # "outlet"
    BY <1>1
<1>16. \A n \in outs : n.kind = "outlet"
    BY <1>1
<1>17. Reached(net, id) = outs
    <2> HIDE DEF queues, outs
    <2> QED
        BY <1>3, <1>9, <1>14, <1>15, <1>16
<1> QED
    BY <1>17 DEF net, web, alsa, tap

\* What the verdict on a pad says of it.
LEMMA VerdictMeans ==
    ASSUME NEW c, NEW pad
    PROVE  /\ Verdict(c, pad) = "link" =>
                \/ pad.media = "video" /\ VideoConsumed(c)
                \/ pad.media = "audio" /\ AudioConsumed(c)
           /\ Verdict(c, pad) = "ignore" => pad.media = "audio" /\ ~AudioConsumed(c)
BY DEF Verdict

\* A track that is linked reaches every consumer there is.
LEMMA LinkedReachesAll ==
    ASSUME NEW id, LinksAt(id) = TrackLinks(cfg, offer[id], id), Verdict(cfg, offer[id]) = "link"
    PROVE  Outlets(id) = Consumers(id)
<1>1. LinksAt(id) \in SUBSET LinksOf(id)
    BY TrackBuilt, BuiltInLane
<1>2. \A n \in NodesOf(id) : Ends(links, n) = Ends(LinksAt(id), n)
    BY <1>1, EndsInLane
<1>3. Ends(links, Source(id)) = Ends(LinksAt(id), Source(id))
    BY <1>2, NodesInLane DEF Uses
<1>4. Ends(links, Source(id)) \in SUBSET NodesOf(id)
    <2>1. Source(id) \in NodesOf(id)
        BY NodesInLane DEF Uses
    <2> QED
        BY <1>1, <2>1, EndsInLane
<1>5. Outlets(id) = Reached(LinksAt(id), id)
    <2> DEFINE first == Ends(links, Source(id))
    <2>1. { Ends(links, q) : q \in first } = { Ends(LinksAt(id), q) : q \in first }
        BY <1>2, <1>4
    <2> QED
        BY <1>3, <2>1 DEF Outlets, Reached
<1>6. CASE offer[id].media = "video"
    <2>1. VideoConsumed(cfg)
        BY <1>6, VerdictMeans
    <2>2. LinksAt(id) = VideoLinks(cfg, id)
        BY <1>6 DEF TrackLinks
    <2> QED
        BY <1>5, <1>6, <2>1, <2>2, VideoReaches DEF Consumers
<1>7. CASE offer[id].media # "video"
    <2>1. LinksAt(id) = AudioLinks(cfg, id)
        BY <1>7 DEF TrackLinks
    <2> QED
        BY <1>5, <1>7, <2>1, AudioReaches DEF Consumers
<1> QED
    BY <1>6, <1>7

\* When the callbacks of all pads of a kind have returned and none of them
\* failed halfway, a camera that offers a usable track of the kind reaches
\* every consumer with one: the slot is never taken by a track that cannot be
\* linked (track.rs:211-212, 487-493).
THEOREM UsableTracksPlay ==
    Spec => []UsableTrackPlays
<1>1. ASSUME Inv, kind = "session", stage = "playing", NEW media \in {"video", "audio"},
             NEW p \in Shown, offer[p].media = media, Verdict(cfg, offer[p]) = "link",
             \A q \in { r \in Shown : offer[r].media = media } :
                pads[q].at \in {"linked", "refused", "ignored"}
      PROVE  \E q \in { r \in Shown : offer[r].media = media } :
                pads[q].at = "linked" /\ Outlets(q) = Consumers(q)
    <2>1. SessionInv /\ Shown = DOMAIN offer /\ DOMAIN offer \subseteq Ids
        BY <1>1, ShownOfSession, OfferedIsPad DEF Inv, SessionInv
    <2>2. PICK q \in DOMAIN offer : offer[q].media = media /\ pads[q].at \in {"linked", "ignored"}
        <3>1. pads[p].at \in {"linked", "refused", "ignored"}
            BY <1>1
        <3>2. CASE pads[p].at # "refused"
            BY <1>1, <2>1, <3>1, <3>2
        <3>3. CASE pads[p].at = "refused"
            <4>1. media \in claimed
                BY <1>1, <2>1, <3>3 DEF SessionInv, JudgedByVerdict
            <4>2. PICK q \in Owners : offer[q].media = media
                BY <1>1, <2>1, <4>1 DEF SessionInv, SlotsAreOwned
            <4>3. q \in DOMAIN offer /\ pads[q].at \in Owning
                BY DEF Owners
            <4>4. pads[q].at \in {"linked", "refused", "ignored"}
                BY <1>1, <2>1, <4>2, <4>3
            <4> QED
                BY <4>2, <4>3, <4>4 DEF Owning
        <3> QED
            BY <3>2, <3>3
    <2>3. LinkedAsPlanned(q) /\ JudgedByVerdict(q)
        BY <2>1 DEF SessionInv
    <2>4. pads[q].at = "linked"
        <3>1. SUFFICES ASSUME pads[q].at = "ignored"
                       PROVE  FALSE
            BY <2>2
        <3>2. offer[q].media = "audio" /\ ~AudioConsumed(cfg)
            BY <2>3, <3>1, VerdictMeans DEF JudgedByVerdict
        <3> QED
            BY <1>1, <2>2, <3>2, VerdictMeans
    <2>5. Outlets(q) = Consumers(q)
        BY <2>3, <2>4, LinkedReachesAll DEF LinkedAsPlanned, JudgedByVerdict
    <2> QED
        BY <2>1, <2>2, <2>4, <2>5
<1>2. Inv => UsableTrackPlays
    BY <1>1 DEF UsableTrackPlays
<1> QED
    BY SessionInvariant, <1>2, PTL
=============================================================================
