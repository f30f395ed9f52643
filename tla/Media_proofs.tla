---------------------------- MODULE Media_proofs ----------------------------
(***************************************************************************)
(* Proofs about the media of a call (Media): part 1, the offers of the     *)
(* peer on their way through the dialog state loop to the task of the      *)
(* call; part 2, what the two ends make of an answer.  Part 1 needs        *)
(* nothing of how offers are read and answered.                            *)
(***************************************************************************)
EXTENDS Media, SequenceTheorems, WellFoundedInduction, TLAPS

(* An event of the dialog layer: an offer of this dialog by its number, or  *)
(* something of another dialog.                                            *)
Event == Nat \cup {Other}

MediaTypeOK ==
    /\ stage \in {"ringing", "talking", "stopping", "dropping", "over"} /\ route \in BOOLEAN
    /\ asked \in Seq(InitialOffers \cup Reoffers) /\ Len(asked) <= MaxOffers
    /\ DOMAIN reply = Numbers
    /\ queue \in Seq(Event) /\ updates \in Seq(Nat)
    /\ loop \in [at : {"idle", "sending", "waiting"}, n : Nat]
    /\ IF loop.at = "idle" THEN loop = Idle ELSE loop.n # 0
    /\ working \in Nat

Ordered(s) == \A i, j \in DOMAIN s : i < j /\ s[i] # Other /\ s[j] # Other => s[i] < s[j]

Queued == ToSet(queue) \ {Other}
Sent == ToSet(updates)

(* Offers do not overtake one another on their way to the task.            *)
OneByOne ==
    /\ Ordered(queue) /\ Ordered(updates)
    /\ \A u \in Sent : working < u
    /\ \A q \in Queued : working < q /\ loop.n < q /\ \A u \in Sent : u < q
    /\ loop.at = "sending" => working < loop.n /\ \A u \in Sent : u < loop.n

(* None of them is there before the peer has made it.                      *)
Made ==
    /\ \A n \in Queued \cup Sent \cup {working, loop.n} : n <= Len(asked)
    /\ \A n \in Numbers : n > Len(asked) => reply[n] = NoReply

(* A call that rings has applied nothing, and the offer of its INVITE does *)
(* not go through the loop.                                                *)
Rings ==
    stage = "ringing" =>
        /\ working = 0
        /\ \A n \in Numbers : ~Answered(n)
        /\ route => asked # << >> /\ 1 \notin Queued \cup Sent \cup {loop.n}

(* Once the last offer is answered with SDP it rules, and nothing older is *)
(* on its way any more.                                                    *)
OnlyLast ==
    stage = "talking" /\ Answered(Len(asked)) =>
        /\ ParseOfferAll(asked[Len(asked)]) # Invalid /\ plan = PlanOf(Len(asked))
        /\ Queued = {} /\ Sent = {} /\ working = 0 /\ loop = Idle

MediaInv == MediaTypeOK /\ OneByOne /\ Made /\ Rings /\ OnlyLast /\ RunsAsPlanned

(* Sequences of events.                                                    *)
LEMMA AppendFacts ==
  ASSUME NEW s \in Seq(Event), NEW e \in Event
  PROVE  /\ Append(s, e) \in Seq(Event) /\ ToSet(Append(s, e)) = ToSet(s) \cup {e}
         /\ Ordered(s) /\ (\A x \in ToSet(s) \ {Other} : e # Other => x < e) => Ordered(Append(s, e))
<1> DEFINE a == Append(s, e)
<1>1. a \in Seq(Event) /\ Len(a) = Len(s) + 1 /\ a[Len(s) + 1] = e
      /\ \A i \in 1..Len(s) : a[i] = s[i]
  OBVIOUS
<1>2. DOMAIN a = 1..(Len(s) + 1) /\ DOMAIN s = 1..Len(s) /\ Len(s) \in Nat
  BY <1>1
<1> HIDE DEF a
<1>3. ToSet(a) = ToSet(s) \cup {e}
  <2>1. ASSUME NEW i \in 1..(Len(s) + 1) PROVE a[i] = e \/ \E j \in 1..Len(s) : a[i] = s[j]
    BY <1>1, <1>2
  <2>2. ASSUME NEW i \in 1..Len(s) PROVE i \in 1..(Len(s) + 1) /\ a[i] = s[i]
    BY <1>1, <1>2
  <2>3. Len(s) + 1 \in 1..(Len(s) + 1)
    BY <1>2
  <2>4. ToSet(a) \subseteq ToSet(s) \cup {e}
    BY <1>2, <2>1 DEF ToSet
  <2>5. \A x \in ToSet(s) : x \in ToSet(a)
    BY <1>2, <2>2, Zenon DEF ToSet
  <2>6. e \in ToSet(a)
    BY <1>1, <1>2, <2>3, Zenon DEF ToSet
  <2> QED
    BY <2>4, <2>5, <2>6
<1>4. ASSUME Ordered(s), \A x \in ToSet(s) \ {Other} : e # Other => x < e,
             NEW i \in DOMAIN a, NEW j \in DOMAIN a, i < j, a[i] # Other, a[j] # Other
      PROVE  a[i] < a[j]
  <2>1. i \in DOMAIN s /\ (j \in DOMAIN s \/ j = Len(s) + 1)
    BY <1>2, <1>4
  <2>2. a[i] = s[i] /\ s[i] \in ToSet(s)
    BY <1>1, <1>2, <2>1 DEF ToSet
  <2>3. CASE j \in DOMAIN s
    BY <1>1, <1>2, <1>4, <2>1, <2>2, <2>3 DEF Ordered
  <2>4. CASE j = Len(s) + 1
    BY <1>1, <1>4, <2>2, <2>4
  <2> QED
    BY <2>1, <2>3, <2>4
<1>5. Ordered(s) /\ (\A x \in ToSet(s) \ {Other} : e # Other => x < e) => Ordered(a)
  BY <1>4 DEF Ordered
<1> QED
  BY <1>1, <1>3, <1>5 DEF a

\* What is left of an ordered queue comes after what was taken from it.
LEMMA TailFacts ==
  ASSUME NEW s \in Seq(Event), s # << >>
  PROVE  /\ Head(s) \in Event /\ Tail(s) \in Seq(Event) /\ ToSet(s) = {Head(s)} \cup ToSet(Tail(s))
         /\ Ordered(s) => /\ Ordered(Tail(s))
                          /\ Head(s) # Other => \A x \in ToSet(Tail(s)) \ {Other} : Head(s) < x
<1> DEFINE t == Tail(s)
<1>1. t \in Seq(Event) /\ Len(t) = Len(s) - 1 /\ Head(s) = s[1] /\ s[1] \in Event
      /\ \A i \in 1..Len(t) : t[i] = s[i + 1]
  OBVIOUS
<1>2. DOMAIN t = 1..Len(t) /\ DOMAIN s = 1..Len(s) /\ Len(s) \in Nat \ {0} /\ Len(t) \in Nat
  BY <1>1
<1> HIDE DEF t
<1>3. ToSet(s) = {s[1]} \cup ToSet(t)
  <2>1. \A i \in 1..Len(s) : i = 1 \/ (i - 1 \in 1..Len(t) /\ s[i] = t[i - 1])
    BY <1>1, <1>2
  <2>2. \A i \in 1..Len(t) : i + 1 \in 1..Len(s) /\ t[i] = s[i + 1]
    BY <1>1, <1>2
  <2>3. \A x \in ToSet(s) : x = s[1] \/ x \in ToSet(t)
    BY <1>2, <2>1 DEF ToSet
  <2>4. \A x \in ToSet(t) : x \in ToSet(s)
    BY <1>2, <2>2, Zenon DEF ToSet
  <2>5. s[1] \in ToSet(s)
    BY <1>2 DEF ToSet
  <2> QED
    BY <2>3, <2>4, <2>5
<1>4. ASSUME Ordered(s)
      PROVE  Ordered(t) /\ (s[1] # Other => \A x \in ToSet(t) \ {Other} : s[1] < x)
  <2>1. \A i \in 1..Len(t) : i + 1 \in 1..Len(s) /\ 1 \in 1..Len(s) /\ t[i] = s[i + 1] /\ 1 < i + 1
    BY <1>1, <1>2
  <2>2. ASSUME NEW i \in 1..Len(t), NEW j \in 1..Len(t), i < j, t[i] # Other, t[j] # Other
        PROVE  t[i] < t[j]
    <3>1. i + 1 \in DOMAIN s /\ j + 1 \in DOMAIN s /\ i + 1 < j + 1 /\ t[i] = s[i + 1] /\ t[j] = s[j + 1]
      BY <1>2, <2>1, <2>2
    <3> QED
      BY <1>4, <2>2, <3>1 DEF Ordered
  <2>3. ASSUME s[1] # Other, NEW i \in 1..Len(t), t[i] # Other PROVE s[1] < t[i]
    BY <1>2, <1>4, <2>1, <2>3 DEF Ordered
  <2>4. Ordered(t)
    BY <1>2, <2>2 DEF Ordered
  <2> QED
    BY <1>2, <2>3, <2>4 DEF ToSet
<1> QED
  BY <1>1, <1>3, <1>4 DEF t

\* Offers by number are events of the dialog layer.
LEMMA NumberEvents == /\ \A s \in Seq(Nat) : s \in Seq(Event)
                      /\ \A s \in Seq(Nat) : ToSet(s) \subseteq Nat
                      /\ \A s \in Seq(Event) : ToSet(s) \ {Other} \subseteq Nat
<1>1. \A s \in Seq(Nat) : ToSet(s) \subseteq Nat
  BY DEF ToSet
<1>2. \A s \in Seq(Event) : ToSet(s) \subseteq Event
  BY DEF ToSet
<1>3. \A s \in Seq(Nat) : s \in Seq(Event)
  BY DEF Event
<1> QED
  BY <1>1, <1>2, <1>3 DEF Event

\* A reply is given to one offer and no other.
LEMMA RespondFacts ==
  ASSUME MediaTypeOK, NEW n, NEW body, Respond(n, body)
  PROVE  DOMAIN reply' = Numbers /\ \A m \in Numbers : reply'[m] = IF m = n THEN body ELSE reply[m]
BY DEF MediaTypeOK, Respond

(* A bare 200 settles an offer without SDP.                                *)
LEMMA BareFacts ==
  ASSUME MediaInv, NEW n \in Nat, n <= Len(asked), Respond(n, Bare), asked' = asked
  PROVE  /\ DOMAIN reply' = Numbers /\ \A m : Answered(m)' => Answered(m)
         /\ \A m \in Numbers : m > Len(asked) => reply'[m] = NoReply
<1>1. MediaTypeOK /\ Made /\ Len(asked) \in Nat
  BY DEF MediaInv, MediaTypeOK
<1>2. DOMAIN reply' = Numbers /\ \A m \in Numbers : reply'[m] = IF m = n THEN Bare ELSE reply[m]
  BY <1>1, RespondFacts
<1>3. \A m \in Numbers : m > Len(asked) => m # n
  BY <1>1 DEF Numbers
<1> QED
  BY <1>1, <1>2, <1>3 DEF Answered, Made

\* Offers are numbered from one on.
LEMMA NumbersOf ==
  ASSUME MediaInv
  PROVE  /\ Queued \subseteq Nat /\ Sent \subseteq Nat /\ working \in Nat /\ loop.n \in Nat
         /\ Len(asked) \in Nat /\ \A n \in Queued \cup Sent : n # 0
<1>1. Queued \subseteq Nat /\ Sent \subseteq Nat /\ working \in Nat /\ loop.n \in Nat /\ Len(asked) \in Nat
  BY NumberEvents DEF MediaInv, MediaTypeOK, Queued, Sent
<1> QED
  BY <1>1 DEF MediaInv, OneByOne

(* The peer makes an offer.                                                *)
LEMMA PeerOffersStep == MediaInv /\ PeerOffers => MediaInv'
<1> SUFFICES ASSUME MediaInv, PeerOffers PROVE MediaInv'
  OBVIOUS
<1> DEFINE new == Len(asked) + 1
<1>1. PICK sdp \in Reoffers : asked' = Append(asked, sdp)
  BY DEF PeerOffers
<1>2. /\ Len(asked) < MaxOffers /\ queue' = Append(queue, Len(asked'))
      /\ stage' = stage /\ route' = route /\ reply' = reply /\ loop' = loop /\ updates' = updates
      /\ working' = working /\ plan' = plan /\ receiver' = receiver /\ sender' = sender
  BY DEF PeerOffers, pipes
<1>3. /\ asked \in Seq(InitialOffers \cup Reoffers) /\ Len(asked) \in Nat /\ MaxOffers \in Nat
      /\ queue \in Seq(Event) /\ updates \in Seq(Nat) /\ Other \notin Nat
  BY MediaAssumption DEF MediaInv, MediaTypeOK
<1>4. asked' \in Seq(InitialOffers \cup Reoffers) /\ Len(asked') = new /\ asked' # << >>
  <2>1. asked' \in Seq(InitialOffers \cup Reoffers) /\ Len(asked') = new
    BY <1>1, <1>3
  <2>2. Len(<< >>) = 0 /\ new # 0
    BY <1>3
  <2> QED
    BY <2>1, <2>2
<1>5. new \in Event /\ new # Other /\ new \in Numbers /\ new <= MaxOffers /\ new > Len(asked)
  BY <1>2, <1>3 DEF Event, Numbers
<1>6. /\ Queued \subseteq Nat /\ Sent \subseteq Nat /\ working \in Nat /\ loop.n \in Nat
      /\ \A n \in Queued \cup Sent \cup {working, loop.n} : n < new
  <2>1. /\ Queued \subseteq Nat /\ Sent \subseteq Nat /\ working \in Nat /\ loop.n \in Nat
        /\ \A n \in Queued \cup Sent \cup {working, loop.n} : n <= Len(asked)
    BY NumbersOf DEF MediaInv, Made
  <2>2. \A n \in Nat : n <= Len(asked) => n < new
    BY <1>3
  <2>3. Queued \cup Sent \cup {working, loop.n} \subseteq Nat
    BY <2>1
  <2> QED
    BY <2>1, <2>2, <2>3
<1> HIDE DEF new
<1>7. /\ queue' \in Seq(Event) /\ Ordered(queue') /\ Queued' = Queued \cup {new}
  BY <1>2, <1>3, <1>4, <1>5, <1>6, AppendFacts DEF MediaInv, OneByOne, Queued
<1>8. Sent' = Sent
  BY <1>2 DEF Sent
<1>9. \A m : Answered(m)' <=> Answered(m)
  BY <1>2 DEF Answered
<1>10. ~Answered(new)
  BY <1>5 DEF MediaInv, Made, Answered
<1>11. MediaTypeOK'
  BY <1>2, <1>3, <1>4, <1>5, <1>7 DEF MediaInv, MediaTypeOK
<1>12. OneByOne'
  BY <1>2, <1>6, <1>7, <1>8 DEF MediaInv, OneByOne
<1>13. Made'
  <2>1. \A n \in Queued' \cup Sent' \cup {working', loop'.n} : n <= new
    <3>1. new \in Nat /\ \A n \in Nat : n < new => n <= new
      BY <1>5 DEF Numbers
    <3>2. Queued' \cup Sent' \cup {working', loop'.n} = (Queued \cup Sent \cup {working, loop.n}) \cup {new}
      BY <1>2, <1>7, <1>8
    <3>3. Queued \cup Sent \cup {working, loop.n} \subseteq Nat
      BY <1>6
    <3> QED
      BY <1>6, <3>1, <3>2, <3>3
  <2>2. \A n \in Numbers : n > new => n > Len(asked)
    BY <1>3, <1>5 DEF Numbers
  <2> QED
    BY <1>2, <1>4, <2>1, <2>2 DEF MediaInv, Made
<1>14. Rings'
  <2>1. route /\ stage = "ringing" => new # 1
    <3>1. route /\ stage = "ringing" => Len(asked) # 0
      BY <1>3 DEF MediaInv, Rings
    <3> QED
      BY <1>3, <3>1 DEF new
  <2> QED
    BY <1>2, <1>4, <1>7, <1>8, <1>9, <2>1 DEF MediaInv, Rings
<1>15. OnlyLast'
  BY <1>4, <1>9, <1>10 DEF OnlyLast
<1>16. RunsAsPlanned'
  BY <1>2 DEF MediaInv, RunsAsPlanned
<1> QED
  BY <1>11, <1>12, <1>13, <1>14, <1>15, <1>16 DEF MediaInv

\* Events of another dialog are no offers.
LEMMA OtherDialogStep == MediaInv /\ OtherDialog => MediaInv'
<1> SUFFICES ASSUME MediaInv, OtherDialog PROVE MediaInv'
  OBVIOUS
<1>1. queue' = Append(queue, Other) /\ UNCHANGED <<stage, route, asked, reply, loop, updates, working,
                                                   plan, receiver, sender>>
  BY DEF OtherDialog, pipes
<1>2. queue \in Seq(Event) /\ Other \in Event
  BY DEF MediaInv, MediaTypeOK, Event
<1>3. queue' \in Seq(Event) /\ Ordered(queue') /\ Queued' = Queued
  BY <1>1, <1>2, AppendFacts DEF MediaInv, OneByOne, Queued
<1>4. Sent' = Sent /\ \A m : Answered(m)' <=> Answered(m)
  BY <1>1 DEF Sent, Answered
<1>5. MediaTypeOK'
  BY <1>1, <1>3 DEF MediaInv, MediaTypeOK
<1>6. OneByOne' /\ Made' /\ Rings'
  BY <1>1, <1>3, <1>4 DEF MediaInv, OneByOne, Made, Rings
<1>7. OnlyLast' /\ RunsAsPlanned'
  BY <1>1, <1>3, <1>4 DEF MediaInv, OnlyLast, RunsAsPlanned, PlanOf
<1> QED
  BY <1>5, <1>6, <1>7 DEF MediaInv

(* The loop takes an event.                                                *)
LEMMA LoopTakesStep == MediaInv /\ LoopTakes => MediaInv'
<1> SUFFICES ASSUME MediaInv, LoopTakes PROVE MediaInv'
  OBVIOUS
<1> DEFINE event == Head(queue)
<1>1. /\ loop = Idle /\ queue # << >> /\ queue' = Tail(queue)
      /\ stage' = stage /\ route' = route /\ asked' = asked /\ updates' = updates
      /\ working' = working /\ plan' = plan /\ receiver' = receiver /\ sender' = sender
  BY DEF LoopTakes, pipes
<1>2. \/ event = Other /\ reply' = reply /\ loop' = loop
      \/ event # Other /\ Respond(event, Bare) /\ loop' = loop
      \/ event # Other /\ loop' = [at |-> "sending", n |-> event] /\ reply' = reply
  BY DEF LoopTakes
<1>3. queue \in Seq(Event) /\ updates \in Seq(Nat)
  BY DEF MediaInv, MediaTypeOK
<1>4. /\ event \in Event /\ queue' \in Seq(Event) /\ ToSet(queue) = {event} \cup ToSet(queue')
      /\ Ordered(queue') /\ (event # Other => \A x \in Queued' : event < x)
  BY <1>1, <1>3, TailFacts DEF MediaInv, OneByOne, Queued
<1>5. Queued' \subseteq Queued /\ (event # Other => event \in Queued)
  BY <1>4 DEF Queued
<1>6. event # Other => /\ event \in Nat /\ event # 0 /\ event <= Len(asked) /\ working < event
                       /\ \A u \in Sent : u < event
  BY <1>5, NumbersOf DEF MediaInv, OneByOne, Made
<1> HIDE DEF event
<1>7. Sent' = Sent
  BY <1>1 DEF Sent
<1>8. loop' = Idle \/ (event # Other /\ loop' = [at |-> "sending", n |-> event])
  BY <1>1, <1>2
<1>9. /\ DOMAIN reply' = Numbers /\ \A m : Answered(m)' => Answered(m)
      /\ \A m \in Numbers : m > Len(asked) => reply'[m] = NoReply
  <2>1. CASE reply' = reply
    BY <2>1 DEF MediaInv, MediaTypeOK, Made, Answered
  <2>2. CASE event # Other /\ Respond(event, Bare)
    BY <1>1, <1>6, <2>2, BareFacts
  <2> QED
    BY <1>2, <2>1, <2>2
<1>10. MediaTypeOK'
  BY <1>1, <1>4, <1>6, <1>8, <1>9 DEF MediaInv, MediaTypeOK, Idle
<1>11. OneByOne'
  <2>1. CASE loop' = Idle
    BY <1>1, <1>4, <1>5, <1>7, <2>1 DEF MediaInv, OneByOne, Idle
  <2>2. CASE event # Other /\ loop' = [at |-> "sending", n |-> event]
    BY <1>1, <1>4, <1>5, <1>6, <1>7, <2>2 DEF MediaInv, OneByOne
  <2> QED
    BY <1>8, <2>1, <2>2
<1>12. Made'
  BY <1>1, <1>5, <1>6, <1>7, <1>8, <1>9 DEF MediaInv, Made, Idle
<1>13. Rings'
  BY <1>1, <1>5, <1>7, <1>8, <1>9 DEF MediaInv, Rings, Idle
<1>14. OnlyLast'
  <2>1. ASSUME stage = "talking", Answered(Len(asked)) PROVE event = Other
    BY <1>5, <2>1 DEF MediaInv, OnlyLast
  <2> QED
    BY <1>1, <1>2, <1>5, <1>7, <1>9, <2>1 DEF MediaInv, OnlyLast, PlanOf
<1>15. RunsAsPlanned'
  BY <1>1 DEF MediaInv, RunsAsPlanned
<1> QED
  BY <1>10, <1>11, <1>12, <1>13, <1>14, <1>15 DEF MediaInv

\* The loop hands on the offer it holds, after those it handed on before.
LEMMA LoopSendsStep == MediaInv /\ LoopSends => MediaInv'
<1> SUFFICES ASSUME MediaInv, LoopSends PROVE MediaInv'
  OBVIOUS
<1>1. /\ loop.at = "sending" /\ updates' = Append(updates, loop.n)
      /\ loop' = [loop EXCEPT !.at = "waiting"]
      /\ UNCHANGED <<stage, route, asked, reply, queue, working, plan, receiver, sender>>
  BY DEF LoopSends, pipes
<1>2. /\ loop \in [at : {"idle", "sending", "waiting"}, n : Nat] /\ updates \in Seq(Nat)
      /\ loop.n \in Nat /\ loop.n # 0 /\ Other \notin Nat
  BY <1>1, MediaAssumption DEF MediaInv, MediaTypeOK
<1>3. loop' = [at |-> "waiting", n |-> loop.n]
  BY <1>1, <1>2
<1>4. updates' \in Seq(Nat) /\ Ordered(updates') /\ Sent' = Sent \cup {loop.n}
  <2>1. updates \in Seq(Event) /\ loop.n \in Event
    BY <1>2, NumberEvents DEF Event
  <2>2. \A x \in ToSet(updates) \ {Other} : x < loop.n
    BY <1>1 DEF MediaInv, OneByOne, Sent
  <2> QED
    BY <1>1, <1>2, <2>1, <2>2, AppendFacts DEF MediaInv, OneByOne, Sent
<1>5. Queued' = Queued /\ \A m : Answered(m)' <=> Answered(m)
  BY <1>1 DEF Queued, Answered
<1>6. MediaTypeOK'
  BY <1>1, <1>2, <1>3, <1>4 DEF MediaInv, MediaTypeOK
<1>7. OneByOne' /\ Made' /\ Rings'
  BY <1>1, <1>3, <1>4, <1>5 DEF MediaInv, OneByOne, Made, Rings
<1>8. OnlyLast' /\ RunsAsPlanned'
  <2>1. loop # Idle
    BY <1>1 DEF Idle
  <2>2. ~(stage = "talking" /\ Answered(Len(asked)))
    BY <2>1 DEF MediaInv, OnlyLast
  <2>3. ~(stage' = "talking" /\ Answered(Len(asked))')
    BY <1>1, <1>5, <2>2
  <2> QED
    BY <1>1, <2>3 DEF MediaInv, OnlyLast, RunsAsPlanned
<1> QED
  BY <1>6, <1>7, <1>8 DEF MediaInv

(* The loop stops waiting, or cannot send.                                 *)
LEMMA LoopGivesUpStep == MediaInv /\ (LoopGivesUp \/ LoopFindsTaskGone) => MediaInv'
<1> SUFFICES ASSUME MediaInv, LoopGivesUp \/ LoopFindsTaskGone PROVE MediaInv'
  OBVIOUS
<1>1. /\ loop.at # "idle" /\ Respond(loop.n, Bare) /\ loop' = Idle
      /\ UNCHANGED <<stage, route, asked, queue, updates, working, plan, receiver, sender>>
  BY DEF LoopGivesUp, LoopFindsTaskGone, pipes
<1>2. loop.n \in Nat /\ loop.n <= Len(asked)
  BY NumbersOf DEF MediaInv, Made
<1>3. /\ DOMAIN reply' = Numbers /\ \A m : Answered(m)' => Answered(m)
      /\ \A m \in Numbers : m > Len(asked) => reply'[m] = NoReply
  BY <1>1, <1>2, BareFacts
<1>4. Queued' = Queued /\ Sent' = Sent
  BY <1>1 DEF Queued, Sent
<1>5. MediaTypeOK'
  BY <1>1, <1>3 DEF MediaInv, MediaTypeOK, Idle
<1>6. OneByOne'
  BY <1>1, <1>4, NumbersOf DEF MediaInv, OneByOne, Idle
<1>7. Made' /\ Rings'
  BY <1>1, <1>3, <1>4, NumbersOf DEF MediaInv, Made, Rings, Idle
<1>8. OnlyLast' /\ RunsAsPlanned'
  <2>1. loop # Idle
    BY <1>1 DEF Idle
  <2>2. ~(stage = "talking" /\ Answered(Len(asked)))
    BY <2>1 DEF MediaInv, OnlyLast
  <2>3. ~(stage' = "talking" /\ Answered(Len(asked))')
    BY <1>1, <1>3, <2>2
  <2> QED
    BY <1>1, <2>3 DEF MediaInv, OnlyLast, RunsAsPlanned
<1> QED
  BY <1>5, <1>6, <1>7, <1>8 DEF MediaInv

(* The pipelines.                                                          *)
LEMMA Starts ==
  ASSUME NEW p, NEW ok \in BOOLEAN
  PROVE  StartReceiver(p, ok) \in {Down, StartReceiver(p, TRUE)}
         /\ StartSender(p, ok) \in {Down, StartSender(p, TRUE)}
BY DEF StartReceiver, StartSender

\* What starts is what was planned.
LEMMA MediaStarts ==
  ASSUME NEW p, StartMedia(p)
  PROVE  plan' = p /\ RunsAsPlanned'
BY Starts DEF StartMedia, RunsAsPlanned

(* A pipeline that is left alone runs by the new plan too.                 *)
LEMMA RenegotiateKeeps ==
  ASSUME RunsAsPlanned, stage' = stage, NEW new, Renegotiate(new)
  PROVE  plan' = new /\ RunsAsPlanned'
<1>1. plan' = new
  BY DEF Renegotiate
<1>2. stage = "talking" => receiver' \in {Down, StartReceiver(new, TRUE)}
  <2>1. CASE RecvChanged(new)
    BY <2>1, Starts DEF Renegotiate
  <2>2. CASE ~RecvChanged(new)
    <3>1. receiver' = receiver /\ new.recvAudio = plan.recvAudio /\ new.recvVideo = plan.recvVideo
      BY <2>2 DEF Renegotiate, RecvChanged
    <3>2. StartReceiver(new, TRUE) = StartReceiver(plan, TRUE)
      BY <3>1 DEF StartReceiver
    <3> QED
      BY <3>1, <3>2 DEF RunsAsPlanned
  <2> QED
    BY <2>1, <2>2
<1>3. stage = "talking" => sender' \in {Down, StartSender(new, TRUE)}
  <2>1. CASE SendChanged(new)
    BY <2>1, Starts DEF Renegotiate
  <2>2. CASE ~SendChanged(new)
    <3>1. sender' = sender /\ new.sendAudio = plan.sendAudio /\ new.sendVideo = plan.sendVideo
      BY <2>2 DEF Renegotiate, SendChanged
    <3>2. StartSender(new, TRUE) = StartSender(plan, TRUE)
      BY <3>1 DEF StartSender, SendableVideo
    <3> QED
      BY <3>1, <3>2 DEF RunsAsPlanned
  <2> QED
    BY <2>1, <2>2
<1> QED
  BY <1>1, <1>2, <1>3 DEF RunsAsPlanned

(* The user answers the INVITE's offer.                                    *)
LEMMA AcceptStep == MediaInv /\ AcceptWithAnswer => MediaInv'
<1> SUFFICES ASSUME MediaInv, AcceptWithAnswer PROVE MediaInv'
  OBVIOUS
<1> DEFINE offer == ParseOfferAll(asked[1])
           body == BuildAnswer(offer, Local, AudioPort, VideoPort)
           new == PlanFromOffer(offer, MaxWidth)
<1>1. /\ stage = "ringing" /\ route /\ offer # Invalid /\ stage' = "talking"
      /\ Respond(1, body) /\ StartMedia(new)
      /\ UNCHANGED <<route, asked, queue, loop, updates, working>>
  BY DEF AcceptWithAnswer, Incoming
<1>2. plan' = new /\ RunsAsPlanned'
  BY <1>1, MediaStarts
<1>3. DOMAIN reply' = Numbers /\ \A m \in Numbers : reply'[m] = IF m = 1 THEN body ELSE reply[m]
  BY <1>1, RespondFacts DEF MediaInv
<1>4. /\ asked # << >> /\ 1 \notin Queued \cup Sent \cup {loop.n} /\ working = 0
      /\ \A n \in Numbers : ~Answered(n)
  BY <1>1 DEF MediaInv, Rings
<1>5. Len(asked) \in Nat /\ Len(asked) # 0 /\ Len(asked) <= MaxOffers
  BY <1>4 DEF MediaInv, MediaTypeOK
<1>6. Queued' = Queued /\ Sent' = Sent
  BY <1>1 DEF Queued, Sent
<1> HIDE DEF body, new
<1>7. MediaTypeOK' /\ OneByOne' /\ Rings'
  BY <1>1, <1>3, <1>6 DEF MediaInv, MediaTypeOK, OneByOne, Rings
<1>8. Made'
  <2>1. \A n \in Numbers : n > Len(asked) => n # 1
    BY <1>5 DEF Numbers
  <2> QED
    BY <1>1, <1>3, <1>6, <2>1 DEF MediaInv, Made
<1>9. ASSUME Answered(Len(asked))' PROVE OnlyLast'
  <2>1. Len(asked) = 1
    BY <1>1, <1>3, <1>4, <1>9 DEF Answered
  <2>2. \A n \in Queued \cup Sent \cup {loop.n} : n \in Nat /\ n <= 1 /\ n # 1
    BY <1>4, <2>1, NumbersOf DEF MediaInv, Made
  <2>3. \A n \in Queued \cup Sent \cup {loop.n} : n = 0
    BY <2>2
  <2>4. Queued = {} /\ Sent = {}
    BY <2>3, NumbersOf
  <2>5. loop = Idle
    BY <2>3 DEF MediaInv, MediaTypeOK
  <2> QED
    BY <1>1, <1>2, <1>4, <1>6, <2>1, <2>4, <2>5 DEF OnlyLast, PlanOf, new
<1>10. OnlyLast'
  BY <1>9 DEF OnlyLast
<1> QED
  BY <1>2, <1>7, <1>8, <1>10 DEF MediaInv

\* An outgoing call starts what its answer agreed on.
LEMMA StartOutgoingStep == MediaInv /\ StartOutgoing => MediaInv'
<1> SUFFICES ASSUME MediaInv, StartOutgoing PROVE MediaInv'
  OBVIOUS
<1>1. /\ stage = "ringing" /\ stage' = "talking" /\ route' = TRUE
      /\ UNCHANGED <<asked, reply, queue, loop, updates, working>>
  BY DEF StartOutgoing
<1>2. RunsAsPlanned'
  BY MediaStarts DEF StartOutgoing
<1>3. Queued' = Queued /\ Sent' = Sent /\ \A m : Answered(m)' <=> Answered(m)
  BY <1>1 DEF Queued, Sent, Answered
<1>4. \A n : ~Answered(n)
  BY <1>1 DEF MediaInv, Rings, Answered
<1>5. MediaTypeOK' /\ OneByOne' /\ Made' /\ Rings'
  BY <1>1, <1>3 DEF MediaInv, MediaTypeOK, OneByOne, Made, Rings
<1>6. OnlyLast'
  BY <1>1, <1>3, <1>4 DEF OnlyLast
<1> QED
  BY <1>2, <1>5, <1>6 DEF MediaInv

(* The task takes the next offer off its channel.                          *)
LEMMA TakeUpdateStep == MediaInv /\ TakeUpdate => MediaInv'
<1> SUFFICES ASSUME MediaInv, TakeUpdate PROVE MediaInv'
  OBVIOUS
<1>1. /\ stage = "talking" /\ updates # << >> /\ working' = Head(updates) /\ updates' = Tail(updates)
      /\ UNCHANGED <<stage, route, asked, reply, queue, loop, plan, receiver, sender>>
  BY DEF TakeUpdate, pipes
<1>2. updates \in Seq(Nat) /\ updates \in Seq(Event) /\ Other \notin Nat
  BY NumberEvents, MediaAssumption DEF MediaInv, MediaTypeOK
<1>3. updates' \in Seq(Nat) /\ working' \in Nat
  BY <1>1, <1>2
<1>4. /\ Sent = {working'} \cup Sent' /\ Ordered(updates') /\ \A u \in Sent' : working' < u
  <2>1. Ordered(updates) /\ working' # Other
    BY <1>2, <1>3 DEF MediaInv, OneByOne
  <2>2. Sent' = ToSet(updates') /\ Other \notin Sent'
    BY <1>2, <1>3, NumberEvents DEF Sent
  <2> QED
    BY <1>1, <1>2, <2>1, <2>2, TailFacts DEF Sent
<1>5. Queued' = Queued /\ \A m : Answered(m)' <=> Answered(m)
  BY <1>1 DEF Queued, Answered
<1>6. MediaTypeOK' /\ OneByOne' /\ Made' /\ Rings'
  BY <1>1, <1>3, <1>4, <1>5 DEF MediaInv, MediaTypeOK, OneByOne, Made, Rings
<1>7. OnlyLast' /\ RunsAsPlanned'
  BY <1>1, <1>4, <1>5 DEF MediaInv, OnlyLast, RunsAsPlanned
<1> QED
  BY <1>6, <1>7 DEF MediaInv

(* The task applies an offer and answers it: if the loop still waits for    *)
(* this one, and no other was made meanwhile, it is the last.               *)
LEMMA ReinviteAnswerStep == MediaInv /\ ReinviteAnswer => MediaInv'
<1> SUFFICES ASSUME MediaInv, ReinviteAnswer PROVE MediaInv'
  OBVIOUS
<1> DEFINE offer == ParseOfferAll(asked[working])
           body == BuildAnswer(offer, Local, AudioPort, VideoPort)
           new == PlanFromOffer(offer, MaxWidth)
<1>1. /\ working # 0 /\ working' = 0
      /\ UNCHANGED <<stage, route, asked, queue, updates>>
  BY DEF ReinviteAnswer
<1>2. \/ offer = Invalid /\ Deliver(working, Bare) /\ UNCHANGED <<plan, receiver, sender>>
      \/ offer # Invalid /\ Deliver(working, body) /\ Renegotiate(new)
  BY DEF ReinviteAnswer, pipes
<1>3. RunsAsPlanned' /\ (offer # Invalid => plan' = new)
  BY <1>1, <1>2, RenegotiateKeeps DEF MediaInv, RunsAsPlanned
<1> HIDE DEF offer
<1>4. \/ reply' = reply /\ loop' = loop
      \/ /\ loop = [at |-> "waiting", n |-> working] /\ loop' = Idle
         /\ \/ offer = Invalid /\ Respond(working, Bare)
            \/ offer # Invalid /\ Respond(working, body)
  BY <1>2 DEF Deliver
<1>5. working \in Nat /\ working <= Len(asked) /\ Len(asked) \in Nat /\ MediaTypeOK
  BY NumbersOf DEF MediaInv, Made
<1> HIDE DEF body, new
<1>6. Queued' = Queued /\ Sent' = Sent
  BY <1>1 DEF Queued, Sent
<1>7. /\ DOMAIN reply' = Numbers
      /\ \A m \in Numbers : m # working => reply'[m] = reply[m]
  <2>1. CASE reply' = reply
    BY <1>5, <2>1 DEF MediaTypeOK
  <2>2. CASE Respond(working, Bare)
    BY <1>5, <2>2, RespondFacts
  <2>3. CASE Respond(working, body)
    BY <1>5, <2>3, RespondFacts
  <2> QED
    BY <1>4, <2>1, <2>2, <2>3
<1>8. MediaTypeOK'
  BY <1>1, <1>4, <1>7 DEF MediaInv, MediaTypeOK, Idle
<1>9. OneByOne'
  <2>1. \A n \in Queued \cup Sent : n \in Nat /\ n # 0 /\ 0 < n
    <3>1. \A n \in Queued \cup Sent : n \in Nat /\ n # 0
      BY NumbersOf
    <3>2. \A n \in Nat : n # 0 => 0 < n
      OBVIOUS
    <3> QED
      BY <3>1, <3>2
  <2>2. loop.at = "sending" => loop.n \in Nat /\ 0 < loop.n
    <3>1. loop.at = "sending" => loop.n \in Nat /\ working < loop.n
      BY NumbersOf DEF MediaInv, OneByOne
    <3> QED
      BY <1>5, <3>1
  <2>3. CASE loop' = loop
    BY <1>1, <1>6, <2>1, <2>2, <2>3 DEF MediaInv, OneByOne
  <2>4. CASE loop' = Idle
    BY <1>1, <1>6, <2>1, <2>4 DEF MediaInv, OneByOne, Idle
  <2> QED
    BY <1>4, <2>3, <2>4
<1>10. Made'
  <2>1. \A m \in Numbers : m > Len(asked) => m # working
    BY <1>5 DEF Numbers
  <2>2. loop'.n = loop.n \/ loop'.n = 0
    BY <1>4 DEF Idle
  <2>3. 0 <= Len(asked)
    BY <1>5
  <2> QED
    BY <1>1, <1>6, <1>7, <2>1, <2>2, <2>3 DEF MediaInv, Made
<1>11. stage # "ringing"
  BY <1>1 DEF MediaInv, Rings
<1>12. Rings'
  BY <1>1, <1>11 DEF Rings
<1>13. OnlyLast'
  <2> DEFINE last == Len(asked)
  <2> SUFFICES ASSUME stage = "talking", Answered(last)' PROVE OnlyLast'
    BY <1>1 DEF OnlyLast
  <2>1. ~Answered(last)
    BY <1>1 DEF MediaInv, OnlyLast
  <2>2. last \in Numbers /\ reply'[last] # reply[last] /\ reply'[last] # Bare
    BY <1>1, <2>1 DEF Answered
  <2>3. working = last
    BY <1>7, <2>2
  <2>4. loop = [at |-> "waiting", n |-> working] /\ loop' = Idle /\ offer # Invalid
    <3>1. Respond(working, Bare) => reply'[last] = Bare
      BY <1>5, <2>2, <2>3, RespondFacts
    <3> QED
      BY <1>4, <2>2, <3>1
  <2>5. Queued = {}
    <3>1. \A q \in Queued : q \in Nat /\ working < q /\ q <= last
      BY <2>4, NumbersOf DEF MediaInv, OneByOne, Made
    <3> QED
      BY <1>5, <2>3, <3>1
  <2>6. Sent = {}
    <3>1. \A u \in Sent : u \in Nat /\ working < u /\ u <= last
      BY NumbersOf DEF MediaInv, OneByOne, Made
    <3> QED
      BY <1>5, <2>3, <3>1
  <2> QED
    BY <1>1, <1>3, <1>6, <2>3, <2>4, <2>5, <2>6 DEF OnlyLast, PlanOf, new, offer
<1> QED
  BY <1>3, <1>8, <1>9, <1>10, <1>12, <1>13 DEF MediaInv

(* The call ends.                                                          *)
LEMMA EndingSteps ==
  MediaInv /\ (RingEnds \/ CallEnds \/ ByeFails \/ StopSender \/ StopReceiver \/ TaskReturns)
    => MediaInv'
<1> SUFFICES ASSUME MediaInv,
                    RingEnds \/ CallEnds \/ ByeFails \/ StopSender \/ StopReceiver \/ TaskReturns
             PROVE  MediaInv'
  OBVIOUS
<1>1. /\ stage' \in {"stopping", "dropping", "over"} /\ route' \in {route, FALSE}
      /\ updates' \in {updates, << >>}
      /\ UNCHANGED <<asked, reply, queue, loop, working>>
  BY DEF RingEnds, CallEnds, ByeFails, StopSender, StopReceiver, TaskReturns, dialogVars, pipes
<1>2. << >> \in Seq(Nat) /\ ToSet(<< >>) = {} /\ Ordered(<< >>)
  BY DEF ToSet, Ordered
<1>3. updates' \in Seq(Nat) /\ Ordered(updates') /\ Sent' \subseteq Sent /\ Queued' = Queued
  BY <1>1, <1>2 DEF MediaInv, MediaTypeOK, OneByOne, Sent, Queued
<1>4. MediaTypeOK'
  BY <1>1, <1>3 DEF MediaInv, MediaTypeOK
<1>5. OneByOne' /\ Made'
  BY <1>1, <1>3 DEF MediaInv, OneByOne, Made
<1>6. Rings' /\ OnlyLast' /\ RunsAsPlanned'
  BY <1>1 DEF Rings, OnlyLast, RunsAsPlanned
<1> QED
  BY <1>4, <1>5, <1>6 DEF MediaInv

(* The invariant of the offers, over every interleaving of the peer, the    *)
(* loop and the task.                                                      *)
THEOREM MediaInvariant == Spec => []MediaInv
<1>1. Init => MediaInv
  <2> SUFFICES ASSUME Init PROVE MediaInv
    OBVIOUS
  <2>1. /\ stage = "ringing" /\ reply = [n \in Numbers |-> NoReply] /\ queue = << >>
        /\ loop = Idle /\ updates = << >> /\ working = 0
        /\ \/ route = TRUE /\ \E offer \in InitialOffers : asked = <<offer>>
           \/ route = FALSE /\ asked = << >>
    BY DEF Init
  <2>2. Queued = {} /\ Sent = {} /\ Ordered(<< >>)
    BY <2>1 DEF Queued, Sent, ToSet, Ordered
  <2>3. \A n : ~Answered(n)
    BY <2>1 DEF Answered
  <2>4. asked \in Seq(InitialOffers \cup Reoffers) /\ Len(asked) \in {0, 1} /\ (route => asked # << >>)
    <3>1. CASE route = FALSE /\ asked = << >>
      <4>1. Len(<< >>) = 0 /\ << >> \in Seq(InitialOffers \cup Reoffers)
        OBVIOUS
      <4> QED
        BY <3>1, <4>1
    <3>2. ASSUME NEW offer \in InitialOffers, asked = <<offer>>
          PROVE  asked \in Seq(InitialOffers \cup Reoffers) /\ Len(asked) = 1 /\ asked # << >>
      BY <3>2
    <3> QED
      BY <2>1, <3>1, <3>2
  <2>5. Len(asked) <= MaxOffers
    <3>1. MaxOffers \in Nat /\ 0 <= MaxOffers /\ 1 <= MaxOffers
      BY MediaAssumption
    <3> QED
      BY <2>4, <3>1, Zenon
  <2>6. MediaTypeOK
    <3>1. << >> \in Seq(Event) /\ << >> \in Seq(Nat)
      OBVIOUS
    <3>2. loop \in [at : {"idle", "sending", "waiting"}, n : Nat]
      BY <2>1 DEF Idle
    <3>3. DOMAIN reply = Numbers /\ route \in BOOLEAN
      BY <2>1
    <3>4. stage \in {"ringing", "talking", "stopping", "dropping", "over"} /\ working \in Nat
      BY <2>1
    <3>5. queue \in Seq(Event) /\ updates \in Seq(Nat)
      BY <2>1, <3>1
    <3>6. loop = Idle /\ loop.at = "idle"
      BY <2>1 DEF Idle
    <3> QED
      BY <2>4, <2>5, <3>2, <3>3, <3>4, <3>5, <3>6 DEF MediaTypeOK
  <2>7. OneByOne /\ Made
    BY <2>1, <2>2, <2>4 DEF OneByOne, Made, Idle
  <2>8. Rings
    BY <2>1, <2>2, <2>3, <2>4 DEF Rings, Idle
  <2> QED
    BY <2>1, <2>6, <2>7, <2>8 DEF MediaInv, OnlyLast, RunsAsPlanned
<1>2. MediaInv /\ [Next]_vars => MediaInv'
  <2>1. ASSUME MediaInv, UNCHANGED vars PROVE MediaInv'
    BY <2>1 DEF vars, pipes, MediaInv, MediaTypeOK, OneByOne, Made, Rings, OnlyLast, RunsAsPlanned,
                Queued, Sent, Answered, PlanOf
  <2> QED
    BY <2>1, PeerOffersStep, OtherDialogStep, LoopTakesStep, LoopSendsStep, LoopGivesUpStep,
       AcceptStep, StartOutgoingStep, TakeUpdateStep, ReinviteAnswerStep, EndingSteps DEF Next
<1> QED
  BY <1>1, <1>2, PTL DEF Spec

(* The call runs by the last offer that was answered with SDP              *)
(* (LastAnswerRules).                                                      *)
THEOREM LastAnswerIsApplied == Spec => []LastAnswerRules
<1>1. ASSUME MediaInv PROVE LastAnswerRules
  <2>1. updates \in Seq(Nat)
    BY <1>1 DEF MediaInv, MediaTypeOK
  <2>2. Sent = {} => updates = << >>
    <3> SUFFICES ASSUME updates # << >> PROVE Sent # {}
      OBVIOUS
    <3>1. 1 \in DOMAIN updates
      BY <2>1
    <3> QED
      BY <3>1 DEF Sent, ToSet
  <2> QED
    BY <1>1, <2>2 DEF LastAnswerRules, MediaInv, OnlyLast
<1> QED
  BY <1>1, MediaInvariant, PTL

-----------------------------------------------------------------------------
(* Part 2.  What the two ends make of an answer.                           *)

\* A set of numbers has a smallest one.
LEMMA Smallest ==
  ASSUME NEW T \in SUBSET Nat, T # {}
  PROVE  \E m \in T : \A n \in T : m <= n
<1>1. PICK m \in T : \A n \in T : ~ (<<n, m>> \in OpToRel(<, Nat))
  BY NatLessThanWellFounded, WFMin
<1>2. \A n \in T : ~ (n < m)
  BY <1>1 DEF OpToRel
<1> QED
  BY <1>2

\* A set of numbers up to a bound has a largest one.
LEMMA Largest ==
  ASSUME NEW n \in Nat, NEW T \in SUBSET (1..n), T # {}
  PROVE  \E m \in T : \A k \in T : k <= m
<1> DEFINE U == { u \in 0..n : n - u \in T }
<1>1. \A k \in T : n - k \in U
  <2>1. \A k \in T : n - k \in 0..n /\ n - (n - k) = k
    OBVIOUS
  <2> QED
    BY <2>1
<1>2. U \subseteq Nat /\ U # {}
  <2>1. PICK k \in T : TRUE
    OBVIOUS
  <2>2. U \subseteq Nat /\ n - k \in U
    BY <1>1, <2>1
  <2> HIDE DEF U
  <2> QED
    BY <2>2
<1>3. PICK u \in U : \A w \in U : u <= w
  BY <1>2, Smallest
<1>4. n - u \in T /\ \A k \in T : k <= n - u
  BY <1>1, <1>3
<1> QED
  BY <1>4

(* The last line of a type.                                                *)
LEMMA LastLineFacts ==
  ASSUME NEW s, Len(s) \in Nat, NEW type
  PROVE  LET last == LastLine(s, type)
         IN /\ last \in 0..Len(s)
            /\ last = 0 => \A i \in 1..Len(s) : s[i].type # type
            /\ last # 0 => s[last].type = type /\ \A i \in 1..Len(s) : s[i].type = type => i <= last
<1> DEFINE I == { i \in 1..Len(s) : s[i].type = type }
<1>1. LastLine(s, type) = IF I # {} THEN Max(I) ELSE 0
  BY DEF LastLine, SelectLastInSeq
<1>2. CASE I = {}
  BY <1>1, <1>2
<1>3. CASE I # {}
  <2>1. \E m \in I : \A k \in I : k <= m
    BY <1>3, Largest
  <2>2. Max(I) \in I /\ \A k \in I : k <= Max(I)
    BY <2>1 DEF Max
  <2> QED
    BY <1>1, <1>3, <2>2
<1> QED
  BY <1>2, <1>3

(* The first candidate that is supported.                                  *)
LEMMA FirstSupportedFacts ==
  ASSUME NEW s, Len(s) \in Nat, NEW S
  PROVE  LET first == FirstSupported(s, S)
         IN /\ first \in 0..Len(s)
            /\ first = 0 => \A i \in 1..Len(s) : s[i].codec \notin S
            /\ first # 0 => s[first].codec \in S
<1> DEFINE I == { i \in 1..Len(s) : s[i].codec \in S }
<1>1. FirstSupported(s, S) = IF I # {} THEN Min(I) ELSE 0
  BY DEF FirstSupported, SelectInSeq
<1>2. CASE I = {}
  BY <1>1, <1>2
<1>3. CASE I # {}
  <2>1. I \in SUBSET Nat
    OBVIOUS
  <2> HIDE DEF I
  <2>2. \E m \in I : \A k \in I : m <= k
    BY <1>3, <2>1, Smallest
  <2>3. Min(I) \in I
    BY <2>2, SMT DEF Min
  <2> USE DEF I
  <2> QED
    BY <1>1, <1>3, <2>3
<1> QED
  BY <1>2, <1>3

(* The values that stand for nothing are no body, lane, candidate,         *)
(* destination or pipeline.                                                *)
StandIns ==
    /\ NoCodec \notin AudioPred \cup VideoPred
    /\ \A a, b, c, d, e :
          /\ Invalid \notin {[conn |-> a, media |-> b], [audio |-> a, video |-> b]}
          /\ Down # [audio |-> a, video |-> b]
          /\ NoMedia \notin {[addr |-> a, port |-> b, codecs |-> c],
                             [addr |-> a, port |-> b, pt |-> c, codec |-> d, fmtp |-> e]}
          /\ NoCodec \notin {[pt |-> a, codec |-> b, fmtp |-> c],
                             [addr |-> a, port |-> b, pt |-> c, codec |-> d],
                             [addr |-> a, port |-> b, pt |-> c, codec |-> d, fmtp |-> e],
                             [addr |-> a, port |-> b, pt |-> c, codec |-> d, maxWidth |-> e]}

(* A lane of an offer that was read.                                       *)
GoodLane(lane) ==
    /\ lane # NoMedia /\ Len(lane.codecs) \in Nat \ {0}
    /\ \A i \in 1..Len(lane.codecs) : lane.codecs[i] # NoCodec /\ lane.codecs[i].pt \in 0..255

\* A line that is readable is read to a lane with a destination and candidates.
LEMMA CandidatesFacts ==
  ASSUME StandIns, NEW sdp, NEW md, md.fmt \in Seq(Int), Readable(sdp, md)
  PROVE  GoodLane(OfferFromMedia(sdp, md))
<1> DEFINE lane == OfferFromMedia(sdp, md)
           codecs == ParseFmtCodecs(md)
<1>1. lane # NoMedia /\ lane.codecs = codecs
  BY DEF StandIns, OfferFromMedia
<1>2. md.fmt # << >> /\ \A i \in DOMAIN md.fmt : md.fmt[i] \in 0..255
  BY DEF Readable, IsU8
<1>3. DOMAIN md.fmt = 1..Len(md.fmt) /\ Len(md.fmt) \in Nat \ {0}
  BY <1>2
<1>4. \A i \in DOMAIN md.fmt : codecs[i] # NoCodec /\ codecs[i].pt = md.fmt[i]
  BY DEF StandIns, ParseFmtCodecs
<1>5. Len(codecs) = Len(md.fmt)
  BY <1>3 DEF ParseFmtCodecs
<1> HIDE DEF codecs, lane
<1> QED
  BY <1>1, <1>2, <1>3, <1>4, <1>5 DEF GoodLane, lane

\* An offer that is understood has a lane, and every lane it has is a good one.
LEMMA OfferLanes ==
  ASSUME StandIns, NEW sdp, sdp.media \in Seq(ToSet(sdp.media)),
         \A i \in DOMAIN sdp.media : sdp.media[i].fmt \in Seq(Int),
         ParseOfferAll(sdp) # Invalid
  PROVE  LET offer == ParseOfferAll(sdp)
         IN /\ offer.audio = NoMedia \/ GoodLane(offer.audio)
            /\ offer.video = NoMedia \/ GoodLane(offer.video)
            /\ offer.audio # NoMedia \/ offer.video # NoMedia
<1> DEFINE offer == ParseOfferAll(sdp)
           parsed == [i \in DOMAIN sdp.media |-> OfferFromMedia(sdp, sdp.media[i])]
           Lane(type) == IF LastLine(sdp.media, type) = 0 THEN NoMedia
                         ELSE parsed[LastLine(sdp.media, type)]
<1>1. /\ \A i \in DOMAIN sdp.media : Readable(sdp, sdp.media[i])
      /\ offer = [audio |-> Lane("audio"), video |-> Lane("video")]
      /\ offer.audio # NoMedia \/ offer.video # NoMedia
  BY DEF ParseOfferAll, ParseMediaPair
<1>2. Len(sdp.media) \in Nat /\ DOMAIN sdp.media = 1..Len(sdp.media)
  OBVIOUS
<1>3. ASSUME NEW type PROVE Lane(type) = NoMedia \/ GoodLane(Lane(type))
  <2> DEFINE last == LastLine(sdp.media, type)
  <2>1. last \in 0..Len(sdp.media)
    BY <1>2, LastLineFacts
  <2> HIDE DEF last
  <2>2. CASE last # 0
    <3>1. last \in DOMAIN sdp.media
      BY <1>2, <2>1, <2>2
    <3>2. GoodLane(OfferFromMedia(sdp, sdp.media[last]))
      BY <1>1, <3>1, CandidatesFacts
    <3> QED
      BY <2>2, <3>1, <3>2 DEF last
  <2> QED
    BY <2>2 DEF last
<1>4. offer.audio = Lane("audio") /\ offer.video = Lane("video")
  BY <1>1
<1> HIDE DEF offer, Lane
<1> QED
  BY <1>1, <1>3, <1>4 DEF offer

(* One line of an answer, and what is read out of it.                      *)
Line(md, type, port, pt, codec) ==
    /\ md.type = type /\ md.conn = NoAddr /\ md.fmt = <<pt>> /\ md.port = port
    /\ pt \in 0..255 /\ pt \in DOMAIN md.rtpmap /\ md.rtpmap[pt] = codec

\* A line we write is read as it was meant.
LEMMA LineIsRead ==
  ASSUME NEW body, body.conn = Local, NEW md, NEW type, NEW port, NEW pt, NEW codec,
         Line(md, type, port, pt, codec)
  PROVE  /\ Readable(body, md)
         /\ PeerFromMedia(body, md) = [addr |-> Local, port |-> port, pt |-> pt, codec |-> codec,
                                       fmtp |-> ResolveFmtp(md, pt)]
<1>1. /\ md.conn = NoAddr /\ md.fmt = <<pt>> /\ md.port = port /\ pt \in 0..255
      /\ pt \in DOMAIN md.rtpmap /\ md.rtpmap[pt] = codec
  BY DEF Line
<1>2. DOMAIN md.fmt = {1} /\ md.fmt[1] = pt /\ md.fmt # << >>
  BY <1>1
<1>3. MediaIp(body, md) = Local /\ Local # NoAddr
  BY <1>1, MediaAssumption DEF MediaIp
<1>4. ParseFmtCodecs(md)[1] = [pt |-> pt, codec |-> codec, fmtp |-> ResolveFmtp(md, pt)]
  BY <1>1, <1>2 DEF ParseFmtCodecs
<1>5. Readable(body, md)
  BY <1>1, <1>2, <1>3 DEF Readable, IsU8
<1> QED
  BY <1>1, <1>3, <1>4, <1>5 DEF PeerFromMedia

(* The candidate of a lane that is accepted is one of it; when none is, the *)
(* first is not supported.                                                 *)
LEMMA PickFacts ==
  ASSUME NEW lane, GoodLane(lane), NEW S
  PROVE  /\ Pick(lane, S) # NoCodec => Pick(lane, S).codec \in S /\ Pick(lane, S).pt \in 0..255
         /\ Pick(lane, S) = NoCodec => lane.codecs[1].codec \notin S
         /\ lane.codecs[1].pt \in 0..255
<1> DEFINE first == FirstSupported(lane.codecs, S)
<1>1. /\ first \in 0..Len(lane.codecs) /\ Len(lane.codecs) \in Nat \ {0}
      /\ first = 0 => \A i \in 1..Len(lane.codecs) : lane.codecs[i].codec \notin S
      /\ first # 0 => lane.codecs[first].codec \in S
  BY FirstSupportedFacts DEF GoodLane
<1>2. Pick(lane, S) = IF first = 0 THEN NoCodec ELSE lane.codecs[first]
  BY DEF Pick, GoodLane
<1> HIDE DEF first
<1>3. 1 \in 1..Len(lane.codecs) /\ (first # 0 => first \in 1..Len(lane.codecs))
  BY <1>1
<1> QED
  BY <1>1, <1>2, <1>3 DEF GoodLane

(* Of a lane that is refused the answer names the first candidate, at port  *)
(* 0; of one that is accepted the one that was picked.                     *)
LEMMA AudioLines ==
  ASSUME NEW offer, GoodLane(offer.audio),
         PickAudio(offer) # NoCodec => PickAudio(offer).codec = CodecName(PickAudio(offer).pt)
  PROVE  \E md, port, pt, codec :
            /\ AudioAnswer(offer, AudioPort) = <<md>> /\ Line(md, "audio", port, pt, codec)
            /\ PickAudio(offer) # NoCodec => codec = PickAudio(offer).codec /\ port = AudioPort
            /\ codec \in AudioPred <=> PickAudio(offer) # NoCodec
<1> DEFINE pick == PickAudio(offer)
           first == offer.audio.codecs[1]
<1>1. /\ pick # NoCodec => pick.codec \in AudioPred /\ pick.pt \in 0..255
      /\ pick = NoCodec => first.codec \notin AudioPred
      /\ first.pt \in 0..255 /\ offer.audio # NoMedia
  BY PickFacts DEF PickAudio, GoodLane
<1>2. CASE pick = NoCodec
  <2> DEFINE md == RejectedMedia("audio", offer.audio)
  <2>1. AudioAnswer(offer, AudioPort) = <<md>>
    BY <1>1, <1>2 DEF AudioAnswer
  <2>2. /\ md.type = "audio" /\ md.conn = NoAddr /\ md.fmt = <<first.pt>> /\ md.port = 0
        /\ md.rtpmap = [x \in {first.pt} |-> first.codec]
    BY DEF RejectedMedia
  <2> HIDE DEF md, first
  <2>3. Line(md, "audio", 0, first.pt, first.codec)
    BY <1>1, <2>2 DEF Line
  <2> QED
    BY <1>1, <1>2, <2>1, <2>3
<1>3. CASE pick # NoCodec
  <2> DEFINE md == AudioMediaDescription(AudioPort, <<pick.pt>>)
  <2>1. AudioAnswer(offer, AudioPort) = <<md>>
    BY <1>1, <1>3 DEF AudioAnswer
  <2>2. /\ md.type = "audio" /\ md.conn = NoAddr /\ md.fmt = <<pick.pt>> /\ md.port = AudioPort
        /\ md.rtpmap = [x \in ToSet(<<pick.pt>>) |-> CodecName(x)]
    BY DEF AudioMediaDescription
  <2>3. ToSet(<<pick.pt>>) = {pick.pt}
    BY DEF ToSet
  <2> HIDE DEF md, pick
  <2>4. Line(md, "audio", AudioPort, pick.pt, pick.codec)
    BY <1>1, <1>3, <2>2, <2>3 DEF Line, pick
  <2> QED
    BY <1>1, <1>3, <2>1, <2>4 DEF pick
<1> QED
  BY <1>2, <1>3

\* The answer to a picture is one line, a real one exactly if a codec was picked.
LEMMA VideoLines ==
  ASSUME NEW offer, GoodLane(offer.video),
         PickVideo(offer) # NoCodec => PickVideo(offer).codec = "H264"
  PROVE  \E md, port, pt, codec :
            /\ VideoAnswer(offer, VideoPort) = <<md>> /\ Line(md, "video", port, pt, codec)
            /\ PickVideo(offer) # NoCodec => codec = "H264" /\ port = VideoPort
            /\ codec \in VideoPred <=> PickVideo(offer) # NoCodec
<1> DEFINE pick == PickVideo(offer)
           first == offer.video.codecs[1]
<1>1. /\ pick # NoCodec => pick.codec \in VideoPred /\ pick.pt \in 0..255
      /\ pick = NoCodec => first.codec \notin VideoPred
      /\ first.pt \in 0..255 /\ offer.video # NoMedia
  BY PickFacts DEF PickVideo, GoodLane
<1>2. CASE pick = NoCodec
  <2> DEFINE md == RejectedMedia("video", offer.video)
  <2>1. VideoAnswer(offer, VideoPort) = <<md>>
    BY <1>1, <1>2 DEF VideoAnswer
  <2>2. /\ md.type = "video" /\ md.conn = NoAddr /\ md.fmt = <<first.pt>> /\ md.port = 0
        /\ md.rtpmap = [x \in {first.pt} |-> first.codec]
    BY DEF RejectedMedia
  <2> HIDE DEF md, first
  <2>3. Line(md, "video", 0, first.pt, first.codec)
    BY <1>1, <2>2 DEF Line
  <2> QED
    BY <1>1, <1>2, <2>1, <2>3
<1>3. CASE pick # NoCodec
  <2> DEFINE md == VideoMediaDescription(VideoPort, pick.pt, pick.fmtp)
  <2>1. VideoAnswer(offer, VideoPort) = <<md>>
    BY <1>1, <1>3 DEF VideoAnswer
  <2>2. /\ md.type = "video" /\ md.conn = NoAddr /\ md.fmt = <<pick.pt>> /\ md.port = VideoPort
        /\ md.rtpmap = [x \in {pick.pt} |-> "H264"]
    BY DEF VideoMediaDescription
  <2> HIDE DEF md, pick
  <2>3. Line(md, "video", VideoPort, pick.pt, "H264")
    BY <1>1, <1>3, <2>2 DEF Line
  <2>4. "H264" \in VideoPred
    BY DEF VideoPred
  <2> QED
    BY <1>1, <1>3, <2>1, <2>3, <2>4 DEF pick
<1> QED
  BY <1>2, <1>3

(* A body of at most two lines, audio first, is read line by line.         *)
LEMMA OneLineIsRead ==
  ASSUME StandIns, NEW conn, NEW md, NEW type \in {"audio", "video"}, md.type = type,
         Readable([conn |-> conn, media |-> <<md>>], md)
  PROVE  LET body == [conn |-> conn, media |-> <<md>>]
             peer == PeerFromMedia(body, md)
         IN ParseAnswerAll(body) = [audio |-> IF type = "audio" THEN peer ELSE NoMedia,
                                    video |-> IF type = "video" THEN peer ELSE NoMedia]
<1> DEFINE body == [conn |-> conn, media |-> <<md>>]
           parsed == [i \in DOMAIN body.media |-> PeerFromMedia(body, body.media[i])]
<1>1. /\ body # Invalid /\ body.media = <<md>> /\ Len(<<md>>) = 1 /\ Len(<<md>>) \in Nat
      /\ DOMAIN <<md>> = {1} /\ <<md>>[1] = md
  BY DEF StandIns
<1>2. PeerFromMedia(body, md) # NoMedia
  BY DEF StandIns, PeerFromMedia
<1> DEFINE lastAudio == LastLine(<<md>>, "audio")
           lastVideo == LastLine(<<md>>, "video")
<1>3. lastAudio = IF type = "audio" THEN 1 ELSE 0
  <2>1. /\ lastAudio \in 0..1
        /\ lastAudio = 0 => \A i \in 1..1 : <<md>>[i].type # "audio"
        /\ lastAudio # 0 => <<md>>[lastAudio].type = "audio"
    BY <1>1, LastLineFacts
  <2> HIDE DEF lastAudio
  <2> QED
    BY <1>1, <2>1
<1>4. lastVideo = IF type = "video" THEN 1 ELSE 0
  <2>1. /\ lastVideo \in 0..1
        /\ lastVideo = 0 => \A i \in 1..1 : <<md>>[i].type # "video"
        /\ lastVideo # 0 => <<md>>[lastVideo].type = "video"
    BY <1>1, LastLineFacts
  <2> HIDE DEF lastVideo
  <2> QED
    BY <1>1, <2>1
<1>5. parsed[1] = PeerFromMedia(body, md)
  BY <1>1
<1>6. ParseAnswerAll(body) = ParseMediaPair(body, parsed)
  BY DEF ParseAnswerAll
<1>7. \A i \in DOMAIN body.media : Readable(body, body.media[i])
  BY <1>1
<1> DEFINE audio == IF lastAudio = 0 THEN NoMedia ELSE parsed[lastAudio]
           video == IF lastVideo = 0 THEN NoMedia ELSE parsed[lastVideo]
<1>8. ParseMediaPair(body, parsed) =
        IF audio = NoMedia /\ video = NoMedia THEN Invalid ELSE [audio |-> audio, video |-> video]
  BY <1>1, <1>7 DEF ParseMediaPair
<1> HIDE DEF body, parsed, lastAudio, lastVideo
<1> QED
  BY <1>2, <1>3, <1>4, <1>5, <1>6, <1>8 DEF body

\* An answer of two lines is read line by line.
LEMMA TwoLinesAreRead ==
  ASSUME StandIns, NEW conn, NEW a, NEW v, a.type = "audio", v.type = "video",
         Readable([conn |-> conn, media |-> <<a, v>>], a),
         Readable([conn |-> conn, media |-> <<a, v>>], v)
  PROVE  LET body == [conn |-> conn, media |-> <<a, v>>]
         IN ParseAnswerAll(body) = [audio |-> PeerFromMedia(body, a), video |-> PeerFromMedia(body, v)]
<1> DEFINE s == <<a, v>>
           body == [conn |-> conn, media |-> s]
           parsed == [i \in DOMAIN body.media |-> PeerFromMedia(body, body.media[i])]
           lastAudio == LastLine(s, "audio")
           lastVideo == LastLine(s, "video")
<1>1. /\ body # Invalid /\ body.media = s /\ Len(s) = 2 /\ Len(s) \in Nat
      /\ DOMAIN s = {1, 2} /\ s[1] = a /\ s[2] = v
  BY DEF StandIns
<1>2. PeerFromMedia(body, a) # NoMedia /\ PeerFromMedia(body, v) # NoMedia
  BY DEF StandIns, PeerFromMedia
<1>3. lastAudio = 1
  <2>1. /\ lastAudio \in 0..2
        /\ lastAudio = 0 => \A i \in 1..2 : s[i].type # "audio"
        /\ lastAudio # 0 => s[lastAudio].type = "audio"
    BY <1>1, LastLineFacts
  <2> HIDE DEF lastAudio, s
  <2> QED
    BY <1>1, <2>1
<1>4. lastVideo = 2
  <2>1. /\ lastVideo \in 0..2
        /\ lastVideo = 0 => \A i \in 1..2 : s[i].type # "video"
        /\ lastVideo # 0 => s[lastVideo].type = "video"
    BY <1>1, LastLineFacts
  <2> HIDE DEF lastVideo, s
  <2> QED
    BY <1>1, <2>1
<1>5. parsed[1] = PeerFromMedia(body, a) /\ parsed[2] = PeerFromMedia(body, v)
  BY <1>1
<1>6. ParseAnswerAll(body) = ParseMediaPair(body, parsed)
  BY DEF ParseAnswerAll
<1>7. \A i \in DOMAIN body.media : Readable(body, body.media[i])
  BY <1>1
<1> DEFINE audio == IF lastAudio = 0 THEN NoMedia ELSE parsed[lastAudio]
           video == IF lastVideo = 0 THEN NoMedia ELSE parsed[lastVideo]
<1>8. ParseMediaPair(body, parsed) =
        IF audio = NoMedia /\ video = NoMedia THEN Invalid ELSE [audio |-> audio, video |-> video]
  BY <1>1, <1>7 DEF ParseMediaPair
<1> HIDE DEF parsed, lastAudio, lastVideo
<1>9. audio = PeerFromMedia(body, a) /\ video = PeerFromMedia(body, v)
  BY <1>3, <1>4, <1>5
<1> HIDE DEF audio, video
<1> QED
  BY <1>2, <1>6, <1>8, <1>9

(* The peer that reads our answer finds what we picked on each lane.       *)
PeerFinds(peer, pick, port, supported) ==
    \/ peer = NoMedia /\ pick = NoCodec
    \/ \E p, pt, codec, fmtp :
          /\ peer = [addr |-> Local, port |-> p, pt |-> pt, codec |-> codec, fmtp |-> fmtp]
          /\ pick # NoCodec => codec = pick.codec /\ p = port
          /\ codec \in supported <=> pick # NoCodec

\* A peer that reads a line as it was meant finds the codec that was picked.
LEMMA Finds ==
  ASSUME NEW peer, NEW pick, NEW port, NEW supported, NEW p, NEW pt, NEW codec, NEW fmtp,
         peer = [addr |-> Local, port |-> p, pt |-> pt, codec |-> codec, fmtp |-> fmtp],
         pick # NoCodec => codec = pick.codec /\ p = port,
         codec \in supported <=> pick # NoCodec
  PROVE  PeerFinds(peer, pick, port, supported)
BY Zenon DEF PeerFinds

\* The peer finds in an answer what was picked, lane by lane.
LEMMA AnswerIsRead ==
  ASSUME StandIns, NEW offer,
         offer.audio = NoMedia \/ GoodLane(offer.audio),
         offer.video = NoMedia \/ GoodLane(offer.video),
         offer.audio # NoMedia \/ offer.video # NoMedia,
         Nameable(offer)
  PROVE  LET peers == ParseAnswerAll(BuildAnswer(offer, Local, AudioPort, VideoPort))
         IN /\ PeerFinds(peers.audio, PickAudio(offer), AudioPort, AudioPred)
            /\ PeerFinds(peers.video, PickVideo(offer), VideoPort, VideoPred)
<1> DEFINE body == BuildAnswer(offer, Local, AudioPort, VideoPort)
           peers == ParseAnswerAll(body)
<1>1. body = [conn |-> Local, media |-> AudioAnswer(offer, AudioPort) \o VideoAnswer(offer, VideoPort)]
  <2>1. \A c, m : [[conn |-> c, media |-> << >>] EXCEPT !.media = m] = [conn |-> c, media |-> m]
    OBVIOUS
  <2> QED
    BY <2>1, Zenon DEF BuildAnswer, SessionSkeleton
<1>2. /\ PickAudio(offer) # NoCodec => PickAudio(offer).codec = CodecName(PickAudio(offer).pt)
      /\ PickVideo(offer) # NoCodec => PickVideo(offer).codec = "H264"
  BY DEF Nameable
<1>3. /\ offer.audio = NoMedia => PickAudio(offer) = NoCodec /\ AudioAnswer(offer, AudioPort) = << >>
      /\ offer.video = NoMedia => PickVideo(offer) = NoCodec /\ VideoAnswer(offer, VideoPort) = << >>
  BY DEF PickAudio, PickVideo, Pick, AudioAnswer, VideoAnswer
<1>4. \A md : << >> \o <<md>> = <<md>> /\ <<md>> \o << >> = <<md>>
  OBVIOUS
<1>5. ASSUME NEW a, NEW v PROVE <<a>> \o <<v>> = <<a, v>>
  <2> DEFINE s == <<a>> \o <<v>>
             t == <<a, v>>
  <2>1. <<a>> \in Seq({a, v}) /\ <<v>> \in Seq({a, v}) /\ t \in Seq({a, v})
        /\ Len(<<a>>) = 1 /\ Len(<<v>>) = 1 /\ Len(t) = 2 /\ t[1] = a /\ t[2] = v
    OBVIOUS
  <2>2. s \in Seq({a, v}) /\ Len(s) = 2 /\ s[1] = a /\ s[2] = v
    BY <2>1
  <2> HIDE DEF s, t
  <2>3. \A i \in 1..2 : s[i] = t[i]
    BY <2>1, <2>2
  <2> QED
    BY <2>1, <2>2, <2>3, SeqEqual DEF s, t
<1> HIDE DEF body, peers
<1>6. CASE offer.audio # NoMedia /\ offer.video = NoMedia
  <2>1. PICK md, port, pt, codec :
            /\ AudioAnswer(offer, AudioPort) = <<md>> /\ Line(md, "audio", port, pt, codec)
            /\ PickAudio(offer) # NoCodec => codec = PickAudio(offer).codec /\ port = AudioPort
            /\ codec \in AudioPred <=> PickAudio(offer) # NoCodec
    BY <1>2, <1>6, AudioLines
  <2>2. body = [conn |-> Local, media |-> <<md>>]
    BY <1>1, <1>3, <1>4, <1>6, <2>1
  <2>3. Readable(body, md)
        /\ PeerFromMedia(body, md) = [addr |-> Local, port |-> port, pt |-> pt, codec |-> codec,
                                      fmtp |-> ResolveFmtp(md, pt)]
    BY <2>1, <2>2, LineIsRead
  <2>4. md.type = "audio"
    BY <2>1 DEF Line
  <2>5. peers = [audio |-> PeerFromMedia(body, md), video |-> NoMedia]
    BY <2>2, <2>3, <2>4, OneLineIsRead DEF peers
  <2>6. PeerFinds(peers.audio, PickAudio(offer), AudioPort, AudioPred)
    BY <2>1, <2>3, <2>5, Finds
  <2>7. PeerFinds(peers.video, PickVideo(offer), VideoPort, VideoPred)
    BY <1>3, <1>6, <2>5 DEF PeerFinds
  <2> QED
    BY <2>6, <2>7 DEF body, peers
<1>7. CASE offer.audio = NoMedia /\ offer.video # NoMedia
  <2>1. PICK md, port, pt, codec :
            /\ VideoAnswer(offer, VideoPort) = <<md>> /\ Line(md, "video", port, pt, codec)
            /\ PickVideo(offer) # NoCodec => codec = "H264" /\ port = VideoPort
            /\ codec \in VideoPred <=> PickVideo(offer) # NoCodec
    BY <1>2, <1>7, VideoLines
  <2>2. body = [conn |-> Local, media |-> <<md>>]
    BY <1>1, <1>3, <1>4, <1>7, <2>1
  <2>3. Readable(body, md)
        /\ PeerFromMedia(body, md) = [addr |-> Local, port |-> port, pt |-> pt, codec |-> codec,
                                      fmtp |-> ResolveFmtp(md, pt)]
    BY <2>1, <2>2, LineIsRead
  <2>4. md.type = "video"
    BY <2>1 DEF Line
  <2>5. peers = [audio |-> NoMedia, video |-> PeerFromMedia(body, md)]
    BY <2>2, <2>3, <2>4, OneLineIsRead DEF peers
  <2>6. PeerFinds(peers.audio, PickAudio(offer), AudioPort, AudioPred)
    BY <1>3, <1>7, <2>5 DEF PeerFinds
  <2>7. PeerFinds(peers.video, PickVideo(offer), VideoPort, VideoPred)
    BY <1>2, <2>1, <2>3, <2>5, Finds
  <2> QED
    BY <2>6, <2>7 DEF body, peers
<1>8. CASE offer.audio # NoMedia /\ offer.video # NoMedia
  <2>1. PICK a, port, pt, codec :
            /\ AudioAnswer(offer, AudioPort) = <<a>> /\ Line(a, "audio", port, pt, codec)
            /\ PickAudio(offer) # NoCodec => codec = PickAudio(offer).codec /\ port = AudioPort
            /\ codec \in AudioPred <=> PickAudio(offer) # NoCodec
    BY <1>2, <1>8, AudioLines
  <2>2. PICK v, vport, vpt, vcodec :
            /\ VideoAnswer(offer, VideoPort) = <<v>> /\ Line(v, "video", vport, vpt, vcodec)
            /\ PickVideo(offer) # NoCodec => vcodec = "H264" /\ vport = VideoPort
            /\ vcodec \in VideoPred <=> PickVideo(offer) # NoCodec
    BY <1>2, <1>8, VideoLines
  <2>3. body = [conn |-> Local, media |-> <<a, v>>]
    BY <1>1, <1>5, <2>1, <2>2
  <2>4. Readable(body, a)
        /\ PeerFromMedia(body, a) = [addr |-> Local, port |-> port, pt |-> pt, codec |-> codec,
                                     fmtp |-> ResolveFmtp(a, pt)]
    BY <2>1, <2>3, LineIsRead
  <2>5. Readable(body, v)
        /\ PeerFromMedia(body, v) = [addr |-> Local, port |-> vport, pt |-> vpt, codec |-> vcodec,
                                     fmtp |-> ResolveFmtp(v, vpt)]
    BY <2>2, <2>3, LineIsRead
  <2>6. a.type = "audio" /\ v.type = "video"
    BY <2>1, <2>2 DEF Line
  <2>7. peers = [audio |-> PeerFromMedia(body, a), video |-> PeerFromMedia(body, v)]
    BY <2>3, <2>4, <2>5, <2>6, TwoLinesAreRead DEF peers
  <2>8. PeerFinds(peers.audio, PickAudio(offer), AudioPort, AudioPred)
    BY <2>1, <2>4, <2>7, Finds
  <2>9. PeerFinds(peers.video, PickVideo(offer), VideoPort, VideoPred)
    BY <1>2, <2>2, <2>5, <2>7, Finds
  <2> QED
    BY <2>8, <2>9 DEF body, peers
<1> QED
  BY <1>6, <1>7, <1>8 DEF body, peers

(* What is found on a lane, as a caller plans by it: it is accepted exactly *)
(* when we picked something, under the name and at the port of ours.       *)
LEMMA AcceptedFacts ==
  ASSUME StandIns, NEW peer, NEW pick, NEW port, NEW supported, PeerFinds(peer, pick, port, supported)
  PROVE  /\ Accepted(peer, supported) = NoCodec <=> pick = NoCodec
         /\ pick # NoCodec => /\ Accepted(peer, supported) = peer /\ peer # NoMedia
                              /\ peer.codec = pick.codec /\ peer.port = port
         /\ peer # NoMedia => (peer.codec \in supported <=> pick # NoCodec)
<1>1. CASE peer = NoMedia /\ pick = NoCodec
  BY <1>1 DEF Accepted
<1>2. ASSUME NEW p, NEW pt, NEW codec, NEW fmtp,
             peer = [addr |-> Local, port |-> p, pt |-> pt, codec |-> codec, fmtp |-> fmtp],
             pick # NoCodec => codec = pick.codec /\ p = port,
             codec \in supported <=> pick # NoCodec
      PROVE  /\ Accepted(peer, supported) = NoCodec <=> pick = NoCodec
             /\ pick # NoCodec => /\ Accepted(peer, supported) = peer /\ peer # NoMedia
                                  /\ peer.codec = pick.codec /\ peer.port = port
             /\ peer # NoMedia => (peer.codec \in supported <=> pick # NoCodec)
  <2>1. peer # NoMedia /\ peer # NoCodec
    BY <1>2 DEF StandIns
  <2>2. peer.codec = codec /\ peer.port = p
    BY <1>2
  <2> QED
    BY <1>2, <2>1, <2>2 DEF Accepted
<1> QED
  BY <1>1, <1>2 DEF PeerFinds

\* Two ends that understand an answer alike plan for each other.
LEMMA Agreement ==
  ASSUME StandIns, NEW offer, NEW peers, Nameable(offer),
         PeerFinds(peers.audio, PickAudio(offer), AudioPort, AudioPred),
         PeerFinds(peers.video, PickVideo(offer), VideoPort, VideoPred),
         PickAudio(offer) # NoCodec => PickAudio(offer).codec \in AudioPred
  PROVE  LET ours == PlanFromOffer(offer, MaxWidth)
             theirs == PlanFromAnswer(peers, MaxWidth)
             peer == StartSender(theirs, TRUE)
         IN /\ <<theirs.recvAudio, theirs.recvVideo>>
                 = <<CodecOf(ours.sendAudio), CodecOf(SendableVideo(ours))>>
            /\ peer = Down <=> ours.recvAudio = NoCodec /\ ours.recvVideo = NoCodec
            /\ peer # Down =>
                 /\ CodecOf(peer.audio) = ours.recvAudio
                 /\ CodecOf(peer.video) = ours.recvVideo
                 /\ peer.audio # NoCodec => peer.audio.port = AudioPort
                 /\ peer.video # NoCodec => peer.video.port = VideoPort
<1> DEFINE ours == PlanFromOffer(offer, MaxWidth)
           theirs == PlanFromAnswer(peers, MaxWidth)
           peer == StartSender(theirs, TRUE)
           a == PickAudio(offer)
           v == PickVideo(offer)
           pa == Accepted(peers.audio, AudioPred)
           pv == Accepted(peers.video, VideoPred)
           ps == Accepted(peers.video, KnownVideo)
<1>1. /\ pa = NoCodec <=> a = NoCodec
      /\ a # NoCodec => pa.codec = a.codec /\ pa = peers.audio /\ peers.audio.port = AudioPort
  BY AcceptedFacts
<1>2. /\ pv = NoCodec <=> v = NoCodec
      /\ v # NoCodec => /\ pv = peers.video /\ peers.video # NoMedia
                        /\ pv.codec = v.codec /\ peers.video.port = VideoPort
      /\ peers.video # NoMedia => (peers.video.codec \in VideoPred <=> v # NoCodec)
  BY AcceptedFacts
<1>3. v # NoCodec => v.codec = "H264"
  BY DEF Nameable
<1>4. "H264" \in VideoPred /\ "H264" \in KnownVideo
  BY DEF VideoPred, KnownVideo
<1>5. /\ v # NoCodec => ps = peers.video /\ ps.codec = "H264" /\ ps # NoCodec
      /\ v = NoCodec => ps = NoCodec \/ ps.codec # "H264"
  <2>1. CASE v # NoCodec
    <3>1. peers.video # NoMedia /\ peers.video.codec = "H264" /\ peers.video # NoCodec
      BY <1>2, <1>3, <2>1
    <3> QED
      BY <1>4, <2>1, <3>1 DEF Accepted
  <2>2. CASE v = NoCodec
    <3>1. CASE peers.video = NoMedia
      BY <2>2, <3>1 DEF Accepted
    <3>2. CASE peers.video # NoMedia
      <4>1. peers.video.codec \notin VideoPred
        BY <1>2, <2>2, <3>2
      <4>2. ps = NoCodec \/ ps = peers.video
        BY DEF Accepted
      <4> QED
        BY <1>4, <2>2, <4>1, <4>2
    <3> QED
      BY <3>1, <3>2
  <2> QED
    BY <2>1, <2>2
<1> HIDE DEF a, v, pa, pv, ps
(* Our own plan.                                                           *)
<1>6. /\ ours.recvAudio = CodecOf(a) /\ ours.recvVideo = CodecOf(v)
      /\ ours.sendAudio = AudioDest(offer.audio, a)
      /\ ours.sendVideo = VideoDest(offer.video, v, MaxWidth)
  BY DEF PlanFromOffer, a, v
<1>7. CodecOf(ours.sendAudio) = CodecOf(a)
  <2>1. a # NoCodec => /\ AudioDest(offer.audio, a) # NoCodec
                       /\ AudioDest(offer.audio, a).codec = a.codec
    BY DEF AudioDest, StandIns
  <2>2. a = NoCodec => AudioDest(offer.audio, a) = NoCodec
    BY DEF AudioDest
  <2> QED
    BY <1>6, <2>1, <2>2 DEF CodecOf
<1>8. CodecOf(SendableVideo(ours)) = CodecOf(v)
  <2>1. v # NoCodec => /\ VideoDest(offer.video, v, MaxWidth) # NoCodec
                       /\ VideoDest(offer.video, v, MaxWidth).codec = v.codec
    BY DEF VideoDest, StandIns
  <2>2. v = NoCodec => VideoDest(offer.video, v, MaxWidth) = NoCodec
    BY DEF VideoDest
  <2> QED
    BY <1>3, <1>6, <2>1, <2>2 DEF CodecOf, SendableVideo
(* The plan of the peer.                                                   *)
<1>9. /\ theirs.recvAudio = CodecOf(pa) /\ theirs.recvVideo = CodecOf(pv)
      /\ theirs.sendAudio = AudioDest(peers.audio, pa)
      /\ theirs.sendVideo = VideoDest(peers.video, ps, MaxWidth)
  BY DEF PlanFromAnswer, pa, pv, ps
<1>10. CodecOf(pa) = CodecOf(a) /\ CodecOf(pv) = CodecOf(v)
  BY <1>1, <1>2 DEF CodecOf
<1>11. /\ theirs.sendAudio = NoCodec <=> a = NoCodec
       /\ a # NoCodec => theirs.sendAudio.codec = a.codec /\ theirs.sendAudio.port = AudioPort
  <2>1. pa = NoCodec => AudioDest(peers.audio, pa) = NoCodec
    BY DEF AudioDest
  <2>2. pa # NoCodec => /\ AudioDest(peers.audio, pa) # NoCodec
                        /\ AudioDest(peers.audio, pa).codec = pa.codec
                        /\ AudioDest(peers.audio, pa).port = peers.audio.port
    BY DEF AudioDest, StandIns
  <2> QED
    BY <1>1, <1>9, <2>1, <2>2
<1>12. /\ SendableVideo(theirs) = NoCodec <=> v = NoCodec
       /\ v # NoCodec => SendableVideo(theirs).codec = v.codec /\ SendableVideo(theirs).port = VideoPort
  <2>1. ps = NoCodec => VideoDest(peers.video, ps, MaxWidth) = NoCodec
    BY DEF VideoDest
  <2>2. ps # NoCodec => /\ VideoDest(peers.video, ps, MaxWidth) # NoCodec
                        /\ VideoDest(peers.video, ps, MaxWidth).codec = ps.codec
                        /\ VideoDest(peers.video, ps, MaxWidth).port = peers.video.port
    BY DEF VideoDest, StandIns
  <2>3. CASE v = NoCodec
    BY <1>5, <1>9, <2>1, <2>2, <2>3 DEF SendableVideo
  <2>4. CASE v # NoCodec
    <3>1. theirs.sendVideo # NoCodec /\ theirs.sendVideo.codec = "H264"
          /\ theirs.sendVideo.port = VideoPort
      BY <1>2, <1>5, <1>9, <2>2, <2>4
    <3>2. SendableVideo(theirs) = theirs.sendVideo
      BY <3>1 DEF SendableVideo
    <3> QED
      BY <1>3, <2>4, <3>1, <3>2
  <2> QED
    BY <2>3, <2>4
<1>13. /\ CodecOf(a) = NoCodec <=> a = NoCodec
       /\ CodecOf(v) = NoCodec <=> v = NoCodec
  <2>1. a # NoCodec => a.codec # NoCodec
    BY DEF a, StandIns
  <2>2. v # NoCodec => v.codec # NoCodec
    BY <1>3, <1>4 DEF StandIns
  <2> QED
    BY <2>1, <2>2 DEF CodecOf
<1>14. /\ peer = Down <=> a = NoCodec /\ v = NoCodec
       /\ peer # Down => peer.audio = theirs.sendAudio /\ peer.video = SendableVideo(theirs)
  <2>1. peer = IF theirs.sendAudio = NoCodec /\ SendableVideo(theirs) = NoCodec THEN Down
               ELSE [audio |-> theirs.sendAudio, video |-> SendableVideo(theirs)]
    BY DEF StartSender
  <2> HIDE DEF peer, theirs
  <2> QED
    BY <1>11, <1>12, <2>1 DEF StandIns
<1> HIDE DEF ours, theirs, peer
<1>15. <<theirs.recvAudio, theirs.recvVideo>> = <<CodecOf(ours.sendAudio), CodecOf(SendableVideo(ours))>>
  BY <1>7, <1>8, <1>9, <1>10
<1>16. peer = Down <=> ours.recvAudio = NoCodec /\ ours.recvVideo = NoCodec
  BY <1>6, <1>13, <1>14
<1>17. peer # Down => /\ CodecOf(peer.audio) = ours.recvAudio /\ CodecOf(peer.video) = ours.recvVideo
                      /\ peer.audio # NoCodec => peer.audio.port = AudioPort
                      /\ peer.video # NoCodec => peer.video.port = VideoPort
  BY <1>6, <1>11, <1>12, <1>14 DEF CodecOf
<1> QED
  BY <1>15, <1>16, <1>17 DEF ours, theirs, peer

(* An answer is the one this program builds for the offer it answers.      *)
AnswersFit ==
    \A n \in Numbers : Answered(n) =>
        /\ n <= Len(asked) /\ ParseOfferAll(asked[n]) # Invalid
        /\ reply[n] = BuildAnswer(ParseOfferAll(asked[n]), Local, AudioPort, VideoPort)

\* Every answer that is given is the one this program builds for its offer.
LEMMA AnswersFitStep == MediaInv /\ AnswersFit /\ [Next]_vars => AnswersFit'
<1> SUFFICES ASSUME MediaInv, AnswersFit, [Next]_vars PROVE AnswersFit'
  OBVIOUS
<1>1. MediaTypeOK /\ Made
  BY DEF MediaInv
<1>2. ASSUME asked' = asked, NEW n, Respond(n, Bare) PROVE AnswersFit'
  <2>1. \A m \in Numbers : reply'[m] = IF m = n THEN Bare ELSE reply[m]
    BY <1>1, <1>2, RespondFacts
  <2> QED
    BY <1>2, <2>1 DEF AnswersFit, Answered
<1>3. ASSUME asked' = asked, NEW n \in Numbers, n <= Len(asked), ParseOfferAll(asked[n]) # Invalid,
             Respond(n, BuildAnswer(ParseOfferAll(asked[n]), Local, AudioPort, VideoPort))
      PROVE  AnswersFit'
  <2> DEFINE body == BuildAnswer(ParseOfferAll(asked[n]), Local, AudioPort, VideoPort)
  <2>1. \A m \in Numbers : reply'[m] = IF m = n THEN body ELSE reply[m]
    BY <1>1, <1>3, RespondFacts
  <2> QED
    BY <1>3, <2>1 DEF AnswersFit, Answered
<1>4. ASSUME asked' = asked, reply' = reply PROVE AnswersFit'
  BY <1>4 DEF AnswersFit, Answered
<1>5. CASE PeerOffers
  <2>1. PICK sdp \in Reoffers : asked' = Append(asked, sdp)
    BY <1>5 DEF PeerOffers
  <2>2. reply' = reply /\ asked \in Seq(InitialOffers \cup Reoffers) /\ Len(asked) \in Nat
    BY <1>1, <1>5 DEF PeerOffers, MediaTypeOK
  <2>3. Len(asked') = Len(asked) + 1 /\ \A n \in 1..Len(asked) : asked'[n] = asked[n]
    BY <2>1, <2>2
  <2>4. \A n \in Numbers : Answered(n) => n \in 1..Len(asked) /\ n <= Len(asked')
    BY <2>2, <2>3 DEF AnswersFit, Numbers
  <2> QED
    BY <2>2, <2>3, <2>4 DEF AnswersFit, Answered
<1>6. CASE OtherDialog \/ LoopSends \/ StartOutgoing \/ RingEnds \/ TakeUpdate \/ CallEnds \/ ByeFails
             \/ StopSender \/ StopReceiver \/ TaskReturns \/ UNCHANGED vars
  BY <1>4, <1>6 DEF OtherDialog, LoopSends, StartOutgoing, RingEnds, TakeUpdate, CallEnds, ByeFails,
                    StopSender, StopReceiver, TaskReturns, vars, dialogVars
<1>7. CASE LoopTakes \/ LoopFindsTaskGone \/ LoopGivesUp
  <2>1. asked' = asked /\ (reply' = reply \/ \E n : Respond(n, Bare))
    BY <1>7 DEF LoopTakes, LoopFindsTaskGone, LoopGivesUp
  <2> QED
    BY <1>2, <1>4, <2>1
<1>8. CASE AcceptWithAnswer
  <2>1. /\ Incoming /\ asked' = asked /\ ParseOfferAll(asked[1]) # Invalid
        /\ Respond(1, BuildAnswer(ParseOfferAll(asked[1]), Local, AudioPort, VideoPort))
    BY <1>8 DEF AcceptWithAnswer
  <2>2. asked # << >> /\ Len(asked) \in Nat /\ Len(asked) <= MaxOffers /\ MaxOffers \in Nat
    BY <1>1, <2>1, MediaAssumption DEF MediaInv, Rings, MediaTypeOK, Incoming
  <2>3. Len(asked) # 0
    BY <1>1, <2>2 DEF MediaTypeOK
  <2>4. 1 \in Numbers /\ 1 <= Len(asked)
    BY <2>2, <2>3 DEF Numbers
  <2> QED
    BY <1>3, <2>1, <2>4
<1>9. CASE ReinviteAnswer
  <2> DEFINE offer == ParseOfferAll(asked[working])
             body == BuildAnswer(offer, Local, AudioPort, VideoPort)
  <2>1. /\ working # 0 /\ asked' = asked
        /\ \/ offer = Invalid /\ Deliver(working, Bare)
           \/ offer # Invalid /\ Deliver(working, body)
    BY <1>9 DEF ReinviteAnswer
  <2>2. \/ reply' = reply \/ Respond(working, Bare)
        \/ offer # Invalid /\ Respond(working, body)
    BY <2>1 DEF Deliver
  <2>3. working \in Numbers /\ working <= Len(asked)
    <3>1. working \in Nat /\ working <= Len(asked) /\ Len(asked) \in Nat
      BY NumbersOf, <1>1 DEF Made
    <3>2. Len(asked) <= MaxOffers /\ MaxOffers \in Nat
      BY <1>1, MediaAssumption DEF MediaTypeOK
    <3> QED
      BY <2>1, <3>1, <3>2 DEF Numbers
  <2> QED
    BY <1>2, <1>3, <1>4, <2>1, <2>2, <2>3
<1> QED
  BY <1>5, <1>6, <1>7, <1>8, <1>9 DEF Next

(* Whatever bodies a peer sends, a peer that runs this program too and     *)
(* reads our answer agrees with us on every lane (EndsAgree).              *)
THEOREM AnswersAreUnderstood ==
  ASSUME StandIns
  PROVE  Spec => []EndsAgree
<1>1. Init => AnswersFit
  BY DEF Init, AnswersFit, Answered
<1>2. Spec => []AnswersFit
  BY <1>1, MediaInvariant, AnswersFitStep, PTL DEF Spec
<1>3. ASSUME MediaInv, AnswersFit PROVE EndsAgree
  <2> SUFFICES ASSUME NEW n \in Numbers, Answered(n), Nameable(ParseOfferAll(asked[n]))
               PROVE  LET ours == PlanOf(n)
                          peer == StartSender(PeerPlan(n), TRUE)
                      IN /\ <<PeerPlan(n).recvAudio, PeerPlan(n).recvVideo>>
                              = <<CodecOf(ours.sendAudio), CodecOf(SendableVideo(ours))>>
                         /\ peer = Down <=> ours.recvAudio = NoCodec /\ ours.recvVideo = NoCodec
                         /\ peer # Down =>
                              /\ CodecOf(peer.audio) = ours.recvAudio
                              /\ CodecOf(peer.video) = ours.recvVideo
                              /\ peer.audio # NoCodec => peer.audio.port = AudioPort
                              /\ peer.video # NoCodec => peer.video.port = VideoPort
    BY DEF EndsAgree
  <2> DEFINE sdp == asked[n]
             offer == ParseOfferAll(sdp)
             peers == ParseAnswerAll(reply[n])
  <2>1. /\ n <= Len(asked) /\ offer # Invalid
        /\ reply[n] = BuildAnswer(offer, Local, AudioPort, VideoPort)
    BY <1>3 DEF AnswersFit
  <2>2. sdp \in InitialOffers \cup Reoffers
    <3>1. n \in 1..Len(asked)
      BY <1>3, <2>1 DEF Numbers, MediaInv, MediaTypeOK
    <3> QED
      BY <1>3, <3>1 DEF MediaInv, MediaTypeOK
  <2> HIDE DEF sdp
  <2>3. sdp # Invalid
    BY <2>1 DEF ParseOfferAll, ParseMediaPair
  <2>4. sdp.media \in Seq(ToSet(sdp.media)) /\ \A i \in DOMAIN sdp.media : sdp.media[i].fmt \in Seq(Int)
    BY <2>2, <2>3, BodyAssumption
  <2>5. /\ offer.audio = NoMedia \/ GoodLane(offer.audio)
        /\ offer.video = NoMedia \/ GoodLane(offer.video)
        /\ offer.audio # NoMedia \/ offer.video # NoMedia
    BY <2>1, <2>4, OfferLanes
  <2> HIDE DEF offer
  <2>6. Nameable(offer)
    BY DEF offer, sdp
  <2>7. /\ PeerFinds(peers.audio, PickAudio(offer), AudioPort, AudioPred)
        /\ PeerFinds(peers.video, PickVideo(offer), VideoPort, VideoPred)
    BY <2>1, <2>5, <2>6, AnswerIsRead
  <2>8. PickAudio(offer) # NoCodec => PickAudio(offer).codec \in AudioPred
    <3>1. CASE offer.audio = NoMedia
      BY <3>1 DEF PickAudio, Pick
    <3>2. CASE GoodLane(offer.audio)
      BY <3>2, PickFacts DEF PickAudio
    <3> QED
      BY <2>5, <3>1, <3>2
  <2> HIDE DEF peers
  <2> QED
    BY <2>6, <2>7, <2>8, Agreement DEF PlanOf, PeerPlan, offer, sdp, peers
<1> QED
  BY <1>2, <1>3, MediaInvariant, PTL
=============================================================================
