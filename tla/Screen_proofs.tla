---------------------------- MODULE Screen_proofs ---------------------------
(* Safety of Screen for every set of boards, every scale of a backlight and *)
(* every set of percentages.                                               *)
EXTENDS Screen, TLAPS

(* What would be seen if the brightness were not zero.                     *)
LitWith(p) == GlowsWith(SetBrightness(p, board.max))

(* While the program runs the overlay is shown exactly when the controller  *)
(* takes the display for dark, and otherwise the display can be seen; where *)
(* only the slider darkened it, the slider can light it again.             *)
CoverInv ==
    running => /\ screenOff = off
               /\ ~off /\ excuse = {} => Glows
               /\ ~off /\ excuse \subseteq {"rounded"} => LitWith(panel)

Shown(b) == b = RawFromPercent(slider) \/ slider = PercentFromRaw(b)

(* While the display is dark its brightness is zero and the slider agrees   *)
(* with what is remembered for waking, which is never zero by mistake.      *)
SliderInv ==
    running /\ BrightnessAvailable /\ board.readable /\ RawFromPercent(slider) > 0 =>
        IF off THEN panel.saved > 0 /\ Shown(panel.saved) ELSE Shown(panel.brightness)

ScreenInv == TypeOK /\ CoverInv /\ SliderInv

-----------------------------------------------------------------------------
(* What is known of the display at hand.                                   *)
LEMMA BoardFacts ==
  ASSUME board \in Boards
  PROVE  /\ board.backend \in {"none", "backlight", "drm", "fb"}
         /\ (board.writable \/ board.power) <=> board.backend = "backlight"
         /\ board.writable \in BOOLEAN /\ board.power \in BOOLEAN
         /\ board.max \in Nat /\ board.max > 0 /\ board.obeys \in BOOLEAN
         /\ board.connectors # {} <=> board.backend = "drm"
         /\ board.connectors \cap board.dsi = {}
         /\ board.connectors \subseteq Switches /\ board.dsi \subseteq Switches
         /\ {"bl_power", "fb"} \subseteq Switches
BY BoardsAssumption DEF Switches

(* A percentage the slider offers is some brightness.                      *)
LEMMA RawRange ==
  ASSUME board \in Boards, NEW p \in 5..100
  PROVE  RawFromPercent(p) \in 0..board.max
<1> DEFINE m == board.max
<1>1. m \in Nat /\ m > 0 /\ m * p \in Nat
  BY BoardFacts
<1>2. m * p <= m * 100
  BY <1>1
<1>3. RawFromPercent(p) = (m * p + 50) \div 100
  BY DEF RawFromPercent
<1> HIDE DEF m
<1>4. (m * p + 50) \div 100 \in 0..m
  BY <1>1, <1>2
<1> QED
  BY <1>3, <1>4 DEF m

(* A raw brightness is some percentage.                                    *)
LEMMA PercentType ==
  ASSUME board \in Boards, NEW r \in 0..board.max
  PROVE  PercentFromRaw(r) \in Nat
BY BoardFacts DEF PercentFromRaw

(* A slider that tells of light does not tell a brightness of zero.        *)
LEMMA ShownIsLight ==
  ASSUME board \in Boards, NEW b \in 0..board.max, Shown(b), RawFromPercent(slider) > 0
  PROVE  b > 0
<1> DEFINE m == board.max
<1>1. m \in Nat /\ m > 0
  BY BoardFacts
<1>2. SUFFICES ASSUME b = 0 PROVE FALSE
  BY <1>1
<1>3. CASE slider = PercentFromRaw(0)
  <2>1. PercentFromRaw(0) = (0 * 100 + m \div 2) \div m
    BY DEF PercentFromRaw
  <2> HIDE DEF m
  <2>2. m \div 2 \in 0..(m - 1)
    BY <1>1
  <2>3. \A x \in 0..(m - 1) : x \div m = 0
    BY <1>1
  <2>4. slider = 0
    BY <1>1, <1>3, <2>1, <2>2, <2>3
  <2>5. (m * 0 + 50) \div 100 = 0
    BY <1>1
  <2> QED
    BY <2>4, <2>5 DEF RawFromPercent, m
<1> QED
  BY <1>1, <1>2, <1>3 DEF Shown

-----------------------------------------------------------------------------
(* Writing a set of switch files: no brightness changes, and one success is *)
(* enough.                                                                 *)
LEMMA WriteAllResult ==
  ASSUME NEW p \in Panel, NEW paths \in SUBSET Switches, NEW on, NEW r \in WriteAll(p, paths, on)
  PROVE  /\ r.to \in Panel /\ r.ok \in BOOLEAN
         /\ r.to.brightness = p.brightness /\ r.to.saved = p.saved
         /\ ~r.ok => r.to.powered = p.powered
<1>1. PICK done \in SUBSET paths : r = Result(Switched(p, done, on), done # {})
  BY DEF WriteAll
<1>2. r.ok = (done # {}) /\ r.to = Switched(p, done, on)
  BY <1>1 DEF Result
<1>3. /\ p.brightness \in 0..board.max /\ p.saved \in 0..board.max
      /\ p.powered \in SUBSET Switches
  BY DEF Panel
<1>4. /\ r.to \in Panel /\ r.to.brightness = p.brightness /\ r.to.saved = p.saved
      /\ r.to.powered = p.powered \cup done \/ r.to.powered = p.powered \ done
  BY <1>2, <1>3 DEF Switched, Panel
<1> QED
  BY <1>2, <1>4

\* Switching on darkens nothing, and lights a switch if it says so.
LEMMA WriteAllOn ==
  ASSUME NEW p \in Panel, NEW paths \in SUBSET Switches, NEW r \in WriteAll(p, paths, TRUE)
  PROVE  /\ r.to \in Panel /\ r.ok \in BOOLEAN
         /\ r.to.brightness = p.brightness /\ r.to.saved = p.saved
         /\ p.powered \subseteq r.to.powered
         /\ r.ok => paths \cap r.to.powered # {}
<1>1. PICK done \in SUBSET paths : r = Result(Switched(p, done, TRUE), done # {})
  BY DEF WriteAll
<1>2. r.ok = (done # {}) /\ r.to = [p EXCEPT !.powered = @ \cup done]
  BY <1>1 DEF Result, Switched
<1>3. /\ r.to \in Panel /\ r.to.brightness = p.brightness /\ r.to.saved = p.saved
      /\ r.to.powered = p.powered \cup done
  BY <1>2 DEF Panel
<1> QED
  BY <1>2, <1>3

\* The power switches leave the brightness alone.
LEMMA WriteBlPowerResult ==
  ASSUME NEW p \in Panel, NEW on, NEW q \in WriteBlPower(p, on)
  PROVE  q \in Panel /\ q.brightness = p.brightness /\ q.saved = p.saved
<1> DEFINE paths == IF board.power THEN {"bl_power"} ELSE {}
<1>1. paths \in SUBSET Switches
  BY DEF Switches
<1>2. PICK r \in WriteAll(p, paths, on) : q = r.to
  BY DEF WriteBlPower
<1> QED
  BY <1>1, <1>2, WriteAllResult

\* Switching on switches nothing off.
LEMMA WriteBlPowerOn ==
  ASSUME NEW p \in Panel, NEW q \in WriteBlPower(p, TRUE)
  PROVE  p.powered \subseteq q.powered
<1> DEFINE paths == IF board.power THEN {"bl_power"} ELSE {}
<1>1. paths \in SUBSET Switches
  BY DEF Switches
<1>2. PICK r \in WriteAll(p, paths, TRUE) : q = r.to
  BY DEF WriteBlPower
<1> QED
  BY <1>1, <1>2, WriteAllOn

(* The brightness of a panel alone.                                        *)
LEMMA BrightnessOnly ==
  ASSUME NEW p \in Panel, NEW raw \in 0..board.max
  PROVE  /\ SetBrightness(p, raw) \in Panel
         /\ SetBrightness(p, raw).brightness = raw
         /\ SetBrightness(p, raw).saved = p.saved
         /\ SetBrightness(p, raw).powered = p.powered
         /\ [p EXCEPT !.saved = raw] \in Panel
         /\ [p EXCEPT !.saved = raw].saved = raw
         /\ [p EXCEPT !.saved = raw].brightness = p.brightness
         /\ [p EXCEPT !.saved = raw].powered = p.powered
BY DEF SetBrightness, Panel

(* Switching the display off: a failure leaves it as it glowed, and what is *)
(* remembered is the brightness it had.                                    *)
LEMMA OffResult ==
  ASSUME board \in Boards, NEW p \in Panel, NEW r \in BackendSetOff(p, TRUE)
  PROVE  /\ r.to \in Panel /\ r.ok \in BOOLEAN
         /\ ~r.ok => r.to.brightness = p.brightness /\ r.to.powered = p.powered
         /\ board.writable /\ board.readable => r.to.saved = p.brightness
<1>0. p.brightness \in 0..board.max /\ 0 \in 0..board.max
  BY BoardFacts DEF Panel
<1>1. /\ Remember(p) \in Panel /\ Remember(p).brightness = p.brightness
      /\ Remember(p).powered = p.powered
      /\ board.readable => Remember(p).saved = p.brightness
  BY <1>0, BrightnessOnly DEF Remember
<1>2. CASE board.backend = "backlight" /\ board.writable
  <2>1. r \in {Result(Remember(p), FALSE)}
            \cup { Result(q, TRUE) : q \in WriteBlPower(SetBrightness(Remember(p), 0), FALSE) }
    BY <1>2 DEF BackendSetOff, PowerOff
  <2>2. CASE r = Result(Remember(p), FALSE)
    BY <1>1, <2>2 DEF Result
  <2>3. CASE r # Result(Remember(p), FALSE)
    <3>1. PICK q \in WriteBlPower(SetBrightness(Remember(p), 0), FALSE) : r = Result(q, TRUE)
      BY <2>1, <2>3
    <3>2. /\ SetBrightness(Remember(p), 0) \in Panel
          /\ SetBrightness(Remember(p), 0).saved = Remember(p).saved
      BY <1>0, <1>1, BrightnessOnly
    <3>3. q \in Panel /\ q.saved = Remember(p).saved
      BY <3>1, <3>2, WriteBlPowerResult
    <3> QED
      BY <1>1, <3>1, <3>3 DEF Result
  <2> QED
    BY <2>2, <2>3
<1>3. CASE board.backend = "backlight" /\ ~board.writable
  <2>1. r \in WriteAll(p, {"bl_power"}, FALSE)
    BY <1>3 DEF BackendSetOff, PowerOff
  <2>2. {"bl_power"} \in SUBSET Switches
    BY BoardFacts
  <2> QED
    BY <1>3, <2>1, <2>2, WriteAllResult
<1>4. CASE board.backend \in {"drm", "fb"}
  <2>1. r \in WriteAll(p, board.connectors, FALSE) \/ r \in WriteAll(p, {"fb"}, FALSE)
    BY <1>4 DEF BackendSetOff
  <2>2. board.connectors \in SUBSET Switches /\ {"fb"} \in SUBSET Switches /\ ~board.writable
    BY <1>4, BoardFacts
  <2> QED
    BY <2>1, <2>2, WriteAllResult
<1>5. CASE board.backend = "none"
  <2>1. r = Result(p, FALSE) /\ ~board.writable
    BY <1>5, BoardFacts DEF BackendSetOff
  <2>2. r.to = p /\ r.ok = FALSE
    BY <2>1 DEF Result
  <2> QED
    BY <1>5, <2>1, <2>2, BoardFacts
<1> QED
  BY <1>2, <1>3, <1>4, <1>5, BoardFacts

(* Switching the backend on: what glows stays, and a success glows.        *)
LEMMA OnResult ==
  ASSUME board \in Boards, NEW p \in Panel, NEW r \in BackendSetOff(p, FALSE)
  PROVE  /\ r.to \in Panel /\ r.ok \in BOOLEAN /\ r.to.saved = p.saved
         /\ p.powered \subseteq r.to.powered
         /\ r.ok =>
              /\ board.writable => r.to.brightness = RestoreBrightness(p)
              /\ board.backend = "drm" => board.connectors \cap r.to.powered # {}
              /\ board.backend = "fb" => "fb" \in r.to.powered
<1>1. CASE board.backend = "backlight" /\ board.writable
  <2>1. PICK q \in WriteBlPower(p, TRUE) :
          r \in { Result(q, FALSE), Result(SetBrightness(q, RestoreBrightness(q)), TRUE) }
    BY <1>1 DEF BackendSetOff, PowerOn
  <2>2. q \in Panel /\ q.saved = p.saved /\ p.powered \subseteq q.powered
    BY <2>1, WriteBlPowerResult, WriteBlPowerOn
  <2>3. RestoreBrightness(q) = RestoreBrightness(p) /\ RestoreBrightness(q) \in 0..board.max
    BY <2>2, BoardFacts DEF RestoreBrightness, Panel
  <2>4. CASE r = Result(q, FALSE)
    <3>1. r.to = q /\ r.ok = FALSE
      BY <2>4 DEF Result
    <3> QED
      BY <2>2, <3>1
  <2>5. CASE r = Result(SetBrightness(q, RestoreBrightness(q)), TRUE)
    <3>1. r.to = SetBrightness(q, RestoreBrightness(q)) /\ r.ok = TRUE
      BY <2>5 DEF Result
    <3> DEFINE raw == RestoreBrightness(q)
    <3>2. raw \in 0..board.max /\ raw = RestoreBrightness(p)
      BY <2>3
    <3>3. /\ SetBrightness(q, raw) \in Panel
          /\ SetBrightness(q, raw).brightness = raw
          /\ SetBrightness(q, raw).saved = q.saved
          /\ SetBrightness(q, raw).powered = q.powered
      <4> HIDE DEF raw
      <4> QED
        BY <2>2, <3>2, BrightnessOnly
    <3> QED
      BY <1>1, <2>2, <3>1, <3>2, <3>3
  <2> QED
    BY <2>1, <2>4, <2>5
<1>2. CASE board.backend = "backlight" /\ ~board.writable
  <2> DEFINE paths == {"bl_power"}
  <2>1. r \in WriteAll(p, paths, TRUE)
    BY <1>2 DEF BackendSetOff, PowerOn
  <2>2. paths \in SUBSET Switches
    BY BoardFacts
  <2>3. /\ r.to \in Panel /\ r.ok \in BOOLEAN /\ r.to.saved = p.saved
        /\ p.powered \subseteq r.to.powered
        /\ r.ok => paths \cap r.to.powered # {}
    <3> HIDE DEF paths
    <3> QED
      BY <2>1, <2>2, WriteAllOn
  <2> QED
    BY <1>2, <2>3
<1>3. CASE board.backend = "drm"
  <2>1. r \in WriteAll(p, board.connectors, TRUE)
    BY <1>3 DEF BackendSetOff
  <2>2. /\ r.to \in Panel /\ r.ok \in BOOLEAN /\ r.to.saved = p.saved
        /\ p.powered \subseteq r.to.powered
        /\ r.ok => board.connectors \cap r.to.powered # {}
    BY <2>1, BoardFacts, WriteAllOn
  <2> QED
    BY <1>3, <2>2, BoardFacts
<1>4. CASE board.backend = "fb"
  <2> DEFINE paths == {"fb"}
  <2>1. r \in WriteAll(p, paths, TRUE)
    BY <1>4 DEF BackendSetOff
  <2>2. paths \in SUBSET Switches
    BY BoardFacts
  <2>3. /\ r.to \in Panel /\ r.ok \in BOOLEAN /\ r.to.saved = p.saved
        /\ p.powered \subseteq r.to.powered
        /\ r.ok => paths \cap r.to.powered # {}
    <3> HIDE DEF paths
    <3> QED
      BY <2>1, <2>2, WriteAllOn
  <2> QED
    BY <1>4, <2>3, BoardFacts
<1>5. CASE board.backend = "none"
  <2>1. r = Result(p, FALSE) /\ ~board.writable
    BY <1>5, BoardFacts DEF BackendSetOff
  <2>2. r.to = p /\ r.ok = FALSE
    BY <2>1 DEF Result
  <2> QED
    BY <1>5, <2>1, <2>2, BoardFacts
<1> QED
  BY <1>1, <1>2, <1>3, <1>4, <1>5, BoardFacts

\* Darkening that fails has darkened nothing, and saves what was there.
LEMMA DarkenResult ==
  ASSUME board \in Boards, panel \in Panel, NEW r \in Darken
  PROVE  /\ r.to \in Panel /\ r.ok \in BOOLEAN
         /\ ~r.ok => r.to.brightness = panel.brightness /\ r.to.powered = panel.powered
         /\ board.writable /\ board.readable => r.to.saved = panel.brightness
<1>1. PICK b \in BackendSetOff(panel, TRUE) :
        r \in { Result(d.to, b.ok \/ d.ok) : d \in WriteAll(b.to, board.dsi, FALSE) }
  BY DEF Darken
<1>2. PICK d \in WriteAll(b.to, board.dsi, FALSE) : r = Result(d.to, b.ok \/ d.ok)
  BY <1>1
<1>3. r.to = d.to /\ r.ok = (b.ok \/ d.ok)
  BY <1>2 DEF Result
<1>4. /\ b.to \in Panel /\ b.ok \in BOOLEAN
      /\ ~b.ok => b.to.brightness = panel.brightness /\ b.to.powered = panel.powered
      /\ board.writable /\ board.readable => b.to.saved = panel.brightness
  BY <1>1, OffResult
<1>5. /\ d.to \in Panel /\ d.ok \in BOOLEAN
      /\ d.to.brightness = b.to.brightness /\ d.to.saved = b.to.saved
      /\ ~d.ok => d.to.powered = b.to.powered
  <2>1. board.dsi \in SUBSET Switches
    BY BoardFacts
  <2> QED
    BY <1>2, <1>4, <2>1, WriteAllResult
<1> QED
  BY <1>3, <1>4, <1>5

\* Brightening that succeeds leaves a panel that glows, unless bl_power is cut.
LEMMA BrightenResult ==
  ASSUME board \in Boards, panel \in Panel, NEW r \in Brighten
  PROVE  /\ r.to \in Panel /\ r.ok \in BOOLEAN /\ r.to.saved = panel.saved
         /\ r.ok => /\ BlPowerCut(r.to) \/ GlowsWith(r.to)
                    /\ board.writable => r.to.brightness = RestoreBrightness(panel)
<1>1. PICK d \in WriteAll(panel, board.dsi, TRUE) :
        r \in IF board.dsi # {} /\ ~d.ok THEN {d}
              ELSE IF board.backend = "none" THEN {Result(d.to, TRUE)}
              ELSE BackendSetOff(d.to, FALSE)
  BY DEF Brighten
<1>2. /\ d.to \in Panel /\ d.ok \in BOOLEAN /\ d.to.saved = panel.saved
      /\ d.ok => board.dsi \cap d.to.powered # {}
  <2>1. board.dsi \in SUBSET Switches
    BY BoardFacts
  <2> QED
    BY <1>1, <2>1, WriteAllOn
<1>3. CASE board.dsi # {} /\ ~d.ok
  BY <1>1, <1>2, <1>3
<1>4. CASE ~(board.dsi # {} /\ ~d.ok) /\ board.backend = "none"
  <2>1. r = Result(d.to, TRUE)
    BY <1>1, <1>4
  <2>2. r.to = d.to /\ r.ok = TRUE
    BY <2>1 DEF Result
  <2> QED
    BY <1>2, <1>4, <2>2, BoardFacts DEF GlowsWith
<1>5. CASE ~(board.dsi # {} /\ ~d.ok) /\ board.backend # "none"
  <2>1. r \in BackendSetOff(d.to, FALSE)
    BY <1>1, <1>5
  <2>2. /\ r.to \in Panel /\ r.ok \in BOOLEAN /\ r.to.saved = d.to.saved
        /\ d.to.powered \subseteq r.to.powered
        /\ r.ok =>
             /\ board.writable => r.to.brightness = RestoreBrightness(d.to)
             /\ board.backend = "drm" => board.connectors \cap r.to.powered # {}
             /\ board.backend = "fb" => "fb" \in r.to.powered
    BY <1>2, <2>1, OnResult
  <2>3. RestoreBrightness(d.to) = RestoreBrightness(panel) /\ RestoreBrightness(panel) > 0
    BY <1>2, BoardFacts DEF RestoreBrightness, Panel
  <2>4. board.dsi # {} => board.dsi \cap r.to.powered # {}
    BY <1>2, <1>5, <2>2
  <2> QED
    BY <1>2, <2>2, <2>3, <2>4 DEF GlowsWith, BlPowerCut
<1> QED
  BY <1>3, <1>4, <1>5

-----------------------------------------------------------------------------
(* The steps.                                                              *)
LEMMA GlowsByPanel ==
  ASSUME NEW p, NEW q, p.powered = q.powered, p.brightness = q.brightness
  PROVE  GlowsWith(p) <=> GlowsWith(q)
BY DEF GlowsWith

(* The slider where the hardware is asked.                                 *)
LEMMA AskedSlider ==
  ASSUME board \in Boards, panel \in Panel, NEW default \in Nat
  PROVE  /\ BrightnessPercent(default) \in Nat
         /\ BrightnessAvailable /\ board.readable
              => BrightnessPercent(default) = PercentFromRaw(panel.brightness)
<1>1. panel.brightness \in 0..board.max
  BY DEF Panel
<1> QED
  BY <1>1, PercentType DEF BrightnessPercent, BrightnessAvailable

(* What can be seen at some brightness is the same at any other but zero.   *)
LEMMA LitAtAny ==
  ASSUME board \in Boards, NEW p \in Panel, NEW raw \in 0..board.max
  PROVE  LET q == SetBrightness(p, raw)
         IN /\ GlowsWith(p) => LitWith(p)
            /\ LitWith(q) <=> LitWith(p)
            /\ LitWith(p) /\ raw > 0 => GlowsWith(q)
            /\ q.brightness = raw /\ q.powered = p.powered /\ q.saved = p.saved /\ q \in Panel
<1> DEFINE q == SetBrightness(p, raw)
           full == SetBrightness(p, board.max)
           qfull == SetBrightness(q, board.max)
<1>1. board.max \in 0..board.max /\ board.max > 0
  BY BoardFacts
<1>2. /\ q \in Panel /\ q.brightness = raw /\ q.powered = p.powered /\ q.saved = p.saved
      /\ full.brightness = board.max /\ full.powered = p.powered
  BY <1>1, BrightnessOnly
<1>3. qfull.brightness = board.max /\ qfull.powered = p.powered
  <2> HIDE DEF q
  <2> QED
    BY <1>1, <1>2, BrightnessOnly
<1> HIDE DEF q, full, qfull
<1>4. /\ GlowsWith(p) => GlowsWith(full)
      /\ GlowsWith(qfull) <=> GlowsWith(full)
      /\ GlowsWith(full) /\ raw > 0 => GlowsWith(q)
  BY <1>1, <1>2, <1>3 DEF GlowsWith
<1> QED
  BY <1>2, <1>4 DEF LitWith, q, full, qfull

\* The program starts with the invariant.
LEMMA StartStep ==
  ASSUME ScreenInv, Start
  PROVE  ScreenInv'
<1> DEFINE known == IF board.backend = "backlight" /\ board.readable THEN panel.brightness ELSE 0
           found == [panel EXCEPT !.saved = known]
           raw == RawFromPercent(kv)
           dark == IF Glows THEN {} ELSE {"found"}
<1>1. /\ running' = TRUE /\ off' = FALSE /\ screenOff' = FALSE
      /\ UNCHANGED <<board, kv>> /\ board \in Boards /\ panel \in Panel
      /\ kv \in Percents \cup {Unset}
  BY DEF Start, ScreenInv, TypeOK
<1>2. /\ found \in Panel /\ found.brightness = panel.brightness
      /\ found.powered = panel.powered
  <2>1. known \in 0..board.max
    BY <1>1, BoardFacts DEF Panel
  <2> HIDE DEF known
  <2> QED
    BY <1>1, <2>1, BrightnessOnly
<1>3. \/ /\ BrightnessAvailable /\ kv # Unset
         /\ panel' = SetBrightness(found, raw) /\ slider' = kv
         /\ excuse' = ExcusedBy(panel', dark \cup IF raw = 0 THEN {"rounded"} ELSE {})
      \/ /\ panel' = found /\ excuse' = dark
         /\ slider' = IF BrightnessAvailable THEN BrightnessPercent(Default) ELSE Default
  BY DEF Start
<1>4. (GlowsWith(found) <=> Glows) /\ dark \subseteq Excuses
  BY <1>2, GlowsByPanel DEF Glows, Excuses
<1> HIDE DEF found, raw
<1>5. ASSUME panel' \in Panel, slider' \in Nat, excuse' \subseteq Excuses,
             excuse' = {} => GlowsWith(panel'), excuse' \subseteq {"rounded"} => LitWith(panel'),
             BrightnessAvailable /\ board.readable => Shown(panel.brightness)'
      PROVE  ScreenInv'
  <2>1. TypeOK'
    BY <1>1, <1>5 DEF TypeOK, Panel
  <2>2. CoverInv'
    BY <1>1, <1>5 DEF CoverInv, Glows, GlowsWith, LitWith, SetBrightness
  <2>3. SliderInv'
    BY <1>1, <1>5 DEF SliderInv, BrightnessAvailable
  <2> QED
    BY <2>1, <2>2, <2>3 DEF ScreenInv
<1>6. CASE /\ panel' = found /\ excuse' = dark
           /\ slider' = IF BrightnessAvailable THEN BrightnessPercent(Default) ELSE Default
  <2>1. Default \in Nat
    BY DEF Default
  <2>2. /\ slider' \in Nat
        /\ BrightnessAvailable /\ board.readable => slider' = PercentFromRaw(panel.brightness)
    BY <1>1, <1>6, <2>1, AskedSlider
  <2>3. BrightnessAvailable /\ board.readable => Shown(panel.brightness)'
    BY <1>1, <1>2, <1>6, <2>2 DEF Shown, PercentFromRaw
  <2>4. excuse' \subseteq {"rounded"} => GlowsWith(panel')
    BY <1>4, <1>6
  <2>5. GlowsWith(found) => LitWith(found)
    <3>1. 0 \in 0..board.max
      BY <1>1, BoardFacts
    <3> QED
      BY <1>1, <1>2, <3>1, LitAtAny
  <2> QED
    BY <1>2, <1>4, <1>5, <1>6, <2>2, <2>3, <2>4, <2>5
<1>7. CASE /\ BrightnessAvailable /\ kv # Unset
           /\ panel' = SetBrightness(found, raw) /\ slider' = kv
           /\ excuse' = ExcusedBy(panel', dark \cup IF raw = 0 THEN {"rounded"} ELSE {})
  <2>1. kv \in Nat /\ raw \in 0..board.max
    BY <1>1, <1>7, PercentsAssumption, RawRange DEF raw
  <2>2. /\ GlowsWith(found) => LitWith(found)
        /\ LitWith(panel') <=> LitWith(found)
        /\ LitWith(found) /\ raw > 0 => GlowsWith(panel')
        /\ panel' \in Panel /\ panel'.brightness = raw
    BY <1>1, <1>2, <1>7, <2>1, LitAtAny
  <2>3. Shown(panel.brightness)'
    BY <1>1, <1>7, <2>2 DEF Shown, RawFromPercent, raw
  <2>4. excuse' \subseteq Excuses
    BY <1>4, <1>7 DEF ExcusedBy, Excuses
  <2>5. (excuse' = {} => GlowsWith(panel')) /\ (excuse' \subseteq {"rounded"} => LitWith(panel'))
    <3>1. CASE GlowsWith(panel')
      <4>1. LitWith(panel')
        <5>1. board.max \in 0..board.max
          BY <1>1, BoardFacts
        <5> QED
          BY <1>1, <2>2, <3>1, <5>1, LitAtAny
      <4> QED
        BY <3>1, <4>1
    <3>2. CASE ~GlowsWith(panel')
      <4>1. excuse' = dark \cup IF raw = 0 THEN {"rounded"} ELSE {}
        BY <1>7, <3>2 DEF ExcusedBy
      <4>2. CASE Glows
        BY <1>4, <2>1, <2>2, <3>2, <4>1, <4>2
      <4>3. CASE ~Glows
        <5>1. "found" \in excuse'
          BY <4>1, <4>3
        <5> QED
          BY <5>1
      <4> QED
        BY <4>2, <4>3
    <3> QED
      BY <3>1, <3>2
  <2> QED
    BY <1>5, <1>7, <2>1, <2>2, <2>3, <2>4, <2>5
<1> QED
  BY <1>3, <1>6, <1>7

\* The power key keeps it.
LEMMA PowerStep ==
  ASSUME ScreenInv, ScreenPowerPressed
  PROVE  ScreenInv'
<1>1. /\ running /\ off = FALSE /\ screenOff = FALSE
      /\ board \in Boards /\ panel \in Panel /\ UNCHANGED <<board, running, slider, kv>>
  BY DEF ScreenPowerPressed, ScreenInv, CoverInv, TypeOK
<1>2. PICK r \in Darken : panel' = r.to /\ off' = r.ok /\ screenOff' = r.ok /\ excuse' = excuse
  BY <1>1, DarkenResult DEF ScreenPowerPressed, SetOff
<1>3. /\ r.to \in Panel /\ r.ok \in BOOLEAN
      /\ ~r.ok => r.to.brightness = panel.brightness /\ r.to.powered = panel.powered
      /\ board.writable /\ board.readable => r.to.saved = panel.brightness
  BY <1>1, <1>2, DarkenResult
<1>4. TypeOK'
  BY <1>1, <1>2, <1>3 DEF TypeOK, ScreenInv, Panel
<1>5. CoverInv'
  <2>1. ~r.ok => (GlowsWith(panel) => GlowsWith(panel'))
    BY <1>2, <1>3, GlowsByPanel
  <2>2. ~r.ok => (LitWith(panel) => LitWith(panel'))
    <3>1. ~r.ok => (LitWith(panel) <=> LitWith(r.to))
      BY <1>1, <1>3 DEF LitWith, GlowsWith, SetBrightness, Panel
    <3> QED
      BY <1>2, <3>1
  <2> QED
    BY <1>1, <1>2, <2>1, <2>2 DEF CoverInv, ScreenInv, Glows, GlowsWith, LitWith, SetBrightness
<1>6. SliderInv'
  <2> SUFFICES ASSUME BrightnessAvailable, board.readable, RawFromPercent(slider) > 0
               PROVE  IF r.ok THEN r.to.saved > 0 /\ Shown(r.to.saved) ELSE Shown(r.to.brightness)
    BY <1>1, <1>2 DEF SliderInv, BrightnessAvailable, Shown, RawFromPercent, PercentFromRaw
  <2>1. Shown(panel.brightness)
    BY <1>1 DEF ScreenInv, SliderInv
  <2>2. panel.brightness > 0
    BY <1>1, <2>1, ShownIsLight DEF Panel
  <2> QED
    BY <1>3, <2>1, <2>2 DEF BrightnessAvailable
<1> QED
  BY <1>4, <1>5, <1>6 DEF ScreenInv

\* A touch of the dark screen keeps it.
LEMMA WakeStep ==
  ASSUME ScreenInv, ScreenWake
  PROVE  ScreenInv'
<1>1. /\ running /\ off = TRUE /\ screenOff = TRUE
      /\ board \in Boards /\ panel \in Panel /\ UNCHANGED <<board, running, slider, kv>>
  BY DEF ScreenWake, ScreenInv, CoverInv, TypeOK
<1>2. PICK r \in Brighten :
        /\ panel' = r.to /\ off' = ~r.ok /\ screenOff' = ~r.ok
        /\ excuse' = IF r.ok THEN ExcusedBy(r.to, IF BlPowerCut(r.to) THEN {"dropped"} ELSE {})
                     ELSE excuse
  BY <1>1, BrightenResult DEF ScreenWake, SetOff
<1>3. /\ r.to \in Panel /\ r.ok \in BOOLEAN /\ r.to.saved = panel.saved
      /\ r.ok => /\ BlPowerCut(r.to) \/ GlowsWith(r.to)
                 /\ board.writable => r.to.brightness = RestoreBrightness(panel)
  BY <1>1, <1>2, BrightenResult
<1>4. TypeOK'
  BY <1>1, <1>2, <1>3 DEF TypeOK, ScreenInv, Panel, ExcusedBy, Excuses
<1>5. CoverInv'
  <2>1. r.ok /\ excuse' \subseteq {"rounded"} => GlowsWith(panel')
    BY <1>2, <1>3 DEF ExcusedBy
  <2>2. GlowsWith(panel') => LitWith(panel')
    <3>1. 0 \in 0..board.max
      BY <1>1, BoardFacts
    <3> QED
      BY <1>1, <1>2, <1>3, <3>1, LitAtAny
  <2> QED
    BY <1>1, <1>2, <1>3, <2>1, <2>2 DEF CoverInv, Glows, GlowsWith, LitWith, SetBrightness
<1>6. SliderInv'
  <2> SUFFICES ASSUME BrightnessAvailable, board.readable, RawFromPercent(slider) > 0
               PROVE  IF ~r.ok THEN r.to.saved > 0 /\ Shown(r.to.saved) ELSE Shown(r.to.brightness)
    BY <1>1, <1>2 DEF SliderInv, BrightnessAvailable, Shown, RawFromPercent, PercentFromRaw
  <2>1. panel.saved > 0 /\ Shown(panel.saved)
    BY <1>1 DEF ScreenInv, SliderInv
  <2> QED
    BY <1>3, <2>1 DEF BrightnessAvailable, RestoreBrightness
<1> QED
  BY <1>4, <1>5, <1>6 DEF ScreenInv

\* The slider keeps it.
LEMMA SliderStep ==
  ASSUME ScreenInv, NEW percent \in Percents, SetScreenBrightness(percent)
  PROVE  ScreenInv'
<1> DEFINE raw == RawFromPercent(percent)
<1>1. /\ running /\ off = FALSE /\ screenOff = FALSE /\ BrightnessAvailable
      /\ board \in Boards /\ panel \in Panel /\ UNCHANGED <<board, running, off, screenOff>>
      /\ percent \in 5..100 /\ percent \in Nat
  BY PercentsAssumption DEF SetScreenBrightness, ScreenInv, CoverInv, TypeOK
<1>2. \/ /\ panel' = SetBrightness(panel, raw) /\ slider' = percent /\ kv' \in {kv, percent}
         /\ excuse' = ExcusedBy(panel', IF raw = 0 THEN excuse \cup {"rounded"}
                                        ELSE excuse \ {"rounded"})
      \/ slider' = BrightnessPercent(percent) /\ UNCHANGED <<panel, kv, excuse>>
  BY <1>1 DEF SetScreenBrightness
<1>3. raw \in 0..board.max
  BY <1>1, RawRange
<1> HIDE DEF raw
<1>4. CASE /\ panel' = SetBrightness(panel, raw) /\ slider' = percent /\ kv' \in {kv, percent}
           /\ excuse' = ExcusedBy(panel', IF raw = 0 THEN excuse \cup {"rounded"}
                                          ELSE excuse \ {"rounded"})
  <2>1. /\ LitWith(panel') <=> LitWith(panel)
        /\ LitWith(panel) /\ raw > 0 => GlowsWith(panel')
        /\ panel' \in Panel /\ panel'.brightness = raw
    BY <1>1, <1>3, <1>4, LitAtAny
  <2>2. GlowsWith(panel') => LitWith(panel')
    BY <1>1, <1>3, <2>1, LitAtAny
  <2>3. TypeOK'
    <3>1. excuse' \subseteq Excuses
      BY <1>4 DEF ExcusedBy, Excuses, TypeOK, ScreenInv
    <3> QED
      BY <1>1, <1>4, <2>1, <3>1 DEF TypeOK, ScreenInv, Panel
  <2>4. /\ excuse' = {} => GlowsWith(panel')
        /\ excuse' \subseteq {"rounded"} => LitWith(panel')
    <3>1. CASE GlowsWith(panel')
      BY <2>2, <3>1
    <3>2. CASE ~GlowsWith(panel')
      <4>1. excuse \subseteq {"rounded"} => LitWith(panel)
        BY <1>1 DEF CoverInv, ScreenInv
      <4>2. CASE raw = 0
        <5>1. excuse' = excuse \cup {"rounded"}
          BY <1>4, <3>2, <4>2 DEF ExcusedBy
        <5> QED
          BY <2>1, <4>1, <5>1
      <4>3. CASE raw # 0
        <5>1. excuse' = excuse \ {"rounded"} /\ raw > 0
          BY <1>1, <1>3, <1>4, <3>2, <4>3, BoardFacts DEF ExcusedBy
        <5>2. ~LitWith(panel)
          BY <2>1, <3>2, <5>1
        <5> QED
          BY <4>1, <5>1, <5>2
      <4> QED
        BY <4>2, <4>3
    <3> QED
      BY <3>1, <3>2
  <2>5. CoverInv'
    BY <1>1, <2>4 DEF CoverInv, Glows, GlowsWith, LitWith, SetBrightness
  <2>6. SliderInv'
    BY <1>1, <1>4, <2>1 DEF SliderInv, Shown, RawFromPercent, raw
  <2> QED
    BY <2>3, <2>5, <2>6 DEF ScreenInv
<1>5. CASE slider' = BrightnessPercent(percent) /\ UNCHANGED <<panel, kv, excuse>>
  <2>1. /\ slider' \in Nat
        /\ board.readable => slider' = PercentFromRaw(panel.brightness)
    BY <1>1, <1>5, AskedSlider
  <2>2. TypeOK'
    BY <1>1, <1>5, <2>1 DEF TypeOK, ScreenInv, Panel
  <2>3. CoverInv'
    BY <1>1, <1>5 DEF CoverInv, ScreenInv, Glows, GlowsWith, LitWith, SetBrightness
  <2>4. SliderInv'
    BY <1>1, <1>5, <2>1 DEF SliderInv, Shown, PercentFromRaw
  <2> QED
    BY <2>2, <2>3, <2>4 DEF ScreenInv
<1> QED
  BY <1>2, <1>4, <1>5

\* Panel, cover, slider and the reasons for a dark display agree in every
\* reachable state, whatever writes fail (screen.rs, wiring.rs).
THEOREM ScreenInvariant == Spec => []ScreenInv
<1>1. Init => ScreenInv
  <2> SUFFICES ASSUME Init PROVE ScreenInv
    OBVIOUS
  <2>1. panel \in Panel
    BY BoardFacts DEF Init, Panel
  <2> QED
    BY <2>1 DEF Init, ScreenInv, TypeOK, CoverInv, SliderInv, Default, Excuses
<1>2. ScreenInv /\ [Next]_vars => ScreenInv'
  <2> SUFFICES ASSUME ScreenInv, [Next]_vars PROVE ScreenInv'
    OBVIOUS
  <2>1. CASE ProcessEnds
    BY <2>1 DEF ProcessEnds, ScreenInv, TypeOK, CoverInv, SliderInv, Panel
  <2>2. CASE UNCHANGED vars
    BY <2>2 DEF vars, ScreenInv, TypeOK, CoverInv, SliderInv, Glows, GlowsWith, LitWith,
                SetBrightness, Shown, BrightnessAvailable, Panel, RawFromPercent, PercentFromRaw
  <2> QED
    BY <2>1, <2>2, StartStep, PowerStep, WakeStep, SliderStep DEF Next
<1> QED
  BY <1>1, <1>2, PTL DEF Spec

(* On every display, however coarse, and whichever writes are refused, what *)
(* is dark without the overlay was found dark, has a bl_power that refused  *)
(* to come back, or was set to a percentage that is zero there.            *)
THEOREM NeverDarkUncovered == Spec => []DarkIsCovered
<1>1. ScreenInv => DarkIsCovered
  BY DEF ScreenInv, CoverInv, DarkIsCovered, DarkUncovered
<1> QED
  BY <1>1, ScreenInvariant, PTL

(* Waking restores the brightness the slider tells, whatever was refused    *)
(* while the display went dark, also after a process that was killed so.   *)
THEOREM SliderIsTrue == Spec => []SliderTellsBrightness
<1>1. ScreenInv => SliderTellsBrightness
  BY DEF ScreenInv, SliderInv, Shown, SliderTellsBrightness
<1> QED
  BY <1>1, ScreenInvariant, PTL
=============================================================================
