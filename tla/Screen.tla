------------------------------- MODULE Screen -------------------------------
(***************************************************************************)
(* The display of the panel: screen.rs and wire_screen (wiring.rs).  The   *)
(* power key of the status bar darkens it, a tap on the black overlay      *)
(* wakes it, a slider of the settings page sets the brightness.  Each is a *)
(* callback on the UI thread that writes several sysfs files, every one of *)
(* which may refuse the write.  The process may be killed and started      *)
(* again; the hardware keeps what was written.                             *)
(***************************************************************************)
EXTENDS Integers

CONSTANTS
    Boards,    \* the displays the program may run on
    Percents   \* what the slider is released at

\* What detect_backend and detect_connector_status find.  A backlight has a
\* brightness of 0..max to write, or bl_power, or both; connectors are the dpms
\* files of the backend "drm", dsi the status files of DSI connectors.  obeys
\* is of the kernel: bl_power has an effect.
ASSUME BoardsAssumption ==
    \A b \in Boards :
        /\ b.backend \in {"none", "backlight", "drm", "fb"}
        /\ b.writable \in BOOLEAN /\ b.power \in BOOLEAN /\ b.readable \in BOOLEAN
        /\ b.obeys \in BOOLEAN /\ b.max \in Nat \ {0}
        /\ (b.writable \/ b.power) <=> b.backend = "backlight"
        /\ (b.connectors # {}) <=> b.backend = "drm"
        /\ \A s \in b.connectors \cup b.dsi : s \notin {"bl_power", "fb"}
        /\ b.connectors \cap b.dsi = {}

\* BRIGHTNESS_MIN_PERCENT and the end of the scale.
ASSUME PercentsAssumption == Percents \subseteq 5..100

Unset == 0      \* no brightness in the store
Default == 80   \* the slider where nothing is known

VARIABLES
    board,
    panel,         \* the hardware, and the brightness the controller remembers
    running,       \* the process is up
    off,           \* ScreenController.off
    screenOff,     \* the overlay is shown
    slider,        \* screen-brightness of the window
    kv,            \* KV_BRIGHTNESS in the store
    excuse         \* history: what this process does not know the display is dark by

vars == <<board, panel, running, off, screenOff, slider, kv, excuse>>

\* powered holds the switches that are on: "bl_power", "fb", connectors.
Switches == {"bl_power", "fb"} \cup UNION { b.connectors \cup b.dsi : b \in Boards }
Panel == [brightness : 0..board.max, powered : SUBSET Switches, saved : 0..board.max]

\* "found": it was dark when the process started; "dropped": waking dropped the
\* error of bl_power; "rounded": the slider was set to what is zero here.
Excuses == {"found", "dropped", "rounded"}

-----------------------------------------------------------------------------
RawFromPercent(p) == (board.max * p + 50) \div 100
PercentFromRaw(r) == (r * 100 + board.max \div 2) \div board.max

Supported == board.backend # "none" \/ board.dsi # {}
BrightnessAvailable == board.backend = "backlight" /\ board.writable

\* What the slider is set to where the hardware is asked.
BrightnessPercent(default) ==
    IF board.backend = "backlight" /\ board.readable
    THEN PercentFromRaw(panel.brightness) ELSE default

\* Whether anything can be seen.  The brightness and bl_power must both be on,
\* but some kernels ignore bl_power (screen.rs:49, 186-187); of several
\* connectors one is enough.
GlowsWith(p) ==
    /\ board.writable => p.brightness > 0
    /\ board.power /\ board.obeys => "bl_power" \in p.powered
    /\ board.backend = "drm" => board.connectors \cap p.powered # {}
    /\ board.backend = "fb" => "fb" \in p.powered
    /\ board.dsi # {} => board.dsi \cap p.powered # {}
Glows == GlowsWith(panel)

\* The reasons end when the display glows.
ExcusedBy(p, reasons) == IF GlowsWith(p) THEN {} ELSE reasons

-----------------------------------------------------------------------------
(* Writing to the hardware: the results each function may have. *)

Result(p, ok) == [to |-> p, ok |-> ok]

Switched(p, names, on) ==
    [p EXCEPT !.powered = IF on THEN @ \cup names ELSE @ \ names]

\* write_all tries every file and succeeds if one write does.
WriteAll(p, paths, on) ==
    { Result(Switched(p, done, on), done # {}) : done \in SUBSET paths }

\* Both files of a backlight: bl_power may be missing, or refuse the write.
WriteBlPower(p, on) == { r.to : r \in WriteAll(p, IF board.power THEN {"bl_power"} ELSE {}, on) }

\* Mutant: what was remembered first is kept.
RememberFirst(p) == IF board.readable /\ p.saved = 0 THEN [p EXCEPT !.saved = p.brightness] ELSE p

Remember(p) == IF board.readable THEN [p EXCEPT !.saved = p.brightness] ELSE p
SetBrightness(p, raw) == [p EXCEPT !.brightness = raw]

\* Mutant: a bl_power that refuses the write is a failure, even when the
\* brightness is zero by then.
PowerOffStrict(p) ==
    IF board.writable
    THEN {Result(Remember(p), FALSE)}
            \cup (IF board.power
                  THEN WriteAll(SetBrightness(Remember(p), 0), {"bl_power"}, FALSE)
                  ELSE {Result(SetBrightness(Remember(p), 0), TRUE)})
    ELSE WriteAll(p, {"bl_power"}, FALSE)

\* The brightness is remembered and set to zero, then bl_power is cut; once
\* the brightness is zero it does not matter if that succeeds.
PowerOff(p) ==
    IF board.writable
    THEN {Result(Remember(p), FALSE)}
            \cup { Result(q, TRUE) : q \in WriteBlPower(SetBrightness(Remember(p), 0), FALSE) }
    ELSE WriteAll(p, {"bl_power"}, FALSE)

RestoreBrightness(p) == IF p.saved = 0 THEN board.max ELSE p.saved

\* Where the brightness can be written the error of bl_power is dropped.
PowerOn(p) ==
    IF board.writable
    THEN UNION { { Result(q, FALSE), Result(SetBrightness(q, RestoreBrightness(q)), TRUE) } :
                    q \in WriteBlPower(p, TRUE) }
    ELSE WriteAll(p, {"bl_power"}, TRUE)

BackendSetOff(p, target) ==
    CASE board.backend = "backlight" -> IF target THEN PowerOff(p) ELSE PowerOn(p)
      [] board.backend = "drm"       -> WriteAll(p, board.connectors, ~target)
      [] board.backend = "fb"        -> WriteAll(p, {"fb"}, ~target)
      [] OTHER                       -> {Result(p, FALSE)}

\* The backlight goes first, then the DSI connectors; either is enough.
Darken ==
    UNION { { Result(d.to, b.ok \/ d.ok) : d \in WriteAll(b.to, board.dsi, FALSE) } :
               b \in BackendSetOff(panel, TRUE) }

\* The connectors come back first, and a failure leaves the backlight dark.
Brighten ==
    UNION { IF board.dsi # {} /\ ~d.ok THEN {d}
            ELSE IF board.backend = "none" THEN {Result(d.to, TRUE)}
            ELSE BackendSetOff(d.to, FALSE) :
               d \in WriteAll(panel, board.dsi, TRUE) }

BlPowerCut(p) == board.power /\ "bl_power" \notin p.powered

SetOff(target, ok) ==
    \E r \in IF target THEN Darken ELSE Brighten :
        /\ panel' = r.to /\ ok = r.ok
        /\ off' = IF ok THEN target ELSE off
        /\ excuse' = IF ok /\ ~target
                     THEN ExcusedBy(r.to, IF BlPowerCut(r.to) THEN {"dropped"} ELSE {})
                     ELSE excuse

-----------------------------------------------------------------------------
Init ==
    /\ board \in Boards
    /\ panel = [brightness |-> board.max, powered |-> Switches, saved |-> 0]
    /\ running = FALSE /\ off = FALSE /\ screenOff = FALSE
    /\ slider = Default /\ kv = Unset /\ excuse = {}

\* ScreenController::new, then the saved brightness is applied if there is
\* one; without one the slider follows the hardware.
Start ==
    LET found == [panel EXCEPT !.saved =
                      IF board.backend = "backlight" /\ board.readable
                      THEN panel.brightness ELSE 0]
        raw == RawFromPercent(kv)
        dark == IF Glows THEN {} ELSE {"found"}
    IN /\ ~running /\ running' = TRUE
       /\ off' = FALSE /\ screenOff' = FALSE
       /\ \/ /\ BrightnessAvailable /\ kv # Unset
             /\ panel' = SetBrightness(found, raw) /\ slider' = kv
             /\ excuse' = ExcusedBy(panel', dark \cup IF raw = 0 THEN {"rounded"} ELSE {})
          \/ /\ panel' = found /\ excuse' = dark
             /\ slider' = IF BrightnessAvailable THEN BrightnessPercent(Default) ELSE Default
       /\ UNCHANGED <<board, kv>>

\* The key of the status bar, which the overlay covers.  Where nothing can
\* be switched the window only says so.
ScreenPowerPressed ==
    /\ running /\ ~screenOff /\ Supported
    /\ \E ok \in BOOLEAN : SetOff(~off, ok) /\ screenOff' = IF ok THEN ~off ELSE off
    /\ UNCHANGED <<board, running, slider, kv>>

\* A tap on the overlay; it stays when waking fails, to be tapped again.
ScreenWake ==
    /\ running /\ screenOff
    /\ \E ok \in BOOLEAN : SetOff(FALSE, ok) /\ screenOff' = (screenOff /\ ~ok)
    /\ UNCHANGED <<board, running, slider, kv>>

\* The slider is released.  While the display is off the value is only
\* remembered; a failure shows what the hardware has; the store may fail.
SetScreenBrightness(percent) ==
    LET raw == RawFromPercent(percent)
    IN /\ running /\ ~screenOff /\ BrightnessAvailable
       /\ \/ /\ panel' = IF off THEN [panel EXCEPT !.saved = raw] ELSE SetBrightness(panel, raw)
             /\ slider' = percent /\ kv' \in {kv, percent}
             /\ excuse' = ExcusedBy(panel', IF raw = 0 THEN excuse \cup {"rounded"}
                                            ELSE excuse \ {"rounded"})
          \/ /\ ~off /\ slider' = BrightnessPercent(percent)
             /\ UNCHANGED <<panel, kv, excuse>>
       /\ UNCHANGED <<board, running, off, screenOff>>

\* The process ends, by the user's hand or otherwise; the display stays as it is.
ProcessEnds ==
    /\ running /\ running' = FALSE
    /\ UNCHANGED <<board, panel, off, screenOff, slider, kv, excuse>>

Next ==
    \/ Start \/ ScreenPowerPressed \/ ScreenWake \/ ProcessEnds
    \/ \E percent \in Percents : SetScreenBrightness(percent)

Spec == Init /\ [][Next]_vars

-----------------------------------------------------------------------------
(* Properties. *)

TypeOK ==
    /\ board \in Boards /\ panel \in Panel
    /\ running \in BOOLEAN /\ off \in BOOLEAN /\ screenOff \in BOOLEAN /\ excuse \subseteq Excuses
    /\ slider \in Nat /\ kv \in Percents \cup {Unset}

DarkUncovered == running /\ ~screenOff /\ ~Glows

\* A display without the overlay can be seen, whichever writes failed: the
\* user never faces a dark panel on which a tap presses a hidden key
\* (wiring.rs:164-166).  There are three ways to one, and no other: a process
\* killed with the display dark is followed by one that does not know, a
\* bl_power that refuses to come back is forgotten, and a coarse backlight
\* takes the lowest percentages for zero.
DarkIsCovered == DarkUncovered => excuse # {}

\* On a display that is on the slider tells the brightness, one being the other
\* rounded, also after it was off, a write failed or a process was killed with
\* the display dark (wiring.rs:178-234, screen.rs:188-191, 222-228).  A slider at
\* what is zero here tells nothing: waking takes the zero for unknown.
SliderTellsBrightness ==
    running /\ ~off /\ BrightnessAvailable /\ board.readable /\ RawFromPercent(slider) > 0 =>
        \/ panel.brightness = RawFromPercent(slider)
        \/ slider = PercentFromRaw(panel.brightness)
=============================================================================
