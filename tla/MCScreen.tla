------------------------------ MODULE MCScreen ------------------------------
(* Displays with every way of being switched, two DSI connectors, kernels    *)
(* that ignore bl_power and a backlight of eight steps.                      *)
EXTENDS Screen

Board(backend, writable, power, readable, obeys, max, connectors, dsi) ==
    [backend |-> backend, writable |-> writable, power |-> power, readable |-> readable,
     obeys |-> obeys, max |-> max, connectors |-> connectors, dsi |-> dsi]
Other(backend, connectors, dsi) ==
    Board(backend, FALSE, FALSE, FALSE, FALSE, 1, connectors, dsi)
MCBoards ==
    { Board("backlight", TRUE, p, r, o, m, {}, d) :
        p \in BOOLEAN, r \in BOOLEAN, o \in BOOLEAN, m \in {7, 255},
        d \in {{}, {"DSI-1", "DSI-2"}} }
    \cup { Board("backlight", FALSE, TRUE, TRUE, o, 255, {}, d) :
             o \in BOOLEAN, d \in {{}, {"DSI-1"}} }
    \cup { Other("drm", {"HDMI-A-1", "HDMI-A-2"}, {"DSI-1"}), Other("fb", {}, {}),
           Other("none", {}, {"DSI-1", "DSI-2"}), Other("none", {}, {}) }
MCPercents == {5, 50, 100}
=============================================================================
