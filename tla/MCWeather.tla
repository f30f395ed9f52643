----------------------------- MODULE MCWeather ------------------------------
(* Two cities, and three changes of the settings.                            *)
EXTENDS Weather
=============================================================================
