--------------------------- MODULE MCStateStream ---------------------------
(* Instances of StateStream for TLC: a sensor and a button.                *)
EXTENDS StateStream

CONSTANTS sensor, button

SensorAndButton == {sensor, button}
Buttons == {button}
=============================================================================
