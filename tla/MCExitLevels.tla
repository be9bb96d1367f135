---------------------------- MODULE MCExitLevels ----------------------------
(* A small instance of ExitLevels with the percentages of settings.py; the *)
(* prices cross the stop, both steps of the trail and the target.          *)
EXTENDS ExitLevels

MCPrices == {88, 92, 97, 100, 107, 109, 113, 121}
MCAtrs == {0, 20, 80}
=============================================================================
