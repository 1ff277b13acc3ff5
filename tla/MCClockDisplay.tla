--------------------------- MODULE MCClockDisplay ---------------------------
(* Instances of ClockDisplay for TLC: every code has a mask of its own.    *)
EXTENDS ClockDisplay

MCFont == [c \in Codes |-> c + 1]
MCIpText == <<3>>
=============================================================================
