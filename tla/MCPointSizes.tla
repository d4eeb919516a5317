---------------------------- MODULE MCPointSizes ----------------------------
(* PointSizes for TLC: every sequence of up to three texts of two zones.   *)
EXTENDS PointSizes

CONSTANTS Longest

AllTexts == UNION {[1 .. n -> Text] : n \in 0 .. Longest}
=============================================================================
