--------------------------- MODULE MCImageScaling ---------------------------
(* ImageScaling for TLC: one image, two sizes. *)
EXTENDS ImageScaling

CONSTANTS g1, g2

BothGeoms == {g1, g2}
=============================================================================
