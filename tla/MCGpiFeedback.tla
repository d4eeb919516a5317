---------------------------- MODULE MCGpiFeedback ----------------------------
(* GpiFeedback for TLC. *)
EXTENDS GpiFeedback
==============================================================================
