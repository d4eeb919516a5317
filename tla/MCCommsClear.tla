---------------------------- MODULE MCCommsClear ----------------------------
(* CommsClear for TLC. *)
EXTENDS CommsClear
==============================================================================
