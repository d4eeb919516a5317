-------------------------- MODULE MCLocalCommands --------------------------
(* Two inputs of which each sets an indicator of its own, and both a third; *)
(* a third input has a wrong command, and so has one of two files.           *)
EXTENDS LocalCommands

CONSTANTS c1, c2, both, on, off, old

To(c, t) == [outcome |-> "message", cell |-> c, text |-> t]
Ignored == [outcome |-> "none", cell |-> both, text |-> old]
Wrong == [outcome |-> "exception", cell |-> both, text |-> old]

On == <<<<To(c1, on), To(both, on)>>, <<Ignored, To(c2, on), To(both, old)>>, <<To(both, on), Wrong>>>>
Off == <<<<To(both, off), To(c1, off)>>, <<To(c2, old), To(c2, off)>>, <<>>>>
Lines == <<To(c1, old), Ignored, To(both, old), Wrong, To(c2, old)>>
TwoFiles == {Lines, <<To(c2, old), Ignored>>}
=============================================================================
