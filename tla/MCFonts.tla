------------------------------- MODULE MCFonts -------------------------------
(* Two names, a narrow and a wide font; labels that fit each of them, one of *)
(* them or none, and one that has no room for its first character.           *)
EXTENDS Fonts

CONSTANTS n1, n2, narrow, wide

Widths == [f \in {narrow, wide, Serif, Sans, Mono, None} |->
             CASE f = wide -> 5 [] f = None -> 0 [] f = narrow -> 2 [] OTHER -> 3]

SomeLabels == {[text |-> "Studio 1", length |-> 4, room |-> 13],
               [text |-> "Studio 1", length |-> 4, room |-> 4]}

Ask(tally, label) ==
  [r \in Roles |-> CASE r = "tally" -> tally [] r = "tally_label" -> label [] OTHER -> None]
Asks == {Ask(n1, None), Ask(n2, n1), Ask(None, n2), Ask(None, None)}
=============================================================================
