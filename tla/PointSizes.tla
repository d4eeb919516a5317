----------------------------- MODULE PointSizes -----------------------------
(***************************************************************************)
(* The text sizes of the indicators: RecalcTexts, which goes through the   *)
(* texts on the display and keeps the smallest of their sizes for each     *)
(* font size zone, and MaxPointSize, which finds the largest size at which *)
(* a text fits its box by doubling an int until the text is too large and  *)
(* bisecting from there.                                                   *)
(*                                                                         *)
(* A text is [zone, limit]: it fits at the sizes up to its limit.  A text  *)
(* whose font cannot be found is never too large, at any size.  Labels are *)
(* texts of zones of their own: LabelSizes is to them what TextSizes is.   *)
(***************************************************************************)
EXTENDS Integers, Sequences

CONSTANTS
  Zones,    \* keys of TextSizes and LabelSizes
  Top,      \* the largest power of two that an int holds
  Texts     \* the sequences of texts that RecalcTexts comes across

\* The limit of a text without a font.
Endless == -1

Text == [zone : Zones, limit : Endless .. Top - 1]

ASSUME SizesAssumption == Top \in Nat /\ Top >= 2 /\ Texts \subseteq Seq(Text)

VARIABLES
  texts,      \* the texts of this recalculation
  at,         \* the one whose size is searched
  phase,      \* "idle", "doubling" or "bisecting"
  cur,        \* cur_size
  low, high,  \* minSize, maxSize
  sizes       \* TextSizes and LabelSizes; no entry reads as 0

vars == <<texts, at, phase, cur, low, high, sizes>>

Init ==
  /\ texts = <<>> /\ at = 1 /\ phase = "idle"
  /\ cur = 1 /\ low = 0 /\ high = 1 /\ sizes = [z \in Zones |-> 0]

\* CheckPointSize: whether the text is too large at a size
TooLarge(size) == texts[at].limit # Endless /\ size > texts[at].limit

------------------------------------------------------------------------------
(* RecalcTexts *)

\* A search begins with a size of one, if there is a text left.
Search(i) ==
  /\ at' = i /\ cur' = 1 /\ low' = 0 /\ high' = 1
  /\ phase' = IF i \in 1 .. Len(texts') THEN "doubling" ELSE "idle"

\* Something the sizes depend on has changed: they are cleared.
Change ==
  /\ phase = "idle" /\ texts # <<>>
  /\ texts' = <<>> /\ sizes' = [z \in Zones |-> 0]
  /\ Search(1)

\* RecalcTexts of all regions, for what they show now.
Begin ==
  /\ phase = "idle" /\ texts = <<>>
  /\ texts' \in Texts \ {<<>>}
  /\ Search(1)
  /\ UNCHANGED sizes

\* Mutant of Keep: the last size wins.
KeepLast(size) == sizes' = [sizes EXCEPT ![texts[at].zone] = size]

\* The smallest size is kept; 0 is no size.
Keep(size) ==
  sizes' = [sizes EXCEPT ![texts[at].zone] = IF @ = 0 \/ @ > size THEN size ELSE @]

------------------------------------------------------------------------------
(* MaxPointSize *)

\* cur_size doubles until the text is too large.
Double ==
  /\ phase = "doubling" /\ cur \in 1 .. Top - 1
  /\ cur' = 2 * cur
  /\ IF TooLarge(2 * cur) THEN phase' = "bisecting" /\ low' = cur /\ high' = 2 * cur
                          ELSE UNCHANGED <<phase, low, high>>
  /\ UNCHANGED <<texts, at, sizes>>

\* The next doubling overflows the int, which is undefined.  Without
\* optimisation it becomes negative and the loop ends with a size of 0; with
\* the Makefile's -O4 the compiler drops the test cur_size > 0, and the loop
\* goes on with 0 for ever.
Overflow ==
  /\ phase = "doubling" /\ cur \notin 1 .. Top - 1
  /\ \/ cur = Top /\ phase' = "bisecting" /\ cur' = 1 /\ low' = 0 /\ high' = 1
     \/ cur' = 0 /\ UNCHANGED <<phase, low, high>>
  /\ UNCHANGED <<texts, at, sizes>>

\* Mutant of Bisect: minSize is not added.
BisectFromZero ==
  /\ phase = "bisecting" /\ low < high - 1
  /\ cur' = (high - low) \div 2
  /\ IF TooLarge(cur') THEN high' = cur' /\ UNCHANGED low
                       ELSE low' = cur' /\ UNCHANGED high
  /\ UNCHANGED <<texts, at, phase, sizes>>

\* The bounds close in on the largest size that fits.
Bisect ==
  /\ phase = "bisecting" /\ low < high - 1
  /\ cur' = (high - low) \div 2 + low
  /\ IF TooLarge(cur') THEN high' = cur' /\ UNCHANGED low
                       ELSE low' = cur' /\ UNCHANGED high
  /\ UNCHANGED <<texts, at, phase, sizes>>

\* minSize is returned, RecalcTexts takes it and comes to the next text.
Found ==
  /\ phase = "bisecting" /\ low >= high - 1
  /\ UNCHANGED texts
  /\ Keep(low) /\ Search(at + 1)

Step == Double \/ Overflow \/ Bisect \/ Found

Next == Change \/ Begin \/ Step

Spec == Init /\ [][Next]_vars

\* The draw thread goes on with a recalculation it has begun.
FairSpec == Spec /\ WF_vars(Step)

------------------------------------------------------------------------------
(* Properties *)

TypeOK ==
  /\ texts \in Seq(Text)
  /\ at \in 1 .. Len(texts) + 1 /\ phase \in {"idle", "doubling", "bisecting"}
  /\ phase # "idle" => at <= Len(texts)
  /\ cur \in Nat /\ low \in Nat /\ high \in Nat /\ low < high
  /\ sizes \in [Zones -> Nat]

Measurable(i) == texts[i].limit # Endless
OfZone(z) == {i \in 1 .. Len(texts) : texts[i].zone = z}

\* The size of a text alone: the smallest is one, which is never tried.
Largest(i) == IF texts[i].limit = 0 THEN 1 ELSE texts[i].limit

\* "PiClock will find the maximum font size that can still display the text on
\* all indicators" (TallyProtocol.md): the size of a zone with any texts is
\* that of one of them, and no larger than that of any other, whatever the
\* zone's texts and their order.  A text without a font has a size of 0, which
\* counts as no size, so that the text after it decides.
ZoneSizeIsCommon ==
  phase = "idle" => \A z \in Zones :
    (OfZone(z) # {} /\ \A i \in OfZone(z) : Measurable(i)) =>
      /\ \A i \in OfZone(z) : sizes[z] <= Largest(i)
      /\ \E i \in OfZone(z) : sizes[z] = Largest(i)

\* The draw thread comes back from a recalculation of texts that can be
\* measured.
RecalcReturns == (\A i \in 1 .. Len(texts) : Measurable(i)) ~> phase = "idle"

\* "Can go <=0 by overflowing 32-bit int" (nvg_helpers.cpp:220) says why the
\* search ends for texts that cannot.
SearchEnds == phase = "doubling" ~> phase = "idle"
=============================================================================
