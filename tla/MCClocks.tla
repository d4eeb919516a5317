------------------------------ MODULE MCClocks ------------------------------
(* Three seconds around each of the times at which a display turns over.   *)
EXTENDS Clocks

Midnight == 5 * Day
Noon == Midnight + Day \div 2
Target == Noon + 1800

\* the ends of a day, a half, an hour and a minute; the target, and a day and
\* a hundred hours on both sides of it
Seconds == {Midnight, Noon, Midnight + 3600, Midnight + 60}
             \cup {Target + d : d \in {0, Day, -Day, 360000, -360000}}

\* as many digits as TLC computes with
PowersOfTen == {10 ^ k : k \in 2 .. 9}

AllMoments == UNION {s * Ticks - Ticks .. s * Ticks + 2 * Ticks : s \in Seconds}

SomeCountdowns ==
  [target : {Target * Ticks, (Target + 3 * Day) * Ticks, Target * Ticks + Ticks \div 4},
   limit : {2}, daysMode : 0 .. 2]
  \cup [target : {Target * Ticks}, limit : {NoLimit}, daysMode : {0}]
=============================================================================
