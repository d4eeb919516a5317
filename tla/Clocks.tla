------------------------------- MODULE Clocks -------------------------------
(***************************************************************************)
(* What a region shows of the time: the digital clock, the hands and the   *)
(* dashes of the analogue clock, and a countdown, its digits, its flashing *)
(* and the text size it was given.  A frame is drawn at every tick.  The   *)
(* time zone is UTC and the system's time is not set while it is watched.  *)
(*                                                                         *)
(* An angle is a number of steps into a circle that has as many steps as   *)
(* the hand's round has ticks: a minute, an hour or twelve hours.          *)
(***************************************************************************)
EXTENDS Integers, Sequences, FiniteSets

CONSTANTS
  Ticks,       \* frames in a second, a multiple of 20 that divides 1000
  Moments,     \* the ticks since 1970-01-01 that are looked at
  Countdowns,  \* the SETCOUNTDOWN messages: [target, limit, daysMode]
  NoLimit,     \* the limit of a countdown without one
  Powers       \* the powers of ten, from 100, that a number may reach

Day == 86400

ASSUME ClocksAssumption ==
  /\ Ticks \in Nat /\ Ticks > 0 /\ Ticks % 20 = 0 /\ 1000 % Ticks = 0 /\ Moments \subseteq Nat
  /\ Countdowns \subseteq [target : Nat, limit : Nat \cup {NoLimit}, daysMode : 0 .. 2]
  /\ NoLimit \notin Nat
  /\ Powers \subseteq Nat /\ \A p \in Powers : p >= 100

VARIABLES
  now,         \* the time the frame took
  countdown,   \* the indicator, a sequence of at most one countdown
  measured,    \* the length of the text its size was found for
  ranOut       \* history: a countdown has passed its target since

vars == <<now, countdown, measured, ranOut>>

------------------------------------------------------------------------------
(* The digital clock *)

FloorSecs(t) == t \div Ticks
Hour(t) == (FloorSecs(t) \div 3600) % 24
Minute(t) == (FloorSecs(t) \div 60) % 60
Second(t) == FloorSecs(t) % 60
Subseconds(t) == t % Ticks

\* FormatTime
TimeText(t) == <<Hour(t), Minute(t), Second(t)>>

------------------------------------------------------------------------------
(* AnalogueClockState::Draw *)

\* The angles of the hands are computed from each other, in that order.
SecPart(t) == Second(t) * Ticks + Subseconds(t)

MoveHandAt == (9 * Ticks) \div 10

\* Mutant of SecondHand: the hand moves at the pace of the seconds.
SecondHandSlow(t, sweep) ==
  CASE sweep -> SecPart(t)
    [] ~sweep /\ Subseconds(t) > MoveHandAt -> SecPart(t) - MoveHandAt
    [] OTHER -> SecPart(t) - Subseconds(t)

\* Unless it sweeps the second hand rests for nine tenths of a second and
\* catches up in the last one.
SecondHand(t, sweep) ==
  CASE sweep -> SecPart(t)
    [] ~sweep /\ Subseconds(t) > MoveHandAt ->
         Second(t) * Ticks + 10 * (Subseconds(t) - MoveHandAt)
    [] OTHER -> Second(t) * Ticks

MinuteHand(t) == Minute(t) * 60 * Ticks + SecPart(t)

HourHand(t) == (Hour(t) % 12) * 3600 * Ticks + MinuteHand(t)

\* Mutant of Whiteness: the colour changes before the second's own dash.
WhitenessEarly(t, i) ==
  CASE i < Second(t) -> 0
    [] i >= Second(t) /\ Second(t) > 0 -> 5
    [] OTHER -> IF 5 * Subseconds(t) > Ticks THEN 5 ELSE (25 * Subseconds(t)) \div Ticks

\* DrawFace_Vector: the white, in fifths, in the i-th dash from the top.  They
\* are red up to the second; all but the first fade to white as a minute begins.
Whiteness(t, i) ==
  CASE i <= Second(t) -> 0
    [] i > Second(t) /\ Second(t) > 0 -> 5
    [] OTHER -> IF 5 * Subseconds(t) > Ticks THEN 5 ELSE (25 * Subseconds(t)) \div Ticks

------------------------------------------------------------------------------
(* CountdownClock *)

CeilDiv(a, b) == -((-a) \div b)
Abs(n) == IF n < 0 THEN -n ELSE n

SecsLeft(t, target) == CeilDiv(target - t, Ticks)
TimeLeft(t, target) == (1000 \div Ticks) * (target - t)

Fields(secs) == <<(secs \div 60) % 60, secs % 60>>

\* Mutant of Text: the hours of the days are counted twice.
TextAllHours(cd, t) ==
  LET secs == Abs(SecsLeft(t, cd.target))
      days == cd.daysMode = 1 \/ (cd.daysMode = 2 /\ secs > Day)
  IN [negative |-> SecsLeft(t, cd.target) < 0,
      fields |-> (IF days THEN <<secs \div Day>> ELSE <<>>)
                   \o <<secs \div 3600>> \o Fields(secs)]

\* The days have a field of their own, always or for more than a day; without
\* it the hours count on.
Text(cd, t) ==
  LET secs == Abs(SecsLeft(t, cd.target))
      days == cd.daysMode = 1 \/ (cd.daysMode = 2 /\ secs > Day)
  IN [negative |-> SecsLeft(t, cd.target) < 0,
      fields |-> (IF days THEN <<secs \div Day, secs \div 3600 % 24>>
                          ELSE <<secs \div 3600>>) \o Fields(secs)]

\* The characters of a number printed with %02lld, and of the whole text
Digits(n) == 2 + Cardinality({p \in Powers : n >= p})
Length(text) == 3 * Len(text.fields) - 2 + Digits(text.fields[1])

\* Mutant of Invert: the sign of the time left is forgotten.
InvertWhenLeft(cd, t) ==
  /\ cd.limit # NoLimit /\ SecsLeft(t, cd.target) <= cd.limit
  /\ TimeLeft(t, cd.target) > 0 /\ TimeLeft(t, cd.target) % 1000 > 500

\* Foreground and background change places.
Invert(cd, t) ==
  /\ cd.limit # NoLimit
  /\ CeilDiv(TimeLeft(t, cd.target), 1000) <= cd.limit
  /\ Abs(TimeLeft(t, cd.target)) % 1000 > 500

------------------------------------------------------------------------------
(* Frames *)

Init ==
  /\ now \in Moments /\ countdown = <<>> /\ measured = 0 /\ ranOut = FALSE

\* RecalcTexts
Recalculate(cds, t) ==
  /\ measured' = IF cds = <<>> THEN 0 ELSE Length(Text(cds[1], t))
  /\ ranOut' = FALSE

\* RecalcDimensions finds a new day of the month, and with it RecalcTexts
\* measures what is shown at that time.
Tick ==
  /\ now + 1 \in Moments /\ now' = now + 1
  /\ IF (now + 1) \div (Day * Ticks) # now \div (Day * Ticks)
       THEN Recalculate(countdown, now')
       ELSE /\ ranOut' = (ranOut \/ (countdown # <<>> /\ now' > countdown[1].target))
            /\ UNCHANGED measured
  /\ UNCHANGED countdown

\* Mutant of SetCountdown: a countdown is taken to be as long as any other.
SetCountdownQuietly ==
  \E cd \in Countdowns :
    /\ countdown' = <<cd>>
    /\ IF countdown = <<>> THEN Recalculate(<<cd>>, now) ELSE UNCHANGED <<measured, ranOut>>
    /\ UNCHANGED now

\* HandleClockMessages compares the lengths of the two texts, not that of the
\* new one with the one that was measured.
SetCountdown ==
  \E cd \in Countdowns :
    /\ countdown' = <<cd>>
    /\ IF countdown = <<>> \/ Length(Text(countdown[1], now)) # Length(Text(cd, now))
         THEN Recalculate(<<cd>>, now)
         ELSE ranOut' = (ranOut \/ now > cd.target) /\ UNCHANGED measured
    /\ UNCHANGED now

Next == Tick \/ SetCountdown

Spec == Init /\ [][Next]_vars

------------------------------------------------------------------------------
(* Properties *)

\* How far a hand has turned forward between two angles of its circle
Turned(from, to, circle) == (to - from) % circle

\* From frame to frame no hand jumps or turns back, over the ends of the
\* minute, the hour, noon and midnight: the second hand turns by at most ten
\* times its average, the others by exactly that.
HandsNeverJump ==
  [][Tick =>
       /\ \A sweep \in BOOLEAN :
            Turned(SecondHand(now, sweep), SecondHand(now', sweep), 60 * Ticks) <= 10
       /\ Turned(MinuteHand(now), MinuteHand(now'), 3600 * Ticks) = 1
       /\ Turned(HourHand(now), HourHand(now'), 43200 * Ticks) = 1]_vars

\* The dashes that the second hand has come to are red, whichever way it moves.
\* Those in front of it only get whiter until the minute ends, and are white when
\* its first second is over.  (How soon they are white in that second is left
\* open: the code, "Fade over half a second" and "Fade red slowly out over first
\* second" are three answers.)
DashesFollowHand ==
  [][Tick => \A i \in 0 .. 59, sweep \in BOOLEAN :
       IF i * Ticks <= SecondHand(now', sweep)
         THEN Whiteness(now', i) = 0
         ELSE /\ SecPart(now') > SecPart(now) => Whiteness(now', i) >= Whiteness(now, i)
              /\ SecPart(now') >= Ticks => Whiteness(now', i) = 5]_vars

\* The seconds a text says are left
Reading(text) ==
  LET f == text.fields
      secs == IF Len(f) = 4 THEN Day * f[1] + 3600 * f[2] + 60 * f[3] + f[4]
                            ELSE 3600 * f[1] + 60 * f[2] + f[3]
  IN IF text.negative THEN -secs ELSE secs

SecondOfDay(fields) == 3600 * fields[1] + 60 * fields[2] + fields[3]

\* A countdown to a whole second and the digital clock change their digits in
\* the same frame and always add up to the target, before it and after it and
\* in each way to show the days, although one rounds up and the other down.
DigitsAgree ==
  (countdown # <<>> /\ countdown[1].target % Ticks = 0) =>
    Reading(Text(countdown[1], now)) + SecondOfDay(TimeText(now))
      = FloorSecs(countdown[1].target) - Day * (FloorSecs(now) \div Day)

\* "when flash seconds are left before the target time, the indicator will
\* start to flash" (TallyProtocol.md): it never does before its digits say so,
\* and from then on both ways of showing it come within a second and a frame,
\* also on both sides of the target, where the phase turns over.
FlashesFromLimit ==
  (countdown # <<>> /\ countdown[1].limit # NoLimit) =>
    LET cd == countdown[1]
        soon == now .. now + Ticks + 1
        due == Reading(Text(cd, now)) <= cd.limit
    IN /\ Invert(cd, now) => due
       /\ due => (\E t \in soon : Invert(cd, t)) /\ (\E t \in soon : ~Invert(cd, t))

\* "PiClock will find the maximum font size that can still display the text":
\* the size of a countdown was found for a text at least as long as what it
\* shows, although its text changes all the time and is measured again only at
\* midnight or when a new text differs in length from the old one.  It ends when
\* a countdown has passed its target: its text grows again, and a new one that
\* is as long as this is not measured either.
FitsUntilTarget ==
  (countdown # <<>> /\ ~ranOut /\ now <= countdown[1].target) =>
    Length(Text(countdown[1], now)) <= measured
=============================================================================
