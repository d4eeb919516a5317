----------------------------- MODULE ClocksProofs -----------------------------
(***************************************************************************)
(* The clock faces and the countdown, for every Ticks of the assumption,   *)
(* every time since 1970 and every countdown.  A time t is Ticks times its *)
(* seconds, FloorSecs(t), and a rest, Subseconds(t); everything on the     *)
(* display is computed from these two.                                     *)
(***************************************************************************)
EXTENDS Clocks, FiniteSetTheorems, TLAPS

------------------------------------------------------------------------------
(* Division *)

\* Multiples of c lie at least c apart.
LEMMA Product ==
  ASSUME NEW c \in Nat, NEW p \in Int, NEW q \in Int, p < q
  PROVE  c * p \in Int /\ c * q \in Int /\ c * p + c <= c * q
<1>1. c * p \in Int /\ c * q \in Int /\ c * (q - p - 1) >= 0
  OBVIOUS
<1>2. c * (q - p - 1) = c * q - c * p - c
  OBVIOUS
<1> QED BY <1>1, <1>2

\* Division with a divisor that is not a numeral
LEMMA DivMod ==
  ASSUME NEW a \in Int, NEW c \in Nat, c > 0
  PROVE  /\ a \div c \in Int /\ a % c \in 0 .. c - 1
         /\ a = c * (a \div c) + (a % c)
OBVIOUS

\* A quotient and a remainder are the only ones.
LEMMA DivUnique ==
  ASSUME NEW a \in Int, NEW c \in Nat, c > 0,
         NEW q \in Int, NEW r \in 0 .. c - 1, a = c * q + r
  PROVE  a \div c = q /\ a % c = r
<1>1. /\ a \div c \in Int /\ a % c \in 0 .. c - 1
      /\ a = c * (a \div c) + (a % c)
  BY DivMod
<1>2. \A p, s : p \in Int /\ s \in 0 .. c - 1 /\ a = c * p + s => p = q /\ s = r
  <2> TAKE p, s
  <2> HAVE p \in Int /\ s \in 0 .. c - 1 /\ a = c * p + s
  <2>1. CASE p < q
    BY <2>1, Product
  <2>2. CASE q < p
    BY <2>2, Product
  <2>3. CASE p = q
    BY <2>3
  <2> QED BY <2>1, <2>2, <2>3
<1> QED BY <1>1, <1>2

\* A quotient grows with its dividend.
LEMMA DivGrows ==
  ASSUME NEW c \in Nat, c > 0, NEW a \in Int, NEW b \in Int, a <= b
  PROVE  a \div c \in Int /\ b \div c \in Int /\ a \div c <= b \div c
<1> DEFINE p == b \div c
           q == a \div c
<1>1. /\ p \in Int /\ \E r \in 0 .. c - 1 : b = c * p + r
      /\ q \in Int /\ \E r \in 0 .. c - 1 : a = c * q + r
  BY DivMod
<1> HIDE DEF p, q
<1>2. p < q => c * p + c <= c * q /\ c * p \in Int /\ c * q \in Int
  BY <1>1, Product
<1>3. ~ (p < q)
  BY <1>1, <1>2
<1> QED BY <1>1, <1>3 DEF p, q

\* A turn of less than a whole circle is its own remainder, also over the end
\* of the circle.
LEMMA Wrap ==
  ASSUME NEW c \in Nat, c > 0, NEW d \in 0 .. c - 1
  PROVE  d % c = d /\ (d - c) % c = d
<1>1. d = c * 0 + d /\ d - c = c * (-1) + d
  OBVIOUS
<1>2. d % c = d
  BY <1>1, DivUnique
<1>3. d - c \in Int /\ -1 \in Int
  OBVIOUS
<1>4. (d - c) % c = d
  BY <1>1, <1>3, DivUnique
<1> QED BY <1>2, <1>4

\* The next number is the next on its circle.
LEMMA NextOnCircle ==
  ASSUME NEW c \in Nat, c > 0, NEW s \in Nat
  PROVE  /\ s % c \in 0 .. c - 1 /\ s \div c \in Nat
         /\ \/ s % c < c - 1 /\ (s + 1) % c = (s % c) + 1 /\ (s + 1) \div c = s \div c
            \/ s % c = c - 1 /\ (s + 1) % c = 0 /\ (s + 1) \div c = (s \div c) + 1
<1> DEFINE q == s \div c
           r == s % c
<1>1. q \in Int /\ r \in 0 .. c - 1 /\ s = c * q + r
  BY DivMod
<1>2. q \in Nat
  <2>1. CASE q < 0
    <3>1. c * q + c <= c * 0
      BY <1>1, <2>1, Product
    <3>2. c * q \in Int
      BY <1>1
    <3> HIDE DEF q, r
    <3> QED BY <1>1, <3>1, <3>2
  <2> QED BY <1>1, <2>1
<1> HIDE DEF q, r
<1>3. CASE r < c - 1
  <2>1. s + 1 = c * q + (r + 1) /\ r + 1 \in 0 .. c - 1
    BY <1>1, <1>3
  <2>2. (s + 1) \div c = q /\ (s + 1) % c = r + 1
    BY <1>1, <2>1, DivUnique
  <2> QED BY <1>1, <1>2, <1>3, <2>2 DEF q, r
<1>4. CASE r = c - 1
  <2>1. s + 1 = c * (q + 1) + 0 /\ q + 1 \in Int
    BY <1>1, <1>4
  <2>2. (s + 1) \div c = q + 1 /\ (s + 1) % c = 0
    BY <1>1, <2>1, DivUnique
  <2> QED BY <1>1, <1>2, <1>4, <2>2 DEF q, r
<1> QED BY <1>1, <1>3, <1>4

------------------------------------------------------------------------------
(* Times *)

\* What is known of the number of frames in a second
LEMMA TicksFacts ==
  /\ Ticks \in Nat /\ Ticks >= 20
  /\ \E k \in Nat : k > 0 /\ Ticks = 20 * k /\ MoveHandAt = 18 * k
<1>1. Ticks \in Nat /\ Ticks > 0 /\ Ticks % 20 = 0
  BY ClocksAssumption DEF ClocksAssumption
<1> DEFINE k == Ticks \div 20
<1>2. k \in Nat /\ k > 0 /\ Ticks = 20 * k
  BY <1>1
<1>3. (9 * Ticks) \div 10 = 18 * k
  BY <1>1
<1>4. MoveHandAt = 18 * k /\ Ticks >= 20
  BY <1>2, <1>3 DEF MoveHandAt
<1> HIDE DEF k
<1> QED BY <1>1, <1>2, <1>4

\* A time and the parts it is shown in
LEMMA Parts ==
  ASSUME NEW t \in Nat
  PROVE  /\ FloorSecs(t) \in Nat /\ Subseconds(t) \in 0 .. Ticks - 1
         /\ t = Ticks * FloorSecs(t) + Subseconds(t)
         /\ Second(t) \in 0 .. 59 /\ Minute(t) \in 0 .. 59 /\ Hour(t) \in 0 .. 23
<1>1. /\ FloorSecs(t) \in Nat /\ Subseconds(t) \in 0 .. Ticks - 1
      /\ t = Ticks * FloorSecs(t) + Subseconds(t)
  <2>1. Ticks \in Nat /\ Ticks > 0 /\ t \in Int
    BY TicksFacts
  <2>2. t % Ticks \in 0 .. Ticks - 1 /\ t \div Ticks \in Nat
    BY <2>1, NextOnCircle
  <2>3. t = Ticks * (t \div Ticks) + (t % Ticks)
    BY <2>1, DivMod
  <2> QED BY <2>2, <2>3 DEF FloorSecs, Subseconds
<1> QED BY <1>1 DEF Second, Minute, Hour

\* From one frame to the next
LEMMA NextFrame ==
  ASSUME NEW t \in Nat
  PROVE  \/ FloorSecs(t + 1) = FloorSecs(t) /\ Subseconds(t + 1) = Subseconds(t) + 1
         \/ /\ Subseconds(t) = Ticks - 1
            /\ FloorSecs(t + 1) = FloorSecs(t) + 1 /\ Subseconds(t + 1) = 0
BY TicksFacts, NextOnCircle DEF FloorSecs, Subseconds

------------------------------------------------------------------------------
(* The hands *)

\* The angle of a hand that moves evenly and goes round in c seconds
Even(t, c) == Ticks * (FloorSecs(t) % c) + Subseconds(t)

\* It turns by one step a frame.
LEMMA EvenTurns ==
  ASSUME NEW t \in Nat, NEW c \in Nat, c > 0
  PROVE  Turned(Even(t, c), Even(t + 1, c), c * Ticks) = 1
<1> DEFINE r == FloorSecs(t) % c
           r1 == FloorSecs(t + 1) % c
           u == Subseconds(t)
           u1 == Subseconds(t + 1)
<1>1. /\ Ticks \in Nat /\ Ticks >= 20 /\ r \in 0 .. c - 1 /\ u \in 0 .. Ticks - 1
      /\ \/ r1 = r /\ u1 = u + 1
         \/ r1 = r + 1 /\ u1 = 0 /\ u = Ticks - 1
         \/ r1 = 0 /\ r = c - 1 /\ u1 = 0 /\ u = Ticks - 1
  <2>1. /\ Ticks \in Nat /\ Ticks >= 20 /\ FloorSecs(t) \in Nat /\ u \in 0 .. Ticks - 1
    BY TicksFacts, Parts
  <2>2. /\ r \in 0 .. c - 1
        /\ \/ (FloorSecs(t) + 1) % c = r + 1
           \/ r = c - 1 /\ (FloorSecs(t) + 1) % c = 0
    BY <2>1, NextOnCircle
  <2>3. \/ FloorSecs(t + 1) = FloorSecs(t) /\ u1 = u + 1
        \/ u = Ticks - 1 /\ FloorSecs(t + 1) = FloorSecs(t) + 1 /\ u1 = 0
    BY NextFrame
  <2> QED BY <2>1, <2>2, <2>3
<1>2. c * Ticks \in Nat /\ c * Ticks > 1
  <2>1. Ticks * 0 + Ticks <= Ticks * c
    BY <1>1, Product
  <2> QED BY <1>1, <2>1
<1> HIDE DEF r, r1, u, u1
<1>3. \/ (Ticks * r1 + u1) - (Ticks * r + u) = 1
      \/ (Ticks * r1 + u1) - (Ticks * r + u) = 1 - c * Ticks
  BY <1>1
<1>4. 1 % (c * Ticks) = 1 /\ (1 - c * Ticks) % (c * Ticks) = 1
  BY <1>2, Wrap
<1> QED BY <1>3, <1>4 DEF Even, Turned, r, r1, u, u1

\* The hands of the minute and the hour, and the second hand when it sweeps,
\* move evenly.
LEMMA EvenHands ==
  ASSUME NEW t \in Nat
  PROVE  SecPart(t) = Even(t, 60) /\ MinuteHand(t) = Even(t, 3600) /\ HourHand(t) = Even(t, 43200)
<1> DEFINE S == FloorSecs(t)
<1>1. Ticks \in Nat /\ S \in Nat /\ Subseconds(t) \in Nat
  BY TicksFacts, Parts
<1>2. SecPart(t) = Even(t, 60)
  BY <1>1 DEF SecPart, Second, Even
<1>3. MinuteHand(t) = Even(t, 3600)
  <2>1. S % 3600 = Minute(t) * 60 + Second(t) /\ Minute(t) \in Nat /\ Second(t) \in Nat
    BY <1>1 DEF Minute, Second
  <2>2. MinuteHand(t) = Minute(t) * 60 * Ticks + (Second(t) * Ticks + Subseconds(t))
    BY DEF MinuteHand, SecPart
  <2>3. Even(t, 3600) = Ticks * (Minute(t) * 60 + Second(t)) + Subseconds(t)
    BY <2>1 DEF Even
  <2> QED BY <1>1, <2>1, <2>2, <2>3
<1>4. HourHand(t) = Even(t, 43200)
  <2>1. /\ S % 43200 = (Hour(t) % 12) * 3600 + (S % 3600)
        /\ Hour(t) % 12 \in Nat /\ S % 3600 \in Nat
    BY <1>1 DEF Hour
  <2>2. HourHand(t) = (Hour(t) % 12) * 3600 * Ticks + (Ticks * (S % 3600) + Subseconds(t))
    BY <1>3 DEF HourHand, Even
  <2>3. Even(t, 43200) = Ticks * ((Hour(t) % 12) * 3600 + (S % 3600)) + Subseconds(t)
    BY <2>1 DEF Even
  <2> QED BY <1>1, <2>1, <2>2, <2>3
<1> QED BY <1>2, <1>3, <1>4

\* How far the resting second hand has moved within its second
Catch(t) == IF Subseconds(t) > MoveHandAt THEN 10 * (Subseconds(t) - MoveHandAt) ELSE 0

\* It rests, then catches up ten steps at a time.
LEMMA RestingHand ==
  ASSUME NEW t \in Nat
  PROVE  /\ SecondHand(t, FALSE) = Second(t) * Ticks + Catch(t)
         /\ SecondHand(t, TRUE) = Second(t) * Ticks + Subseconds(t)
         /\ Catch(t) \in 0 .. Ticks - 10
         /\ Subseconds(t) = Ticks - 1 => Catch(t) = Ticks - 10
         /\ Subseconds(t + 1) = Subseconds(t) + 1 => Catch(t + 1) - Catch(t) \in 0 .. 10
         /\ Subseconds(t + 1) = 0 => Catch(t + 1) = 0
<1>1. PICK k \in Nat : k > 0 /\ Ticks = 20 * k /\ MoveHandAt = 18 * k
  BY TicksFacts
<1>2. Subseconds(t) \in 0 .. Ticks - 1 /\ Second(t) \in 0 .. 59
  BY Parts
<1>3. SecondHand(t, TRUE) = Second(t) * Ticks + Subseconds(t)
  BY DEF SecondHand, SecPart
<1>4. SecondHand(t, FALSE) = Second(t) * Ticks + Catch(t)
  BY <1>1, <1>2 DEF SecondHand, Catch
<1>5. Catch(t) \in 0 .. Ticks - 10
  BY <1>1, <1>2 DEF Catch
<1>6. Subseconds(t) = Ticks - 1 => Catch(t) = Ticks - 10
  BY <1>1, <1>2 DEF Catch
<1>7. Subseconds(t + 1) = Subseconds(t) + 1 => Catch(t + 1) - Catch(t) \in 0 .. 10
  BY <1>1, <1>2 DEF Catch
<1>8. Subseconds(t + 1) = 0 => Catch(t + 1) = 0
  BY <1>1 DEF Catch
<1> QED BY <1>3, <1>4, <1>5, <1>6, <1>7, <1>8

\* Sweeping or resting, it never turns by more than that.
LEMMA SecondHandTurns ==
  ASSUME NEW t \in Nat, NEW sweep \in BOOLEAN
  PROVE  Turned(SecondHand(t, sweep), SecondHand(t + 1, sweep), 60 * Ticks) <= 10
<1>1. t + 1 \in Nat /\ Ticks \in Nat /\ Ticks >= 20
  BY TicksFacts
<1>2. CASE sweep
  <2>1. SecondHand(t, sweep) = Even(t, 60) /\ SecondHand(t + 1, sweep) = Even(t + 1, 60)
    BY <1>1, <1>2, EvenHands DEF SecondHand
  <2>2. Turned(Even(t, 60), Even(t + 1, 60), 60 * Ticks) = 1
    BY EvenTurns
  <2> QED BY <2>1, <2>2
<1>3. CASE ~ sweep
  <2> DEFINE s == Second(t)
             s1 == Second(t + 1)
             v == Catch(t)
             v1 == Catch(t + 1)
             d == (s1 * Ticks + v1) - (s * Ticks + v)
  <2>1. \/ s1 = s /\ v1 - v \in 0 .. 10
        \/ s1 = s + 1 /\ v1 = 0 /\ v = Ticks - 10
        \/ s1 = 0 /\ s = 59 /\ v1 = 0 /\ v = Ticks - 10
    <3>1. FloorSecs(t) \in Nat
      BY Parts
    <3>2. \/ FloorSecs(t + 1) = FloorSecs(t) /\ v1 - v \in 0 .. 10
          \/ FloorSecs(t + 1) = FloorSecs(t) + 1 /\ v1 = 0 /\ v = Ticks - 10
      BY NextFrame, RestingHand
    <3> HIDE DEF v, v1
    <3> QED BY <3>1, <3>2 DEF Second
  <2>2. s \in 0 .. 59 /\ s1 \in 0 .. 59 /\ v \in Int /\ v1 \in Int
    <3>1. s \in 0 .. 59 /\ s1 \in 0 .. 59
      BY <1>1, Parts
    <3>2. v \in 0 .. Ticks - 10 /\ v1 \in 0 .. Ticks - 10
      BY <1>1, RestingHand
    <3> QED BY <1>1, <3>1, <3>2
  <2>3. \E e \in 0 .. 10 : d = e \/ d = e - 60 * Ticks
    <3> HIDE DEF s, s1, v, v1
    <3>1. d \in 0 .. 10 \/ d = 10 - 60 * Ticks
      BY <1>1, <2>1, <2>2
    <3> QED BY <3>1
  <2>4. \A e \in 0 .. 10 : e % (60 * Ticks) = e /\ (e - 60 * Ticks) % (60 * Ticks) = e
    BY <1>1, Wrap
  <2>5. SecondHand(t, sweep) = s * Ticks + v /\ SecondHand(t + 1, sweep) = s1 * Ticks + v1
    BY <1>1, <1>3, RestingHand
  <2> HIDE DEF s, s1, v, v1
  <2> QED BY <2>3, <2>4, <2>5 DEF Turned
<1> QED BY <1>2, <1>3

------------------------------------------------------------------------------
(* The dashes *)

\* A dash that the hand has come to is one of the seconds that are over or of
\* the one that runs.
LEMMA DashReached ==
  ASSUME NEW t \in Nat, NEW i \in 0 .. 59, NEW v \in 0 .. Ticks - 1
  PROVE  i * Ticks <= Second(t) * Ticks + v <=> i <= Second(t)
<1> DEFINE s == Second(t)
<1>1. s \in 0 .. 59 /\ Ticks \in Nat
  BY TicksFacts, Parts
<1> HIDE DEF s
<1>2. CASE i <= s
  <2>1. i < s => Ticks * i + Ticks <= Ticks * s
    BY <1>1, Product
  <2> QED BY <1>1, <1>2, <2>1 DEF s
<1>3. CASE s < i
  <2>1. Ticks * s + Ticks <= Ticks * i
    BY <1>1, <1>3, Product
  <2>2. ~ (i * Ticks <= s * Ticks + v)
    BY <1>1, <2>1
  <2> QED BY <1>1, <1>3, <2>2 DEF s
<1> QED BY <1>1, <1>2, <1>3

\* The hand is within the second whose dash is the last red one.
LEMMA HandReached ==
  ASSUME NEW t \in Nat, NEW i \in 0 .. 59, NEW sweep \in BOOLEAN
  PROVE  i * Ticks <= SecondHand(t, sweep) <=> i <= Second(t)
<1>t. /\ Ticks \in Nat /\ Ticks >= 20 /\ Second(t) \in 0 .. 59
      /\ Subseconds(t) \in 0 .. Ticks - 1
  BY TicksFacts, Parts
<1>1. PICK v \in 0 .. Ticks - 1 : SecondHand(t, sweep) = Second(t) * Ticks + v
  <2>1. Catch(t) \in 0 .. Ticks - 1
    <3>1. Catch(t) \in 0 .. Ticks - 10
      BY RestingHand
    <3> QED BY <1>t, <3>1
  <2> QED BY <1>t, <2>1, RestingHand
<1> QED BY <1>1, DashReached

\* The white in a dash is a number of fifths.
LEMMA FifthsOfWhite ==
  ASSUME NEW t \in Nat, NEW i \in 0 .. 59
  PROVE  Whiteness(t, i) \in 0 .. 5
<1>t. /\ Ticks \in Nat /\ Ticks >= 20 /\ Second(t) \in 0 .. 59
      /\ Subseconds(t) \in 0 .. Ticks - 1
  BY TicksFacts, Parts
<1>1. ASSUME 5 * Subseconds(t) <= Ticks
      PROVE  (25 * Subseconds(t)) \div Ticks \in 0 .. 5
  <2>1. 0 <= 25 * Subseconds(t) /\ 25 * Subseconds(t) <= 5 * Ticks
    BY <1>1, <1>t
  <2>2. 0 = Ticks * 0 + 0 /\ 5 * Ticks = Ticks * 5 + 0 /\ 5 * Ticks \in Int
    BY <1>t
  <2>3. 0 \div Ticks = 0 /\ (5 * Ticks) \div Ticks = 5
    BY <1>t, <2>2, DivUnique
  <2>4. 25 * Subseconds(t) \in Int
    BY <1>t
  <2> QED BY <1>t, <2>1, <2>2, <2>3, <2>4, DivGrows
<1> QED BY <1>t, <1>1 DEF Whiteness

\* A dash that the second has not come to gets whiter with the time of a minute.
LEMMA DashesWhiten ==
  ASSUME NEW t \in Nat, NEW i \in 0 .. 59,
         SecPart(t + 1) > SecPart(t), i > Second(t + 1)
  PROVE  Whiteness(t + 1, i) >= Whiteness(t, i)
<1>t. /\ Ticks \in Nat /\ Ticks >= 20 /\ t + 1 \in Nat
      /\ Second(t) \in 0 .. 59 /\ Subseconds(t) \in 0 .. Ticks - 1
      /\ Second(t + 1) \in 0 .. 59 /\ Subseconds(t + 1) \in 0 .. Ticks - 1
  BY TicksFacts, Parts
<1>w. Whiteness(t, i) \in 0 .. 5
  BY FifthsOfWhite
<1>1. CASE Second(t + 1) > 0
  BY <1>1, <1>t, <1>w DEF Whiteness
<1>2. CASE Second(t + 1) = 0
  <2>1. Second(t) * Ticks + Subseconds(t) < Subseconds(t + 1)
    BY <1>2, <1>t DEF SecPart
  <2>2. Second(t) > 0 => Ticks * 0 + Ticks <= Ticks * Second(t)
    BY <1>t, Product
  <2>3. Second(t) = 0 /\ Subseconds(t) <= Subseconds(t + 1)
    BY <1>t, <2>1, <2>2
  <2>4. CASE 5 * Subseconds(t + 1) > Ticks
    BY <1>2, <1>t, <1>w, <2>4 DEF Whiteness
  <2>5. CASE 5 * Subseconds(t + 1) <= Ticks
    <3>1. /\ 25 * Subseconds(t) \in Int /\ 25 * Subseconds(t + 1) \in Int
          /\ 25 * Subseconds(t) <= 25 * Subseconds(t + 1) /\ 5 * Subseconds(t) <= Ticks
      BY <1>t, <2>3, <2>5
    <3>2. /\ (25 * Subseconds(t)) \div Ticks \in Int /\ (25 * Subseconds(t + 1)) \div Ticks \in Int
          /\ (25 * Subseconds(t)) \div Ticks <= (25 * Subseconds(t + 1)) \div Ticks
      BY <1>t, <3>1, DivGrows
    <3>3. Whiteness(t, i) = (25 * Subseconds(t)) \div Ticks
      BY <1>2, <1>t, <2>3, <3>1 DEF Whiteness
    <3>4. Whiteness(t + 1, i) = (25 * Subseconds(t + 1)) \div Ticks
      BY <1>2, <1>t, <2>5 DEF Whiteness
    <3> QED BY <3>2, <3>3, <3>4
  <2> QED BY <1>t, <2>4, <2>5
<1> QED BY <1>t, <1>1, <1>2

\* Once a second of the minute has passed it is white.
LEMMA DashesAreWhite ==
  ASSUME NEW t \in Nat, NEW i \in 0 .. 59, SecPart(t) >= Ticks, i > Second(t)
  PROVE  Whiteness(t, i) = 5
<1>1. /\ Ticks \in Nat /\ Second(t) \in 0 .. 59 /\ Subseconds(t) \in 0 .. Ticks - 1
  BY TicksFacts, Parts
<1>2. Second(t) > 0
  BY <1>1 DEF SecPart
<1> QED BY <1>1, <1>2 DEF Whiteness

------------------------------------------------------------------------------
(* The countdown *)

\* Rounding up
LEMMA CeilUnique ==
  ASSUME NEW a \in Int, NEW c \in Nat, c > 0,
         NEW q \in Int, NEW r \in 0 .. c - 1, a = c * q - r
  PROVE  CeilDiv(a, c) = q
<1>1. -a = c * (-q) + r /\ -a \in Int /\ -q \in Int
  OBVIOUS
<1>2. (-a) \div c = -q
  BY <1>1, DivUnique
<1> QED BY <1>2 DEF CeilDiv

\* The seconds left are the distance to the target, rounded up.
LEMMA SecsLeftParts ==
  ASSUME NEW t \in Nat, NEW target \in Nat
  PROVE  /\ SecsLeft(t, target) \in Int
         /\ \E r \in 0 .. Ticks - 1 : target - t = Ticks * SecsLeft(t, target) - r
<1> DEFINE a == -(target - t)
           q == a \div Ticks
           r == a % Ticks
<1>1. Ticks \in Nat /\ Ticks > 0 /\ a \in Int
  BY TicksFacts
<1>2. q \in Int /\ r \in 0 .. Ticks - 1 /\ a = Ticks * q + r
  BY <1>1, DivMod
<1>3. SecsLeft(t, target) = -q
  BY DEF SecsLeft, CeilDiv
<1>4. target - t = Ticks * (-q) - r
  <2> HIDE DEF q, r
  <2> QED BY <1>1, <1>2
<1> HIDE DEF q, r
<1> QED BY <1>2, <1>3, <1>4

\* Putting two parts of a text together
LEMMA JoinFields ==
  ASSUME NEW a \in Int, NEW b \in Int, NEW c \in Int, NEW d \in Int
  PROVE  /\ Len(<<a>> \o <<c, d>>) = 3
         /\ (<<a>> \o <<c, d>>)[1] = a
         /\ (<<a>> \o <<c, d>>)[2] = c /\ (<<a>> \o <<c, d>>)[3] = d
         /\ Len(<<a, b>> \o <<c, d>>) = 4
         /\ (<<a, b>> \o <<c, d>>)[1] = a /\ (<<a, b>> \o <<c, d>>)[2] = b
         /\ (<<a, b>> \o <<c, d>>)[3] = c /\ (<<a, b>> \o <<c, d>>)[4] = d
OBVIOUS

\* The days are shown.
WithDays(cd, secs) == cd.daysMode = 1 \/ (cd.daysMode = 2 /\ secs > Day)

\* The fields of a text, with the days and without
LEMMA FieldsOfText ==
  ASSUME NEW cd \in Countdowns, NEW t \in Nat, NEW secs, secs = Abs(SecsLeft(t, cd.target))
  PROVE  LET f == Text(cd, t).fields
         IN /\ secs \in Nat /\ SecsLeft(t, cd.target) \in Int
            /\ Text(cd, t).negative = (SecsLeft(t, cd.target) < 0)
            /\ WithDays(cd, secs) =>
                 /\ Len(f) = 4 /\ f[1] = secs \div Day /\ f[2] = secs \div 3600 % 24
                 /\ f[3] = (secs \div 60) % 60 /\ f[4] = secs % 60
            /\ ~ WithDays(cd, secs) =>
                 /\ Len(f) = 3 /\ f[1] = secs \div 3600
                 /\ f[2] = (secs \div 60) % 60 /\ f[3] = secs % 60
<1>1. SecsLeft(t, cd.target) \in Int
  BY SecsLeftParts, ClocksAssumption DEF ClocksAssumption
<1>2. secs \in Nat
  BY <1>1 DEF Abs
<1>3. Text(cd, t).negative = (SecsLeft(t, cd.target) < 0)
  BY DEF Text
<1> DEFINE days == secs \div Day
           hours == secs \div 3600
           hour == secs \div 3600 % 24
           minute == (secs \div 60) % 60
           second == secs % 60
<1>4. days \in Int /\ hours \in Int /\ hour \in Int /\ minute \in Int /\ second \in Int
  BY <1>2 DEF Day
<1>5. Text(cd, t).fields =
        (IF WithDays(cd, secs) THEN <<days, hour>> ELSE <<hours>>) \o <<minute, second>>
  BY DEF Text, Fields, WithDays
<1> HIDE DEF days, hours, hour, minute, second
<1>6. ASSUME WithDays(cd, secs)
      PROVE  LET f == Text(cd, t).fields
             IN Len(f) = 4 /\ f[1] = days /\ f[2] = hour /\ f[3] = minute /\ f[4] = second
  BY <1>4, <1>5, <1>6, JoinFields
<1>7. ASSUME ~ WithDays(cd, secs)
      PROVE  LET f == Text(cd, t).fields
             IN Len(f) = 3 /\ f[1] = hours /\ f[2] = minute /\ f[3] = second
  BY <1>4, <1>5, <1>7, JoinFields
<1> QED BY <1>1, <1>2, <1>3, <1>6, <1>7 DEF days, hours, hour, minute, second

\* A text says the seconds it was made from.
LEMMA ReadingOfText ==
  ASSUME NEW cd \in Countdowns, NEW t \in Nat
  PROVE  Reading(Text(cd, t)) = SecsLeft(t, cd.target)
<1> DEFINE left == SecsLeft(t, cd.target)
           secs == Abs(left)
           text == Text(cd, t)
           f == text.fields
<1>1. left \in Int /\ secs \in Nat /\ text.negative = (left < 0)
  BY FieldsOfText
<1>2. left = IF left < 0 THEN -secs ELSE secs
  BY <1>1 DEF Abs
<1>3. CASE WithDays(cd, secs)
  <2>1. /\ Len(f) = 4 /\ f[1] = secs \div Day /\ f[2] = secs \div 3600 % 24
        /\ f[3] = (secs \div 60) % 60 /\ f[4] = secs % 60
    BY <1>3, FieldsOfText
  <2> HIDE DEF text, secs, left
  <2>2. Day * f[1] + 3600 * f[2] + 60 * f[3] + f[4] = secs
    BY <1>1, <2>1 DEF Day
  <2>3. Reading(text) = IF text.negative THEN -secs ELSE secs
    BY <2>1, <2>2 DEF Reading
  <2> QED BY <1>1, <1>2, <2>3 DEF text, left
<1>4. CASE ~ WithDays(cd, secs)
  <2>1. /\ Len(f) = 3 /\ f[1] = secs \div 3600
        /\ f[2] = (secs \div 60) % 60 /\ f[3] = secs % 60
    BY <1>4, FieldsOfText
  <2> HIDE DEF text, secs, left
  <2>2. 3600 * f[1] + 60 * f[2] + f[3] = secs
    BY <1>1, <2>1
  <2>3. Reading(text) = IF text.negative THEN -secs ELSE secs
    BY <2>1, <2>2 DEF Reading
  <2> QED BY <1>1, <1>2, <2>3 DEF text, left
<1> QED BY <1>3, <1>4

\* The digits of a countdown to a whole second and of the clock
LEMMA DigitsAddUp ==
  ASSUME NEW cd \in Countdowns, NEW t \in Nat, cd.target % Ticks = 0
  PROVE  Reading(Text(cd, t)) + SecondOfDay(TimeText(t))
           = FloorSecs(cd.target) - Day * (FloorSecs(t) \div Day)
<1>1. /\ Ticks \in Nat /\ Ticks > 0 /\ cd.target \in Nat
      /\ FloorSecs(t) \in Nat /\ Subseconds(t) \in 0 .. Ticks - 1
      /\ t = Ticks * FloorSecs(t) + Subseconds(t)
  <2>1. cd.target \in Nat
    BY ClocksAssumption DEF ClocksAssumption
  <2>2. Ticks \in Nat /\ Ticks > 0
    BY TicksFacts
  <2> QED BY <2>1, <2>2, Parts
<1>2. FloorSecs(cd.target) \in Nat /\ cd.target = Ticks * FloorSecs(cd.target)
  <2>1. /\ FloorSecs(cd.target) \in Nat
        /\ cd.target = Ticks * FloorSecs(cd.target) + Subseconds(cd.target)
    BY <1>1, Parts
  <2>2. Subseconds(cd.target) = 0
    BY DEF Subseconds
  <2> QED BY <1>1, <2>1, <2>2
<1>3. cd.target - t = Ticks * (FloorSecs(cd.target) - FloorSecs(t)) - Subseconds(t)
  BY <1>1, <1>2
<1>4. SecsLeft(t, cd.target) = FloorSecs(cd.target) - FloorSecs(t)
  BY <1>1, <1>2, <1>3, CeilUnique DEF SecsLeft
<1>5. SecondOfDay(TimeText(t)) = FloorSecs(t) - Day * (FloorSecs(t) \div Day)
  <2>1. SecondOfDay(TimeText(t)) = 3600 * Hour(t) + 60 * Minute(t) + Second(t)
    BY DEF SecondOfDay, TimeText
  <2>2. \A s \in Nat : 3600 * ((s \div 3600) % 24) + 60 * ((s \div 60) % 60) + (s % 60)
                         = s - 86400 * (s \div 86400)
    OBVIOUS
  <2> QED BY <1>1, <2>1, <2>2 DEF Hour, Minute, Second, Day
<1>6. FloorSecs(t) \div Day \in Int
  BY <1>1 DEF Day
<1> QED BY <1>1, <1>2, <1>4, <1>5, <1>6, ReadingOfText DEF Day

\* The seconds left never grow.
LEMMA SecsLeftShrink ==
  ASSUME NEW t \in Nat, NEW u \in Nat, t <= u, NEW target \in Nat
  PROVE  SecsLeft(u, target) <= SecsLeft(t, target)
<1> DEFINE q == SecsLeft(t, target)
           p == SecsLeft(u, target)
<1>1. PICK r \in 0 .. Ticks - 1 : q \in Int /\ target - t = Ticks * q - r
  BY SecsLeftParts
<1>2. PICK s \in 0 .. Ticks - 1 : p \in Int /\ target - u = Ticks * p - s
  BY SecsLeftParts
<1>3. Ticks \in Nat
  BY TicksFacts
<1> HIDE DEF q, p
<1>4. CASE q < p
  <2>1. Ticks * q + Ticks <= Ticks * p
    BY <1>1, <1>2, <1>3, <1>4, Product
  <2>2. Ticks * q \in Int /\ Ticks * p \in Int
    BY <1>1, <1>2, <1>3
  <2> QED BY <1>1, <1>2, <1>3, <2>1, <2>2
<1> QED BY <1>1, <1>2, <1>4 DEF q, p

------------------------------------------------------------------------------
(* Flashing *)

\* The time left in milliseconds rounds up to the same seconds, and its phase
\* is that of the ticks.
LEMMA Milliseconds ==
  ASSUME NEW x \in Int
  PROVE  /\ CeilDiv((1000 \div Ticks) * x, 1000) = CeilDiv(x, Ticks)
         /\ Abs((1000 \div Ticks) * x) % 1000 > 500 <=> 2 * (Abs(x) % Ticks) > Ticks
<1> DEFINE k == 1000 \div Ticks
<1>1. Ticks \in Nat /\ Ticks > 0 /\ 1000 % Ticks = 0
  BY ClocksAssumption DEF ClocksAssumption
<1>2. k \in Nat /\ 1000 = Ticks * k + (1000 % Ticks)
  BY <1>1, DivMod, NextOnCircle
<1>3. Ticks * k \in Nat /\ Ticks * k = 1000
  <2> HIDE DEF k
  <2> QED BY <1>1, <1>2
<1> HIDE DEF k
<1>4. k > 0
  BY <1>1, <1>2, <1>3
<1>5. ASSUME NEW w \in 0 .. Ticks - 1
      PROVE  k * w \in 0 .. 999 /\ (k * w > 500 <=> 2 * w > Ticks)
  <2>1. k * w \in Nat /\ k * w + k <= k * Ticks
    BY <1>1, <1>2, <1>5, Product
  <2>2. CASE 2 * w > Ticks
    <3>1. k * Ticks + k <= k * (2 * w)
      BY <1>1, <1>2, <1>5, <2>2, Product
    <3> QED BY <1>1, <1>2, <1>3, <1>4, <1>5, <2>1, <2>2, <3>1
  <2>3. CASE 2 * w <= Ticks
    <3>1. k * (2 * w) <= k * Ticks
      <4>1. CASE 2 * w < Ticks
        BY <1>1, <1>2, <1>5, <4>1, Product
      <4>2. CASE 2 * w = Ticks
        BY <1>1, <1>2, <4>2
      <4> QED BY <1>1, <1>5, <2>3, <4>1, <4>2
    <3> QED BY <1>1, <1>2, <1>3, <1>4, <1>5, <2>1, <2>3, <3>1
  <2> QED BY <1>1, <1>5, <2>2, <2>3
<1>6. CeilDiv(k * x, 1000) = CeilDiv(x, Ticks)
  <2> DEFINE q == -((-x) \div Ticks)
             r == (-x) % Ticks
  <2>1. q \in Int /\ r \in 0 .. Ticks - 1 /\ -x = Ticks * (-q) + r
    BY <1>1, DivMod
  <2> HIDE DEF q, r
  <2>2. x = Ticks * q - r
    BY <1>1, <2>1
  <2>3. k * r \in 0 .. 999
    BY <1>5, <2>1, SMTT(30)
  <2>4. k * x = 1000 * q - k * r /\ k * x \in Int
    BY <1>1, <1>2, <1>3, <2>1, <2>2
  <2>5. CeilDiv(k * x, 1000) = q
    <3> DEFINE y == k * x
               s == k * r
    <3>1. y \in Int /\ s \in 0 .. 1000 - 1 /\ y = 1000 * q - s
      BY <2>3, <2>4
    <3> HIDE DEF y, s
    <3>2. CeilDiv(y, 1000) = q
      BY <2>1, <3>1, CeilUnique
    <3> QED BY <3>2 DEF y
  <2>6. CeilDiv(x, Ticks) = q
    BY <1>1, <2>1, <2>2, CeilUnique
  <2> QED BY <2>5, <2>6
<1>7. Abs(k * x) % 1000 > 500 <=> 2 * (Abs(x) % Ticks) > Ticks
  <2> DEFINE a == Abs(x)
             m == a \div Ticks
             w == a % Ticks
  <2>1. a \in Nat /\ Abs(k * x) = k * a
    BY <1>2, <1>4 DEF Abs
  <2> HIDE DEF a
  <2>2. m \in Int /\ w \in 0 .. Ticks - 1 /\ a = Ticks * m + w
    BY <1>1, <2>1, DivMod
  <2> HIDE DEF m, w
  <2>3. k * w \in 0 .. 999 /\ (k * w > 500 <=> 2 * w > Ticks)
    BY <1>5, <2>2
  <2>4. k * a = 1000 * m + k * w /\ k * a \in Int
    BY <1>1, <1>2, <1>3, <2>1, <2>2
  <2>5. (k * a) % 1000 = k * w
    BY <2>2, <2>3, <2>4, DivUnique
  <2> QED BY <2>1, <2>3, <2>5 DEF a, w
<1> QED BY <1>6, <1>7 DEF k

\* When the colours are the other way round
LEMMA InvertWhen ==
  ASSUME NEW cd \in Countdowns, cd.limit # NoLimit, NEW t \in Nat
  PROVE  Invert(cd, t) <=> /\ SecsLeft(t, cd.target) <= cd.limit
                           /\ 2 * (Abs(cd.target - t) % Ticks) > Ticks
<1>1. cd.target - t \in Int
  BY ClocksAssumption DEF ClocksAssumption
<1> QED BY <1>1, Milliseconds DEF Invert, TimeLeft, SecsLeft

\* A second and a frame hold a time of each colour, on both sides of the target.
LEMMA PhasesWithinASecond ==
  ASSUME NEW d \in Int
  PROVE  /\ \E j \in 0 .. Ticks + 1 : 2 * (Abs(d - j) % Ticks) > Ticks
         /\ \E j \in 0 .. Ticks + 1 : ~ (2 * (Abs(d - j) % Ticks) > Ticks)
<1> DEFINE q == d \div Ticks
           r == d % Ticks
<1>1. PICK h \in Nat : Ticks = 2 * h /\ h >= 10
  <2>1. PICK k \in Nat : k > 0 /\ Ticks = 20 * k
    BY TicksFacts
  <2>2. 10 * k \in Nat /\ Ticks = 2 * (10 * k) /\ 10 * k >= 10
    BY <2>1
  <2> QED BY <2>2
<1>2. q \in Int /\ r \in 0 .. Ticks - 1 /\ d = Ticks * q + r /\ Ticks \in Nat /\ Ticks > 0
  BY <1>1, DivMod
<1> HIDE DEF q, r
<1>3. ASSUME NEW x \in Int, NEW m \in Nat, NEW w \in 0 .. Ticks - 1,
             x = Ticks * m + w \/ x = -(Ticks * m + w)
      PROVE  Abs(x) % Ticks = w
  <2>1. Ticks * m \in Nat
    BY <1>2
  <2>2. Abs(x) = Ticks * m + w
    BY <1>2, <1>3, <2>1 DEF Abs
  <2>3. Ticks * m + w \in Int
    BY <1>2, <2>1
  <2> QED BY <1>2, <2>2, <2>3, DivUnique
<1>4. \E j \in 0 .. Ticks + 1 : ~ (2 * (Abs(d - j) % Ticks) > Ticks)
  <2>1. d - r \in Int /\ r \in 0 .. Ticks + 1
    BY <1>2
  <2>2. \E m \in Nat : d - r = Ticks * m + 0 \/ d - r = -(Ticks * m + 0)
    <3>1. CASE q >= 0
      BY <1>2, <3>1
    <3>2. CASE q < 0
      <4>1. -q \in Nat /\ d - r = -(Ticks * (-q) + 0)
        BY <1>2, <3>2
      <4> QED BY <4>1
    <3> QED BY <1>2, <3>1, <3>2
  <2>3. Abs(d - r) % Ticks = 0
    <3>1. PICK m \in Nat : d - r = Ticks * m + 0 \/ d - r = -(Ticks * m + 0)
      BY <2>2
    <3>2. 0 \in 0 .. Ticks - 1
      BY <1>2
    <3> QED BY <1>3, <2>1, <3>1, <3>2
  <2> QED BY <1>2, <2>1, <2>3
<1>5. \E j \in 0 .. Ticks + 1 : 2 * (Abs(d - j) % Ticks) > Ticks
  <2>0. 2 * (Ticks - 1) > Ticks /\ Ticks - 1 \in 0 .. Ticks - 1
    BY <1>1
  <2>1. CASE q >= 1
    <3>1. /\ q - 1 \in Nat /\ d - (r + 1) \in Int /\ r + 1 \in 0 .. Ticks + 1
          /\ d - (r + 1) = Ticks * (q - 1) + (Ticks - 1)
      BY <1>2, <2>1
    <3>2. Abs(d - (r + 1)) % Ticks = Ticks - 1
      BY <1>3, <2>0, <3>1
    <3> QED BY <2>0, <3>1, <3>2
  <2>2. CASE q <= -1 /\ r >= 1
    <3>1. /\ -q - 1 \in Nat /\ d - (r - 1) \in Int /\ r - 1 \in 0 .. Ticks + 1
          /\ d - (r - 1) = -(Ticks * (-q - 1) + (Ticks - 1))
      BY <1>2, <2>2
    <3>2. Abs(d - (r - 1)) % Ticks = Ticks - 1
      BY <1>3, <2>0, <3>1
    <3> QED BY <2>0, <3>1, <3>2
  <2>3. CASE q <= -1 /\ r = 0
    <3>1. /\ -q \in Nat /\ d - (Ticks - 1) \in Int /\ Ticks - 1 \in 0 .. Ticks + 1
          /\ d - (Ticks - 1) = -(Ticks * (-q) + (Ticks - 1))
      BY <1>2, <2>3
    <3>2. Abs(d - (Ticks - 1)) % Ticks = Ticks - 1
      BY <1>3, <2>0, <3>1
    <3> QED BY <2>0, <3>1, <3>2
  <2>4. CASE q = 0 /\ r > h
    <3>1. d - 0 = Ticks * 0 + r /\ d - 0 \in Int
      BY <1>2, <2>4
    <3>2. Abs(d - 0) % Ticks = r
      BY <1>2, <1>3, <3>1
    <3> QED BY <1>1, <1>2, <2>4, <3>2
  <2>5. CASE q = 0 /\ r <= h
    <3>1. /\ h + 1 \in 0 .. Ticks - 1 /\ r + h + 1 \in 0 .. Ticks + 1
          /\ d - (r + h + 1) = -(Ticks * 0 + (h + 1)) /\ d - (r + h + 1) \in Int
      BY <1>1, <1>2, <2>5
    <3>2. Abs(d - (r + h + 1)) % Ticks = h + 1
      BY <1>3, <3>1
    <3>3. 2 * (h + 1) > Ticks
      BY <1>1
    <3> QED BY <3>1, <3>2, <3>3
  <2> QED BY <1>1, <1>2, <2>1, <2>2, <2>3, <2>4, <2>5
<1> QED BY <1>4, <1>5

------------------------------------------------------------------------------
(* Fitting *)

\* A smaller number has no more digits.
LEMMA DigitsGrow ==
  ASSUME NEW m \in Nat, NEW n \in Nat, m <= n
  PROVE  Digits(m) \in Nat /\ Digits(n) \in Nat /\ Digits(m) <= Digits(n)
         /\ 2 <= Digits(m)
<1> DEFINE M == {p \in Powers : m >= p}
           N == {p \in Powers : n >= p}
<1>p. Powers \subseteq Nat
  BY ClocksAssumption DEF ClocksAssumption
<1>1. M \subseteq N
  <2>1. \A p \in Nat : m >= p => n >= p
    OBVIOUS
  <2> QED BY <1>p, <2>1
<1>2. IsFiniteSet(N)
  <2>1. N \in SUBSET Nat /\ \A p \in N : p <= n
    BY <1>p
  <2> HIDE DEF N
  <2> QED BY <2>1, FS_BoundedSetOfNaturals
<1> HIDE DEF M, N
<1>3. /\ Cardinality(M) \in Nat /\ Cardinality(N) \in Nat
      /\ Cardinality(M) <= Cardinality(N)
  BY <1>1, <1>2, FS_Subset, FS_CardinalityType
<1> QED BY <1>3 DEF Digits, M, N

\* The hours of a day have two.
LEMMA DigitsOfHours ==
  ASSUME NEW n \in Nat, n <= 24
  PROVE  Digits(n) = 2
<1>1. \A p \in Powers : ~ (n >= p)
  BY ClocksAssumption DEF ClocksAssumption
<1>2. {p \in Powers : n >= p} = {}
  BY <1>1
<1> QED BY <1>2, FS_EmptySet DEF Digits

\* Before its target the text of a countdown never gets longer.
LEMMA TextShrinks ==
  ASSUME NEW cd \in Countdowns, NEW t \in Nat, t + 1 <= cd.target
  PROVE  Length(Text(cd, t + 1)) <= Length(Text(cd, t))
<1> DEFINE a == SecsLeft(t, cd.target)
           b == SecsLeft(t + 1, cd.target)
           f == Text(cd, t).fields
           g == Text(cd, t + 1).fields
<1>1. cd.target \in Nat /\ t + 1 \in Nat
  BY ClocksAssumption DEF ClocksAssumption
<1>2. a \in Int /\ b \in Int /\ b <= a
  <2>1. a \in Int /\ b \in Int
    BY <1>1, SecsLeftParts
  <2>2. t <= t + 1
    OBVIOUS
  <2>3. b <= a
    BY <1>1, <2>2, SecsLeftShrink
  <2> QED BY <2>1, <2>3
<1>3. 0 <= b
  <2>1. PICK r \in 0 .. Ticks - 1 : cd.target - (t + 1) = Ticks * b - r
    BY <1>1, SecsLeftParts
  <2>2. Ticks \in Nat
    BY TicksFacts
  <2> HIDE DEF b
  <2>3. CASE b < 0
    <3>1. Ticks * b + Ticks <= Ticks * 0 /\ Ticks * b \in Int
      BY <1>2, <2>2, <2>3, Product
    <3> QED BY <1>1, <2>1, <2>2, <3>1
  <2> QED BY <1>2, <2>3
<1>4. a = Abs(a) /\ b = Abs(b) /\ a \in Nat /\ b \in Nat
  BY <1>2, <1>3 DEF Abs
<1> HIDE DEF a, b
<1>5. Length(Text(cd, t)) = 3 * Len(f) - 2 + Digits(f[1])
  BY DEF Length
<1>6. Length(Text(cd, t + 1)) = 3 * Len(g) - 2 + Digits(g[1])
  BY DEF Length
<1>f. /\ WithDays(cd, a) => Len(f) = 4 /\ f[1] = a \div Day
      /\ ~ WithDays(cd, a) => Len(f) = 3 /\ f[1] = a \div 3600
  BY <1>4, FieldsOfText DEF a
<1>g. /\ WithDays(cd, b) => Len(g) = 4 /\ g[1] = b \div Day
      /\ ~ WithDays(cd, b) => Len(g) = 3 /\ g[1] = b \div 3600
  BY <1>1, <1>4, FieldsOfText DEF b
<1> HIDE DEF f, g
<1>7. /\ a \div Day \in Nat /\ b \div Day \in Nat /\ b \div Day <= a \div Day
      /\ a \div 3600 \in Nat /\ b \div 3600 \in Nat /\ b \div 3600 <= a \div 3600
  BY <1>2, <1>4 DEF Day
<1>8. CASE WithDays(cd, a) /\ WithDays(cd, b)
  <2>1. f[1] \in Nat /\ g[1] \in Nat /\ g[1] <= f[1] /\ Len(f) = 4 /\ Len(g) = 4
    BY <1>7, <1>8, <1>f, <1>g
  <2> QED BY <1>5, <1>6, <2>1, DigitsGrow
<1>9. CASE ~ WithDays(cd, a) /\ ~ WithDays(cd, b)
  <2>1. f[1] \in Nat /\ g[1] \in Nat /\ g[1] <= f[1] /\ Len(f) = 3 /\ Len(g) = 3
    BY <1>7, <1>9, <1>f, <1>g
  <2> QED BY <1>5, <1>6, <2>1, DigitsGrow
<1>10. CASE WithDays(cd, a) /\ ~ WithDays(cd, b)
  <2>1. b <= Day
    BY <1>4, <1>10 DEF WithDays, Day
  <2>2. b \div 3600 <= 24
    BY <1>4, <2>1 DEF Day
  <2>3. Digits(b \div 3600) = 2
    BY <1>7, <2>2, DigitsOfHours
  <2>4. Digits(a \div Day) \in Nat /\ Digits(a \div Day) >= 2
    BY <1>7, DigitsGrow
  <2>5. Length(Text(cd, t)) = 10 + Digits(a \div Day)
    <3>1. Len(f) = 4 /\ f[1] = a \div Day
      BY <1>10, <1>f
    <3> QED BY <1>5, <2>4, <3>1
  <2>6. Length(Text(cd, t + 1)) = 7 + Digits(b \div 3600)
    <3>1. Len(g) = 3 /\ g[1] = b \div 3600
      BY <1>10, <1>g
    <3> QED BY <1>6, <2>3, <3>1
  <2> QED BY <2>3, <2>4, <2>5, <2>6
<1>11. CASE ~ WithDays(cd, a) /\ WithDays(cd, b)
  BY <1>2, <1>4, <1>11 DEF WithDays, Day
<1> QED BY <1>8, <1>9, <1>10, <1>11

------------------------------------------------------------------------------
(* Theorems *)

\* The times are those that are looked at and the countdowns those that were
\* sent, ...
Shown ==
  /\ now \in Moments
  /\ countdown = <<>> \/ \E cd \in Countdowns : countdown = <<cd>>

\* ... and until a countdown has passed its target its text fits, however long
\* ago it was measured.
Fits ==
  (countdown # <<>> /\ ~ ranOut) => Length(Text(countdown[1], now)) <= measured

IInv == Shown /\ measured \in Int /\ Fits

\* What is shown keeps its type.
LEMMA ShownInvariant == Spec => []Shown
<1>1. Init => Shown
  BY DEF Init, Shown
<1>2. Shown /\ [Next]_vars => Shown'
  BY DEF Shown, Next, Tick, SetCountdown, vars
<1> QED BY <1>1, <1>2, PTL DEF Spec

\* The parts of what is shown that the lemmas speak of
LEMMA ShownFacts ==
  ASSUME Shown
  PROVE  now \in Nat /\ (countdown # <<>> => countdown[1] \in Countdowns)
BY ClocksAssumption DEF ClocksAssumption, Shown

\* A text has a length.
LEMMA LengthType ==
  ASSUME NEW cd \in Countdowns, NEW t \in Nat
  PROVE  Length(Text(cd, t)) \in Int
<1> DEFINE secs == Abs(SecsLeft(t, cd.target))
           f == Text(cd, t).fields
<1>1. /\ secs \in Nat
      /\ WithDays(cd, secs) => Len(f) = 4 /\ f[1] = secs \div Day
      /\ ~ WithDays(cd, secs) => Len(f) = 3 /\ f[1] = secs \div 3600
  BY FieldsOfText
<1>2. Length(Text(cd, t)) = 3 * Len(f) - 2 + Digits(f[1])
  BY DEF Length
<1> HIDE DEF secs, f
<1>3. Len(f) \in Int /\ f[1] \in Nat
  BY <1>1 DEF Day
<1>4. Digits(f[1]) \in Nat
  BY <1>3, DigitsGrow
<1> QED BY <1>2, <1>3, <1>4

\* A text is measured, or it is no longer than the one that was.
LEMMA FitsStep == IInv /\ [Next]_vars => IInv'
<1> SUFFICES ASSUME Shown, measured \in Int, Fits, [Next]_vars
             PROVE  Shown' /\ measured' \in Int /\ Fits'
  BY DEF IInv
<1>1. Shown'
  BY DEF Shown, Next, Tick, SetCountdown, vars
<1>2. now \in Nat /\ (countdown # <<>> => countdown[1] \in Countdowns)
  BY ShownFacts
<1>3. ASSUME NEW cds, NEW t \in Nat, Recalculate(cds, t),
             cds = <<>> \/ \E cd \in Countdowns : cds = <<cd>>
      PROVE  /\ measured' \in Int
             /\ cds # <<>> => Length(Text(cds[1], t)) <= measured'
  <2>1. CASE cds = <<>>
    BY <1>3, <2>1 DEF Recalculate
  <2>2. ASSUME NEW cd \in Countdowns, cds = <<cd>> PROVE measured' = Length(Text(cds[1], t)) /\ cds[1] = cd
    BY <1>3, <2>2 DEF Recalculate
  <2>3. ASSUME NEW cd \in Countdowns PROVE Length(Text(cd, t)) \in Int
    BY LengthType
  <2>4. ASSUME NEW cd \in Countdowns, cds = <<cd>>
        PROVE  measured' \in Int /\ Length(Text(cds[1], t)) <= measured'
    <3> DEFINE n == Length(Text(cd, t))
    <3>1. n \in Int /\ measured' = n /\ Length(Text(cds[1], t)) = n
      BY <2>2, <2>3, <2>4
    <3> HIDE DEF n
    <3>2. n <= n
      BY <3>1
    <3> QED BY <3>1, <3>2
  <2> QED BY <1>3, <2>1, <2>4
<1>4. CASE Tick
  <2>1. countdown' = countdown /\ now' = now + 1 /\ now + 1 \in Nat
    BY <1>2, <1>4 DEF Tick
  <2>2. CASE Recalculate(countdown, now')
    <3>1. /\ measured' \in Int
          /\ countdown # <<>> => Length(Text(countdown[1], now + 1)) <= measured'
      BY <1>3, <2>1, <2>2 DEF Shown
    <3> QED BY <1>1, <2>1, <3>1 DEF Fits
  <2>3. CASE /\ ranOut' = (ranOut \/ (countdown # <<>> /\ now' > countdown[1].target))
             /\ UNCHANGED measured
    <3>1. ASSUME countdown # <<>>, ~ ranOut'
          PROVE  Length(Text(countdown[1], now + 1)) <= measured
      <4> DEFINE later == Length(Text(countdown[1], now + 1))
                 earlier == Length(Text(countdown[1], now))
      <4>1. countdown[1] \in Countdowns /\ countdown[1].target \in Nat
        BY <1>2, <3>1, ClocksAssumption DEF ClocksAssumption
      <4>2. ~ ranOut /\ ~ (now + 1 > countdown[1].target)
        BY <2>1, <2>3, <3>1
      <4>3. now + 1 <= countdown[1].target
        BY <1>2, <4>1, <4>2
      <4>4. later <= earlier
        BY <1>2, <4>1, <4>3, TextShrinks
      <4>5. earlier <= measured
        BY <3>1, <4>2 DEF Fits
      <4>6. later \in Int /\ earlier \in Int
        BY <1>2, <2>1, <4>1, LengthType
      <4> HIDE DEF later, earlier
      <4>7. later <= measured
        BY <4>4, <4>5, <4>6
      <4> QED BY <4>7 DEF later
    <3> QED BY <1>1, <2>1, <2>3, <3>1 DEF Fits
  <2> QED BY <1>4, <2>2, <2>3 DEF Tick
<1>5. ASSUME NEW cd \in Countdowns, countdown' = <<cd>>, now' = now,
             IF countdown = <<>> \/ Length(Text(countdown[1], now)) # Length(Text(cd, now))
               THEN Recalculate(<<cd>>, now)
               ELSE ranOut' = (ranOut \/ now > cd.target) /\ UNCHANGED measured
      PROVE  measured' \in Int /\ Fits'
  <2>1. countdown'[1] = cd
    BY <1>5
  <2>2. CASE Recalculate(<<cd>>, now)
    <3>1. measured' \in Int /\ Length(Text(cd, now)) <= measured'
      BY <1>2, <1>3, <2>2
    <3> QED BY <1>5, <2>1, <3>1 DEF Fits
  <2>3. CASE /\ countdown # <<>> /\ Length(Text(countdown[1], now)) = Length(Text(cd, now))
             /\ ranOut' = (ranOut \/ now > cd.target) /\ UNCHANGED measured
    <3>1. ~ ranOut' => Length(Text(cd, now)) <= measured
      BY <2>3 DEF Fits
    <3> QED BY <1>5, <2>1, <2>3, <3>1 DEF Fits
  <2> QED BY <1>5, <2>2, <2>3
<1>6. CASE UNCHANGED vars
  <2>1. countdown' = countdown /\ now' = now /\ measured' = measured /\ ranOut' = ranOut
    BY <1>6 DEF vars
  <2> QED BY <1>1, <2>1 DEF Fits
<1> QED BY <1>1, <1>4, <1>5, <1>6 DEF Next, SetCountdown

\* PiClock's text sizes hold for a countdown until it passes its target,
\* although it is measured only when a new one differs in length.
THEOREM CountdownFits == Spec => []FitsUntilTarget
<1>1. Init => IInv
  BY DEF Init, IInv, Shown, Fits
<1>2. IInv => FitsUntilTarget
  BY DEF IInv, Fits, FitsUntilTarget
<1> QED BY <1>1, <1>2, FitsStep, PTL DEF Spec

\* No hand of any clock jumps or turns back.
THEOREM HandsMoveOn == Spec => HandsNeverJump
<1>1. ASSUME Shown, Tick
      PROVE  /\ \A sweep \in BOOLEAN :
                  Turned(SecondHand(now, sweep), SecondHand(now', sweep), 60 * Ticks) <= 10
             /\ Turned(MinuteHand(now), MinuteHand(now'), 3600 * Ticks) = 1
             /\ Turned(HourHand(now), HourHand(now'), 43200 * Ticks) = 1
  <2>1. now \in Nat /\ now + 1 \in Nat /\ now' = now + 1
    BY <1>1, ShownFacts DEF Tick
  <2>2. \A sweep \in BOOLEAN :
          Turned(SecondHand(now, sweep), SecondHand(now + 1, sweep), 60 * Ticks) <= 10
    BY <2>1, SecondHandTurns
  <2>3. Turned(MinuteHand(now), MinuteHand(now + 1), 3600 * Ticks) = 1
    BY <2>1, EvenHands, EvenTurns
  <2>4. Turned(HourHand(now), HourHand(now + 1), 43200 * Ticks) = 1
    BY <2>1, EvenHands, EvenTurns
  <2> QED BY <2>1, <2>2, <2>3, <2>4
<1>2. Shown /\ [Next]_vars =>
        [Tick =>
           /\ \A sweep \in BOOLEAN :
                Turned(SecondHand(now, sweep), SecondHand(now', sweep), 60 * Ticks) <= 10
           /\ Turned(MinuteHand(now), MinuteHand(now'), 3600 * Ticks) = 1
           /\ Turned(HourHand(now), HourHand(now'), 43200 * Ticks) = 1]_vars
  BY <1>1
<1> QED BY <1>2, ShownInvariant, PTL DEF Spec, HandsNeverJump

\* The red dashes are those the second hand has come to, however it moves; the
\* others whiten, and are white when the first second of the minute is over.
THEOREM DashesFollowTheHand == Spec => DashesFollowHand
<1> DEFINE Follow ==
      \A i \in 0 .. 59, sweep \in BOOLEAN :
        IF i * Ticks <= SecondHand(now', sweep)
          THEN Whiteness(now', i) = 0
          ELSE /\ SecPart(now') > SecPart(now) => Whiteness(now', i) >= Whiteness(now, i)
               /\ SecPart(now') >= Ticks => Whiteness(now', i) = 5
<1>1. ASSUME Shown, Tick PROVE Follow
  <2>1. now \in Nat /\ now + 1 \in Nat /\ now' = now + 1
    BY <1>1, ShownFacts DEF Tick
  <2>2. SUFFICES ASSUME NEW i \in 0 .. 59, NEW sweep \in BOOLEAN
                 PROVE  IF i * Ticks <= SecondHand(now + 1, sweep)
                          THEN Whiteness(now + 1, i) = 0
                          ELSE /\ SecPart(now + 1) > SecPart(now) =>
                                     Whiteness(now + 1, i) >= Whiteness(now, i)
                               /\ SecPart(now + 1) >= Ticks => Whiteness(now + 1, i) = 5
    BY <2>1
  <2>3. Second(now + 1) \in 0 .. 59
    BY <2>1, Parts
  <2>4. CASE i <= Second(now + 1)
    BY <2>1, <2>3, <2>4, HandReached DEF Whiteness
  <2>5. CASE i > Second(now + 1)
    BY <2>1, <2>3, <2>5, HandReached, DashesWhiten, DashesAreWhite
  <2> QED BY <2>3, <2>4, <2>5
<1>2. Shown /\ [Next]_vars => [Tick => Follow]_vars
  BY <1>1
<1> QED BY <1>2, ShownInvariant, PTL DEF Spec, DashesFollowHand

\* The digits of a countdown and those of the clock add up to the target.
THEOREM DigitsTogether == Spec => []DigitsAgree
<1>1. Shown => DigitsAgree
  BY ShownFacts, DigitsAddUp DEF DigitsAgree
<1> QED BY <1>1, ShownInvariant, PTL

\* A countdown flashes from when its digits reach the limit, and not before.
THEOREM FlashesWhenDue == Spec => []FlashesFromLimit
<1>1. ASSUME Shown, countdown # <<>>, countdown[1].limit # NoLimit
      PROVE  LET cd == countdown[1]
                 soon == now .. now + Ticks + 1
                 due == Reading(Text(cd, now)) <= cd.limit
             IN /\ Invert(cd, now) => due
                /\ due => (\E t \in soon : Invert(cd, t)) /\ (\E t \in soon : ~Invert(cd, t))
  <2> DEFINE cd == countdown[1]
             soon == now .. now + Ticks + 1
  <2>1. /\ now \in Nat /\ cd \in Countdowns /\ cd.target \in Nat /\ cd.limit \in Nat
        /\ cd.limit # NoLimit /\ Ticks \in Nat
    BY <1>1, ShownFacts, TicksFacts, ClocksAssumption DEF ClocksAssumption
  <2> HIDE DEF cd
  <2>2. Reading(Text(cd, now)) = SecsLeft(now, cd.target)
    BY <2>1, ReadingOfText
  <2>3. Invert(cd, now) => SecsLeft(now, cd.target) <= cd.limit
    BY <2>1, InvertWhen
  <2>4. ASSUME SecsLeft(now, cd.target) <= cd.limit, NEW j \in 0 .. Ticks + 1
        PROVE  /\ now + j \in soon
               /\ Invert(cd, now + j) <=> 2 * (Abs((cd.target - now) - j) % Ticks) > Ticks
    <3>1. now + j \in Nat /\ now <= now + j /\ now + j \in soon
      BY <2>1
    <3>2. SecsLeft(now + j, cd.target) <= SecsLeft(now, cd.target)
      BY <2>1, <3>1, SecsLeftShrink
    <3>3. SecsLeft(now + j, cd.target) \in Int /\ SecsLeft(now, cd.target) \in Int
      BY <2>1, <3>1, SecsLeftParts
    <3>4. SecsLeft(now + j, cd.target) <= cd.limit
      BY <2>1, <2>4, <3>2, <3>3
    <3>5. cd.target - (now + j) = (cd.target - now) - j
      BY <2>1
    <3> QED BY <2>1, <3>1, <3>4, <3>5, InvertWhen
  <2>5. /\ \E j \in 0 .. Ticks + 1 : 2 * (Abs((cd.target - now) - j) % Ticks) > Ticks
        /\ \E j \in 0 .. Ticks + 1 : ~ (2 * (Abs((cd.target - now) - j) % Ticks) > Ticks)
    <3>1. cd.target - now \in Int
      BY <2>1
    <3> QED BY <3>1, PhasesWithinASecond
  <2> HIDE DEF soon
  <2>6. SecsLeft(now, cd.target) <= cd.limit =>
          (\E t \in soon : Invert(cd, t)) /\ (\E t \in soon : ~Invert(cd, t))
    BY <2>4, <2>5
  <2> QED BY <2>2, <2>3, <2>6 DEF cd, soon
<1>2. Shown => FlashesFromLimit
  BY <1>1 DEF FlashesFromLimit
<1> QED BY <1>2, ShownInvariant, PTL
===============================================================================
