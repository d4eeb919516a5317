-------------------------- MODULE PointSizesProofs --------------------------
(***************************************************************************)
(* The sizes of texts, for every display of texts and every width of int.  *)
(* While a size is searched, what fits and what does not are on the two    *)
(* sides of the bounds (SearchInv); and the zones hold the smallest of the *)
(* sizes found so far (ZonesInv).                                          *)
(***************************************************************************)
EXTENDS PointSizes, TLAPS

\* The search for the size of a text that can be measured
SearchInv ==
  (phase # "idle" /\ Measurable(at)) =>
    /\ phase = "doubling" => cur = 1 \/ cur \in 1 .. texts[at].limit
    /\ phase = "bisecting" => /\ low = 1 \/ low \in 1 .. texts[at].limit
                              /\ texts[at].limit < high

\* The texts of a zone whose sizes have been found
Done(z) == {i \in OfZone(z) : i < at}

\* A zone has the smallest size of its texts so far.
Smallest(z) ==
  IF Done(z) = {} THEN sizes[z] = 0
  ELSE /\ \A i \in Done(z) : sizes[z] <= Largest(i)
       /\ \E i \in Done(z) : sizes[z] = Largest(i)

ZonesInv == \A z \in Zones : (\A i \in OfZone(z) : Measurable(i)) => Smallest(z)

AllDone == phase = "idle" => at = Len(texts) + 1

IInv == TypeOK /\ SearchInv /\ ZonesInv /\ AllDone

------------------------------------------------------------------------------
(* Initial states and steps *)

LEMMA InitIInv == Init => IInv
BY SizesAssumption DEF SizesAssumption, Init, IInv, TypeOK, SearchInv, ZonesInv, AllDone,
   Smallest, Done, OfZone

\* The text whose size is searched
LEMMA SearchedText ==
  ASSUME TypeOK, phase # "idle"
  PROVE  /\ at \in 1 .. Len(texts) /\ texts[at] \in Text
         /\ texts[at].limit \in Int /\ texts[at].limit < Top /\ texts[at].zone \in Zones
         /\ Measurable(at) => texts[at].limit \in Nat
<1>1. at \in 1 .. Len(texts) /\ texts[at] \in Text
  BY DEF TypeOK
<1>2. texts[at].zone \in Zones /\ texts[at].limit \in -1 .. Top - 1
  BY <1>1 DEF Text, Endless
<1> QED BY <1>1, <1>2, SizesAssumption DEF SizesAssumption, Measurable, Endless

\* Every step keeps the types, and comes to the next text only at the end of
\* a search.
LEMMA TypeStep == TypeOK /\ AllDone /\ [Next]_vars => TypeOK' /\ AllDone'
<1> SUFFICES ASSUME TypeOK, AllDone, [Next]_vars PROVE TypeOK' /\ AllDone'
  OBVIOUS
<1> USE SizesAssumption DEF SizesAssumption, TypeOK, AllDone
<1>1. CASE Change
  BY <1>1 DEF Change, Search
<1>2. CASE Begin
  BY <1>2 DEF Begin, Search
<1>3. CASE Double
  BY <1>3 DEF Double
<1>4. CASE Overflow
  BY <1>4 DEF Overflow
<1>5. CASE Bisect
  <2>1. cur' = (high - low) \div 2 + low /\ low < cur' /\ cur' < high
    BY <1>5 DEF Bisect
  <2> QED BY <1>5, <2>1 DEF Bisect
<1>6. CASE Found
  <2>1. at \in 1 .. Len(texts) /\ texts[at].zone \in Zones
    BY <1>6, SearchedText DEF Found
  <2>2. sizes' \in [Zones -> Nat]
    BY <1>6, <2>1 DEF Found, Keep
  <2> QED BY <1>6, <2>1, <2>2 DEF Found, Search
<1>7. CASE UNCHANGED vars
  BY <1>7 DEF vars
<1> QED BY <1>1, <1>2, <1>3, <1>4, <1>5, <1>6, <1>7 DEF Next, Step

\* Neither an overflow nor a size of 0 comes of a text that can be measured.
LEMMA SearchStep == IInv /\ [Next]_vars => SearchInv'
<1> SUFFICES ASSUME IInv, [Next]_vars PROVE SearchInv'
  OBVIOUS
<1> USE DEF IInv
<1>1. CASE Change \/ Begin \/ Found
  BY <1>1 DEF Change, Begin, Found, Search, SearchInv
<1>2. CASE Double
  BY <1>2, SearchedText DEF Double, SearchInv, TooLarge, Measurable
<1>3. CASE Overflow
  <2>1. ~ Measurable(at)
    BY <1>3, SearchedText, SizesAssumption DEF SizesAssumption, Overflow, SearchInv
  <2> QED BY <1>3, <2>1 DEF Overflow, SearchInv, Measurable
<1>4. CASE Bisect
  <2>1. cur' = (high - low) \div 2 + low /\ low < cur' /\ cur' < high
    BY <1>4 DEF Bisect, TypeOK
  <2> QED BY <1>4, <2>1, SearchedText DEF Bisect, SearchInv, TooLarge, Measurable, TypeOK
<1>5. CASE UNCHANGED vars
  BY <1>5 DEF vars, SearchInv, Measurable
<1> QED BY <1>1, <1>2, <1>3, <1>4, <1>5 DEF Next, Step

\* The search ends with the size of the text alone.
LEMMA FoundIsLargest ==
  ASSUME IInv, Found, Measurable(at)
  PROVE  low = Largest(at) /\ low \in Nat \ {0}
BY SearchedText DEF IInv, TypeOK, SearchInv, Found, Largest

\* Of the zones, only that of the text changes, and it has the smaller size.
LEMMA ZonesStep == IInv /\ [Next]_vars => ZonesInv'
<1> SUFFICES ASSUME IInv, [Next]_vars PROVE ZonesInv'
  OBVIOUS
<1> USE DEF IInv
<1>1. CASE Change
  BY <1>1 DEF Change, Search, ZonesInv, Smallest, Done, OfZone
<1>2. CASE Begin
  <2>1. \A z \in Zones : sizes[z] = 0
    BY <1>2 DEF Begin, ZonesInv, Smallest, Done, OfZone
  <2>2. at' = 1 /\ sizes' = sizes
    BY <1>2 DEF Begin, Search
  <2> QED BY <2>1, <2>2 DEF ZonesInv, Smallest, Done, OfZone
<1>3. CASE Found
  <2>1. /\ texts' = texts /\ at' = at + 1
        /\ sizes' = [sizes EXCEPT ![texts[at].zone] = IF @ = 0 \/ @ > low THEN low ELSE @]
    BY <1>3 DEF Found, Keep, Search
  <2>2. at \in 1 .. Len(texts) /\ texts[at].zone \in Zones
    BY <1>3, SearchedText DEF Found
  <2> SUFFICES ASSUME NEW z \in Zones, (\A i \in OfZone(z) : Measurable(i))'
               PROVE  Smallest(z)'
    BY DEF ZonesInv
  <2>3. OfZone(z)' = OfZone(z) /\ \A i \in OfZone(z) : Measurable(i)
    BY <2>1 DEF OfZone, Measurable
  <2>4. Smallest(z)
    BY <2>3 DEF ZonesInv
  <2>5. \A i : Largest(i)' = Largest(i)
    BY <2>1 DEF Largest
  <2>6. CASE z = texts[at].zone
    <3>1. Done(z)' = Done(z) \cup {at} /\ at \in OfZone(z)
      BY <2>1, <2>2, <2>3, <2>6 DEF Done, OfZone, TypeOK
    <3>2. low = Largest(at) /\ low \in Nat \ {0}
      BY <1>3, <2>3, <3>1, FoundIsLargest
    <3>3. sizes'[z] = (IF sizes[z] = 0 \/ sizes[z] > low THEN low ELSE sizes[z]) /\ sizes[z] \in Nat
      BY <2>1, <2>2, <2>6 DEF TypeOK
    <3>4. \A i \in Done(z) : Largest(i) \in Nat \ {0}
      <4> TAKE i \in Done(z)
      <4>1. i \in 1 .. Len(texts) /\ texts[i].limit # Endless
        BY <2>3 DEF Done, OfZone, Measurable
      <4>2. texts[i] \in Text
        BY <4>1 DEF TypeOK
      <4> QED BY <4>1, <4>2, SizesAssumption DEF SizesAssumption, Text, Endless, Largest
    <3>5. CASE Done(z) = {}
      BY <2>4, <2>5, <3>1, <3>2, <3>3, <3>5 DEF Smallest
    <3>6. CASE Done(z) # {}
      <4>1. /\ \A i \in Done(z) : sizes[z] <= Largest(i)
            /\ \E i \in Done(z) : sizes[z] = Largest(i)
        BY <2>4, <3>6 DEF Smallest
      <4>2. sizes[z] # 0
        BY <3>4, <4>1
      <4>3. \A i \in Done(z) \cup {at} : sizes'[z] <= Largest(i)
        BY <3>2, <3>3, <3>4, <4>1
      <4>4. \E i \in Done(z) \cup {at} : sizes'[z] = Largest(i)
        BY <3>2, <3>3, <4>1, <4>2
      <4> QED BY <2>5, <3>1, <4>3, <4>4 DEF Smallest
    <3> QED BY <3>5, <3>6
  <2>7. CASE z # texts[at].zone
    <3>1. Done(z)' = Done(z)
      BY <2>1, <2>2, <2>3, <2>7 DEF Done, OfZone, TypeOK
    <3>2. sizes'[z] = sizes[z]
      BY <2>1, <2>7 DEF TypeOK
    <3> QED BY <2>4, <2>5, <3>1, <3>2 DEF Smallest
  <2> QED BY <2>6, <2>7
<1>4. CASE UNCHANGED <<texts, at, sizes>>
  BY <1>4 DEF ZonesInv, Smallest, Done, OfZone, Measurable, Largest
<1> QED BY <1>1, <1>2, <1>3, <1>4 DEF Next, Step, Double, Overflow, Bisect, vars

------------------------------------------------------------------------------
(* Theorems *)

\* The inductive invariant of a recalculation and the searches it makes
THEOREM Invariance == Spec => []IInv
<1>1. IInv /\ [Next]_vars => IInv'
  BY TypeStep, SearchStep, ZonesStep DEF IInv
<1> QED BY InitIInv, <1>1, PTL DEF Spec

\* Every variable of PointSizes keeps its type.
THEOREM TypeCorrect == Spec => []TypeOK
<1>1. IInv => TypeOK
  BY DEF IInv
<1> QED BY Invariance, <1>1, PTL

\* RecalcTexts and MaxPointSize give every font size zone the largest size at
\* which all of its texts fit, for every number of texts and every limit below
\* the largest power of two of an int.
THEOREM ZonesGetCommonSize == Spec => []ZoneSizeIsCommon
<1>1. IInv => ZoneSizeIsCommon
  <2> SUFFICES ASSUME IInv, phase = "idle", NEW z \in Zones, OfZone(z) # {},
                      \A i \in OfZone(z) : Measurable(i)
               PROVE  /\ \A i \in OfZone(z) : sizes[z] <= Largest(i)
                      /\ \E i \in OfZone(z) : sizes[z] = Largest(i)
    BY DEF ZoneSizeIsCommon
  <2>1. Done(z) = OfZone(z)
    BY DEF IInv, TypeOK, AllDone, Done, OfZone
  <2>2. Smallest(z)
    BY DEF IInv, ZonesInv
  <2> QED BY <2>1, <2>2 DEF Smallest
<1> QED BY Invariance, <1>1, PTL

------------------------------------------------------------------------------
(* What the end of a search rests on *)

\* What a search can still do: double the size up to twice the largest power of
\* two, or halve what is between the bounds.
Room == IF phase = "doubling" THEN 2 * Top - cur ELSE high - low

\* A step of a search has less left to do, or comes to the next text.
Advances ==
  /\ texts' = texts
  /\ at' = at + 1 \/ (at' = at /\ Room \in Nat /\ Room' \in Nat /\ Room' < Room)

\* The safety half of RecalcReturns, for every width of the int: the search for
\* the size of a text that can be measured never doubles an int that cannot be
\* doubled, so that one of the loops can go on, and every turn of them comes
\* closer to its end.
THEOREM SearchAdvances ==
  Spec => /\ [](phase = "doubling" /\ Measurable(at) => cur \in 1 .. Top - 1)
          /\ [][Step /\ Measurable(at) => Advances]_vars
<1>1. IInv => (phase = "doubling" /\ Measurable(at) => cur \in 1 .. Top - 1)
  BY SearchedText, SizesAssumption DEF SizesAssumption, IInv, SearchInv
<1>2. IInv /\ [Next]_vars => [Step /\ Measurable(at) => Advances]_vars
  <2> SUFFICES ASSUME IInv, Step, Measurable(at) PROVE Advances
    OBVIOUS
  <2> USE SizesAssumption DEF SizesAssumption, Advances, Room
  <2>t. cur \in Nat /\ low \in Nat /\ high \in Nat /\ low < high /\ Top \in Nat
    BY DEF IInv, TypeOK
  <2>1. CASE Double
    BY <2>1, <2>t DEF Double
  <2>2. CASE Overflow
    BY <1>1, <2>2 DEF Overflow
  <2>3. CASE Bisect
    <3>1. cur' = (high - low) \div 2 + low /\ low < cur' /\ cur' < high /\ cur' \in Nat
      BY <2>3, <2>t DEF Bisect
    <3> QED BY <2>3, <2>t, <3>1 DEF Bisect
  <2>4. CASE Found
    BY <2>4 DEF Found, Search
  <2> QED BY <2>1, <2>2, <2>3, <2>4 DEF Step
<1> QED BY <1>1, <1>2, Invariance, PTL DEF Spec
=============================================================================
