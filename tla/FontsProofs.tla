----------------------------- MODULE FontsProofs -----------------------------
(***************************************************************************)
(* The invariants of Fonts, for every set of names, contents and messages. *)
(* What the library finds is fixed by what is stored (NanovgHasFontData);  *)
(* garbage has spoilt its name (GarbageIsReused); and a height or a label  *)
(* was measured with a font that was there (HeightsMeasured, CachesFresh), *)
(* so that storing a new name cannot change what it should be.             *)
(***************************************************************************)
EXTENDS Fonts, WellFoundedInduction, TLAPS

\* A name with garbage counts as one whose contents have changed.
GarbageIsReused == \A n \in Names : fontData[n] = Garbage => n \in reused

\* Only fonts that were found have been measured.
HeightsMeasured == \A n \in (DOMAIN heights \cap Names) \ reused : nvg[n] # None

\* A remembered label is as the font that is found now would have it.
ClipsFresh(cache) ==
  \A k \in DOMAIN cache :
    k.font \notin reused =>
      /\ k.font \in BuiltIn \/ nvg[k.font] # None
      /\ cache[k] = Clipped(k.label, Width[Found(k.font)])

CachesFresh == ClipsFresh(clip) /\ ClipsFresh(prevClip)

IInv ==
  /\ TypeOK /\ NanovgHasFontData /\ GarbageIsReused /\ FontsInUseFound
  /\ HeightsMeasured /\ HeightsFresh /\ CachesFresh

------------------------------------------------------------------------------
(* Initial states *)

LEMMA InitIInv == Init => IInv
<1> SUFFICES ASSUME Init PROVE IInv
  OBVIOUS
<1> USE FontsAssumption DEF FontsAssumption, Init, Empty, BuiltIn
<1>1. TypeOK
  BY DEF TypeOK, Roles
<1>2. NanovgHasFontData /\ GarbageIsReused
  BY DEF NanovgHasFontData, GarbageIsReused
<1>3. FontsInUseFound
  BY DEF FontsInUseFound
<1>4. HeightsMeasured /\ HeightsFresh
  BY DEF HeightsMeasured, HeightsFresh
<1>5. CachesFresh
  BY DEF CachesFresh, ClipsFresh
<1> QED BY <1>1, <1>2, <1>3, <1>4, <1>5 DEF IInv

------------------------------------------------------------------------------
(* What the operators of the messages return *)

\* What nvgClearFonts and the loop after it leave of the fonts
LEMMA ResetFontsFacts ==
  ASSUME NEW data \in [Names -> Data \cup {Garbage, None}]
  PROVE  /\ ResetFonts(data) \in [Names -> Data \cup {None}]
         /\ \A n \in Names : ResetFonts(data)[n] = IF data[n] = Garbage THEN None ELSE data[n]
BY FontsAssumption DEF FontsAssumption, ResetFonts

\* nvgCreateFontMem under a name that is free
LEMMA CreateFacts ==
  ASSUME NEW fonts \in [Names -> Data \cup {None}], NEW n \in Names,
         NEW d \in Data \cup {Garbage}, fonts[n] = None
  PROVE  /\ Create(fonts, n, d) \in [Names -> Data \cup {None}]
         /\ Create(fonts, n, d)[n] = IF d = Garbage THEN None ELSE d
         /\ \A k \in Names \ {n} : Create(fonts, n, d)[k] = fonts[k]
BY FontsAssumption DEF FontsAssumption, Create

\* A font that updateFont takes can be found, or its name has been spoilt.
LEMMA UpdateFontFacts ==
  ASSUME TypeOK, NanovgHasFontData, GarbageIsReused,
         NEW name \in Names \cup {None}, NEW default \in Names \cup BuiltIn,
         default \in BuiltIn \cup reused \/ nvg[default] # None
  PROVE  LET f == UpdateFont(name, default)
         IN f \in Names \cup BuiltIn /\ (f \in BuiltIn \cup reused \/ nvg[f] # None)
<1>1. CASE name # None /\ fontData[name] # None
  BY <1>1 DEF UpdateFont, NanovgHasFontData, GarbageIsReused
<1>2. CASE ~(name # None /\ fontData[name] # None)
  BY <1>2 DEF UpdateFont
<1> QED BY <1>1, <1>2

\* What STOREFONT makes of the fonts: other names keep theirs.
LEMMA StoredIsFound ==
  ASSUME TypeOK, NanovgHasFontData,
         NEW n \in Names, NEW d \in Data \cup {Garbage}, StoreFont(n, d)
  PROVE  /\ nvg' \in [Names -> Data \cup {None}]
         /\ nvg'[n] = IF d = Garbage THEN None ELSE d
         /\ \A k \in Names \ {n} : nvg'[k] = nvg[k]
<1> DEFINE others == [fontData EXCEPT ![n] = None]
           base == IF fontData[n] = None THEN nvg ELSE ResetFonts(others)
<1>1. others \in [Names -> Data \cup {Garbage, None}]
  BY DEF TypeOK
<1>2. /\ base \in [Names -> Data \cup {None}] /\ base[n] = None
      /\ \A k \in Names \ {n} : base[k] = nvg[k]
  <2>1. CASE fontData[n] = None
    BY <2>1, FontsAssumption DEF FontsAssumption, TypeOK, NanovgHasFontData
  <2>2. CASE fontData[n] # None
    <3>1. /\ ResetFonts(others) \in [Names -> Data \cup {None}]
          /\ \A k \in Names : ResetFonts(others)[k]
                               = IF others[k] = Garbage THEN None ELSE others[k]
      BY <1>1, ResetFontsFacts
    <3>2. others[n] = None /\ \A k \in Names \ {n} : others[k] = fontData[k]
      BY DEF TypeOK
    <3> QED BY <2>2, <3>1, <3>2, FontsAssumption DEF FontsAssumption, NanovgHasFontData
  <2> QED BY <2>1, <2>2
<1>3. nvg' = Create(base, n, d)
  BY DEF StoreFont
<1> HIDE DEF base
<1> QED BY <1>2, <1>3, CreateFacts

\* What SETFONTS makes of the names in use
LEMMA SetFontsAreFound ==
  ASSUME TypeOK, NanovgHasFontData, GarbageIsReused,
         NEW m \in SetFontsMessages, SetFonts(m)
  PROVE  /\ inUse' \in [Roles -> Names \cup BuiltIn]
         /\ \A r \in Roles : inUse'[r] \in BuiltIn \cup reused \/ nvg[inUse'[r]] # None
<1> DEFINE Good(f) == f \in Names \cup BuiltIn /\ (f \in BuiltIn \cup reused \/ nvg[f] # None)
           tally == UpdateFont(m["tally"], Serif)
<1>1. \A r \in Roles : m[r] \in Names \cup {None}
  BY FontsAssumption DEF FontsAssumption
<1>2. \A name \in Names \cup {None}, default \in Names \cup BuiltIn :
        Good(default) => Good(UpdateFont(name, default))
  BY UpdateFontFacts
<1>3. Good(Serif) /\ Good(Mono) /\ Good(Sans)
  BY DEF BuiltIn
<1>4. Good(tally)
  BY <1>1, <1>2, <1>3 DEF Roles
<1>5. /\ Good(UpdateFont(m["tally_label"], tally)) /\ Good(UpdateFont(m["status"], tally))
      /\ Good(UpdateFont(m["digital"], Mono)) /\ Good(UpdateFont(m["date"], Serif))
      /\ Good(UpdateFont(m["hours"], Sans))
  <2> HIDE DEF tally
  <2> QED BY <1>1, <1>2, <1>3, <1>4 DEF Roles
<1>6. inUse' = [tally |-> tally,
                tally_label |-> UpdateFont(m["tally_label"], tally),
                status      |-> UpdateFont(m["status"], tally),
                digital     |-> UpdateFont(m["digital"], Mono),
                date        |-> UpdateFont(m["date"], Serif),
                hours       |-> UpdateFont(m["hours"], Sans)]
  BY DEF SetFonts
<1>7. DOMAIN inUse' = Roles /\ \A r \in Roles : Good(inUse'[r])
  <2> HIDE DEF Good, tally
  <2> QED BY <1>4, <1>5, <1>6 DEF Roles
<1> QED BY <1>6, <1>7 DEF Roles

------------------------------------------------------------------------------
(* How TextClip cuts a label *)

\* A set of numbers has a smallest member.
LEMMA LeastNat ==
  ASSUME NEW T \in SUBSET Nat, T # {}
  PROVE  \E x \in T : \A y \in T : x <= y
<1> DEFINE R == OpToRel(<, Nat)
<1>1. IsWellFoundedOn(R, Nat)
  BY NatLessThanWellFounded
<1>2. \A x, y \in Nat : y < x => <<y, x>> \in R
  BY DEF OpToRel
<1> HIDE DEF R
<1>3. PICK x \in T : \A y \in T : ~ (<<y, x>> \in R)
  BY <1>1, WFMin
<1>4. \A y \in T : x <= y
  <2> TAKE y \in T
  <2>1. x \in Nat /\ y \in Nat /\ ~ (y < x)
    BY <1>2, <1>3
  <2> QED BY <2>1
<1> QED BY <1>4

\* A bounded set of numbers has a largest member.
LEMMA GreatestNat ==
  ASSUME NEW T \in SUBSET Nat, T # {}, NEW b \in Nat, \A x \in T : x <= b
  PROVE  \E x \in T : \A y \in T : y <= x
<1> DEFINE U == {b - x : x \in T}
<1>1. U \in SUBSET Nat
  <2>1. \A x \in T : b - x \in Nat
    OBVIOUS
  <2> QED BY <2>1
<1>2. U # {}
  OBVIOUS
<1>3. PICK u \in U : \A v \in U : u <= v
  <2> HIDE DEF U
  <2> QED BY <1>1, <1>2, LeastNat
<1>4. PICK x \in T : u = b - x
  BY <1>3
<1>5. \A y \in T : b - x <= b - y
  BY <1>3, <1>4
<1>6. \A y \in T : y <= x
  <2> TAKE y \in T
  <2>1. b - x <= b - y /\ x \in Nat /\ y \in Nat
    BY <1>5
  <2> QED BY <2>1
<1> QED BY <1>6

\* A text that is too wide would have a part of its length in proportion.
LEMMA StartBound ==
  ASSUME NEW l \in Nat, NEW w \in Nat, NEW r \in Nat, l * w > r
  PROVE  (l * r) \div (l * w) \in 0 .. l
<1>1. l > 0 /\ w > 0
  OBVIOUS
<1>2. l * w \in Nat /\ l * r \in Nat /\ l * w > 0
  BY <1>1
<1>3. l * r <= l * (l * w)
  BY <1>1, <1>2
<1> DEFINE a == l * r
           b == l * w
<1>4. a \in Nat /\ b \in Nat /\ b > 0 /\ a <= l * b
  BY <1>2, <1>3
<1> HIDE DEF a, b
<1>5. a \div b >= 0 /\ a \div b \in Int
  BY <1>4
<1>6. a \div b <= l
  BY <1>4
<1> QED BY <1>5, <1>6 DEF a, b

\* The two loops of TextClip leave as many characters as fit, or one.
LEMMA ClipLengthFits ==
  ASSUME NEW length \in Nat, NEW width \in Nat, NEW room \in Nat, length * width > room
  PROVE  LET k == ClipLength(length, width, room)
         IN /\ k \in 0 .. length
            /\ k * width <= room \/ k = 1
            /\ (k + 1) * width > room
<1> DEFINE start == (length * room) \div (length * width)
           Enough(k) == k * width >= room /\ \A i \in start .. k - 1 : i * width < room
           grown == CHOOSE k \in start .. length : Enough(k)
           fitting == {k \in 1 .. grown : k * width <= room}
           cut == ClipLength(length, width, room)
<1>1. start \in 0 .. length /\ width > 0
  <2>1. width > 0
    OBVIOUS
  <2> QED BY <2>1, StartBound
<1> HIDE DEF start
<1>2. \E k \in start .. length : Enough(k)
  <2> DEFINE T == {k \in start .. length : k * width >= room}
  <2>1. T \in SUBSET Nat /\ length \in T
    BY <1>1
  <2>2. PICK k \in T : \A i \in T : k <= i
    <3> HIDE DEF T
    <3> QED BY <2>1, LeastNat
  <2>3. k \in start .. length /\ k * width >= room
    BY <2>2
  <2>4. \A i \in start .. k - 1 : i * width < room
    <3> TAKE i \in start .. k - 1
    <3>1. i \in start .. length /\ i < k
      BY <1>1, <2>3
    <3>2. i \notin T
      <4> HIDE DEF T
      <4> QED BY <1>1, <2>1, <2>2, <2>3, <3>1
    <3>3. i * width \in Nat
      BY <1>1, <3>1
    <3> QED BY <3>1, <3>2, <3>3
  <2> QED BY <2>3, <2>4
<1>3. grown \in start .. length /\ Enough(grown)
  <2> HIDE DEF Enough
  <2> QED BY <1>2
<1>4. grown \in 0 .. length /\ grown * width >= room
  BY <1>1, <1>3
<1>5. cut = IF fitting # {} THEN CHOOSE k \in fitting : \A i \in fitting : i <= k
                            ELSE IF grown = 0 THEN 0 ELSE 1
  BY DEF ClipLength, start
<1> HIDE DEF grown, cut
<1>6. CASE fitting # {}
  <2>1. fitting \in SUBSET Nat /\ \A k \in fitting : k <= length
    BY <1>4
  <2>2. cut \in fitting /\ \A i \in fitting : i <= cut
    <3> HIDE DEF fitting
    <3>1. \E k \in fitting : \A i \in fitting : i <= k
      BY <1>6, <2>1, GreatestNat
    <3> QED BY <1>5, <1>6, <3>1
  <2>3. cut \in 1 .. grown /\ cut * width <= room
    BY <2>2
  <2>4. (cut + 1) * width > room
    <3>1. CASE cut = grown
      BY <1>1, <1>4, <2>3, <3>1
    <3>2. CASE cut # grown
      <4>1. cut + 1 \in 1 .. grown /\ ~ (cut + 1 <= cut)
        BY <1>4, <2>3, <3>2
      <4>2. cut + 1 \notin fitting
        <5> HIDE DEF fitting
        <5> QED BY <2>2, <4>1
      <4> QED BY <4>1, <4>2
    <3> QED BY <3>1, <3>2
  <2> QED BY <1>4, <2>3, <2>4 DEF cut
<1>7. CASE fitting = {}
  <2>1. CASE grown = 0
    BY <1>1, <1>4, <1>5, <1>7, <2>1 DEF cut
  <2>2. CASE grown # 0
    <3>1. 1 \in 1 .. grown /\ 1 \notin fitting
      <4>1. 1 \in 1 .. grown
        BY <1>4, <2>2
      <4>2. 1 \notin fitting
        <5> HIDE DEF fitting
        <5> QED BY <1>7
      <4> QED BY <4>1, <4>2
    <3>2. 1 * width > room
      BY <3>1
    <3>3. cut = 1
      <4> HIDE DEF fitting
      <4> QED BY <1>5, <1>7, <2>2
    <3> QED BY <1>1, <1>4, <3>1, <3>2, <3>3 DEF cut
  <2> QED BY <2>1, <2>2
<1> QED BY <1>6, <1>7

\* A label and its dots fit, and would not with one more character.
LEMMA ClippedFits ==
  ASSUME NEW label, NEW length \in Nat, NEW room \in Nat, NEW width \in Nat,
         label.length = length, label.room = room
  PROVE  LET c == Clipped(label, width)
             dots == IF c.dots THEN 1 ELSE 0
         IN /\ c.length \in Nat
            /\ (c.length + dots) * width <= room \/ c.length = 1
            /\ c.length = length \/ (c.length + 1 + dots) * width > room
<1>1. CASE length * width <= room
  <2>1. Clipped(label, width) = [length |-> length, dots |-> FALSE]
    BY <1>1 DEF Clipped
  <2> QED BY <1>1, <2>1
<1>2. CASE length * width > room /\ width < room
  <2> DEFINE rest == room - width
             k == ClipLength(length, width, rest)
  <2>1. rest \in Nat /\ length * width > rest
    BY <1>2
  <2> HIDE DEF rest
  <2>2. k \in 0 .. length /\ (k * width <= rest \/ k = 1) /\ (k + 1) * width > rest
    BY <2>1, ClipLengthFits
  <2>3. Clipped(label, width) = [length |-> k, dots |-> TRUE]
    <3>1. ~ (length * width <= room)
      BY <1>2
    <3> QED BY <1>2, <3>1 DEF Clipped, rest
  <2> HIDE DEF k
  <2>4. k \in Nat /\ rest = room - width
    BY <2>2 DEF rest
  <2>5. k * width <= rest => (k + 1) * width <= room
    BY <2>4
  <2>6. (k + 1) * width > rest => (k + 1 + 1) * width > room
    BY <2>4
  <2> QED BY <2>2, <2>3, <2>4, <2>5, <2>6
<1>3. CASE length * width > room /\ ~ (width < room)
  <2> DEFINE k == ClipLength(length, width, room)
  <2>1. k \in 0 .. length /\ (k * width <= room \/ k = 1) /\ (k + 1) * width > room
    BY <1>3, ClipLengthFits
  <2>2. Clipped(label, width) = [length |-> k, dots |-> FALSE]
    <3>1. (length * width <= room) = FALSE /\ (width < room) = FALSE
      BY <1>3
    <3>2. (IF width < room THEN room - width ELSE room) = room
      BY <3>1
    <3> QED BY <3>1, <3>2 DEF Clipped
  <2> HIDE DEF k
  <2>3. k \in Nat /\ k + 0 = k /\ k + 1 + 0 = k + 1
    BY <2>1
  <2> QED BY <2>1, <2>2, <2>3
<1>4. length * width \in Nat
  OBVIOUS
<1> QED BY <1>1, <1>2, <1>3, <1>4

------------------------------------------------------------------------------
(* Steps *)

\* Every step keeps the types, ...
LEMMA TypeStep ==
  TypeOK /\ NanovgHasFontData /\ GarbageIsReused /\ FontsInUseFound /\ [Next]_vars => TypeOK'
<1> SUFFICES ASSUME TypeOK, NanovgHasFontData, GarbageIsReused, FontsInUseFound, [Next]_vars
             PROVE  TypeOK'
  OBVIOUS
<1> USE FontsAssumption DEF FontsAssumption, TypeOK
<1>1. ASSUME NEW n \in Names, NEW d \in Data \cup {Garbage}, StoreFont(n, d) PROVE TypeOK'
  <2>1. nvg' \in [Names -> Data \cup {None}]
    BY <1>1, StoredIsFound
  <2> QED BY <1>1, <2>1 DEF StoreFont
<1>2. CASE ClearFonts
  <2>1. nvg' \in [Names -> Data \cup {None}]
    BY <1>2, ResetFontsFacts DEF ClearFonts
  <2> QED BY <1>2, <2>1 DEF ClearFonts
<1>3. ASSUME NEW m \in SetFontsMessages, SetFonts(m) PROVE TypeOK'
  <2>1. inUse' \in [Roles -> Names \cup BuiltIn]
    BY <1>3, SetFontsAreFound
  <2> QED BY <1>3, <2>1 DEF SetFonts
<1>4. ASSUME NEW labels \in SUBSET Labels, Draw(labels) PROVE TypeOK'
  <2>1. {Key(l) : l \in labels} \subseteq Keys
    BY DEF Key, Keys, Roles
  <2>2. {inUse[r] : r \in Roles \ {"hours"}} \subseteq Names \cup BuiltIn
    OBVIOUS
  <2>3. DOMAIN clip' \subseteq Keys /\ DOMAIN heights' \subseteq Names \cup BuiltIn
    BY <1>4, <2>1, <2>2 DEF Draw
  <2> QED BY <1>4, <2>3 DEF Draw
<1>5. CASE Rotate
  BY <1>5 DEF Rotate, Empty
<1>6. CASE UNCHANGED vars
  BY <1>6 DEF vars
<1> QED BY <1>1, <1>2, <1>3, <1>4, <1>5, <1>6 DEF Next

\* ... the library has what is stored, and garbage spoils its name ...
LEMMA StoredStep ==
  TypeOK /\ NanovgHasFontData /\ GarbageIsReused /\ [Next]_vars
    => NanovgHasFontData' /\ GarbageIsReused'
<1> SUFFICES ASSUME TypeOK, NanovgHasFontData, GarbageIsReused, [Next]_vars
             PROVE  NanovgHasFontData' /\ GarbageIsReused'
  OBVIOUS
<1> USE FontsAssumption DEF FontsAssumption, TypeOK, NanovgHasFontData, GarbageIsReused
<1>1. ASSUME NEW n \in Names, NEW d \in Data \cup {Garbage}, StoreFont(n, d)
      PROVE  NanovgHasFontData' /\ GarbageIsReused'
  <2>1. /\ fontData' = [fontData EXCEPT ![n] = d]
        /\ reused' = IF fontData[n] # None \/ d = Garbage THEN reused \cup {n} ELSE reused
    BY <1>1 DEF StoreFont
  <2>2. NanovgHasFontData'
    BY <1>1, <2>1, StoredIsFound
  <2>3. GarbageIsReused'
    BY <2>1
  <2> QED BY <2>2, <2>3
<1>2. CASE ClearFonts
  <2>1. fontData' = [n \in Names |-> None] /\ nvg' = ResetFonts(fontData')
    BY <1>2 DEF ClearFonts
  <2>2. \A n \in Names : nvg'[n] = None
    BY <2>1, ResetFontsFacts
  <2> QED BY <2>1, <2>2
<1>3. CASE \E m \in SetFontsMessages : SetFonts(m)
  BY <1>3 DEF SetFonts
<1>4. CASE (\E labels \in SUBSET Labels : Draw(labels)) \/ Rotate \/ UNCHANGED vars
  BY <1>4 DEF Draw, Rotate, vars
<1> QED BY <1>1, <1>2, <1>3, <1>4 DEF Next

\* ... a font in use is found, unless its name is spoilt ...
LEMMA InUseStep ==
  TypeOK /\ NanovgHasFontData /\ GarbageIsReused /\ FontsInUseFound /\ [Next]_vars
    => FontsInUseFound'
<1> SUFFICES ASSUME TypeOK, NanovgHasFontData, GarbageIsReused, FontsInUseFound, [Next]_vars
             PROVE  FontsInUseFound'
  OBVIOUS
<1>1. ASSUME NEW n \in Names, NEW d \in Data \cup {Garbage}, StoreFont(n, d)
      PROVE  FontsInUseFound'
  <2>1. /\ inUse' = inUse
        /\ reused' = IF fontData[n] # None \/ d = Garbage THEN reused \cup {n} ELSE reused
    BY <1>1 DEF StoreFont
  <2>2. /\ nvg'[n] = IF d = Garbage THEN None ELSE d
        /\ \A k \in Names \ {n} : nvg'[k] = nvg[k]
    BY <1>1, StoredIsFound
  <2> QED BY <2>1, <2>2, FontsAssumption
       DEF FontsAssumption, TypeOK, FontsInUseFound
<1>2. CASE ClearFonts
  <2>1. /\ inUse' = inUse /\ reused' = reused \cup {n \in Names : fontData[n] # None}
    BY <1>2 DEF ClearFonts
  <2>2. \A n \in Names : nvg[n] # None => fontData[n] # None
    BY FontsAssumption DEF FontsAssumption, NanovgHasFontData
  <2> QED BY <2>1, <2>2 DEF TypeOK, FontsInUseFound
<1>3. ASSUME NEW m \in SetFontsMessages, SetFonts(m) PROVE FontsInUseFound'
  <2>1. nvg' = nvg /\ reused' = reused
    BY <1>3 DEF SetFonts
  <2> QED BY <1>3, <2>1, SetFontsAreFound DEF FontsInUseFound
<1>4. CASE (\E labels \in SUBSET Labels : Draw(labels)) \/ Rotate \/ UNCHANGED vars
  BY <1>4 DEF FontsInUseFound, Draw, Rotate, vars
<1> QED BY <1>1, <1>2, <1>3, <1>4 DEF Next

\* ... a height is that of the font that is found ...
LEMMA HeightsStep == IInv /\ [Next]_vars => HeightsMeasured' /\ HeightsFresh'
<1> SUFFICES ASSUME IInv, [Next]_vars PROVE HeightsMeasured' /\ HeightsFresh'
  OBVIOUS
<1> USE DEF IInv, HeightsMeasured, HeightsFresh
<1>1. ASSUME NEW n \in Names, NEW d \in Data \cup {Garbage}, StoreFont(n, d)
      PROVE  HeightsMeasured' /\ HeightsFresh'
  <2>1. /\ heights' = heights
        /\ reused' = IF fontData[n] # None \/ d = Garbage THEN reused \cup {n} ELSE reused
    BY <1>1 DEF StoreFont
  <2>2. \A k \in Names \ {n} : nvg'[k] = nvg[k]
    BY <1>1, StoredIsFound
  <2>3. n \in DOMAIN heights => n \in reused'
    BY <2>1, FontsAssumption DEF FontsAssumption, NanovgHasFontData
  <2> QED BY <2>1, <2>2, <2>3 DEF TypeOK, Found
<1>2. CASE ClearFonts
  <2>1. /\ heights' = heights
        /\ reused' = reused \cup {n \in Names : fontData[n] # None}
    BY <1>2 DEF ClearFonts
  <2>2. DOMAIN heights \cap Names \subseteq reused'
    BY <2>1, FontsAssumption DEF FontsAssumption, NanovgHasFontData
  <2> QED BY <2>1, <2>2 DEF TypeOK, Found
<1>3. CASE \E m \in SetFontsMessages : SetFonts(m)
  BY <1>3 DEF SetFonts, Found
<1>4. ASSUME NEW labels \in SUBSET Labels, Draw(labels)
      PROVE  HeightsMeasured' /\ HeightsFresh'
  <2> DEFINE measured == {inUse[r] : r \in Roles \ {"hours"}}
  <2>1. /\ nvg' = nvg /\ reused' = reused
        /\ heights' = [n \in DOMAIN heights \cup measured |->
                         IF n \in DOMAIN heights THEN heights[n] ELSE Found(n)]
    BY <1>4 DEF Draw
  <2>2. \A n \in measured : n \in BuiltIn \cup reused \/ nvg[n] # None
    BY DEF FontsInUseFound
  <2>3. BuiltIn \cap Names = {}
    BY FontsAssumption DEF FontsAssumption
  <2>4. HeightsMeasured'
    BY <2>1, <2>2, <2>3
  <2>5. HeightsFresh'
    <3> HIDE DEF measured
    <3> QED BY <2>1 DEF Found
  <2> QED BY <2>4, <2>5
<1>5. CASE Rotate \/ UNCHANGED vars
  BY <1>5 DEF Rotate, vars, Found
<1> QED BY <1>1, <1>2, <1>3, <1>4, <1>5 DEF Next

\* A font that is found stays the same until its name is spoilt.
LEMMA FoundStays ==
  ASSUME TypeOK, NanovgHasFontData, [Next]_vars, NEW n \in (Names \cup BuiltIn) \ reused',
         n \in BuiltIn \/ nvg[n] # None
  PROVE  /\ n \notin reused /\ (n \in BuiltIn \/ nvg'[n] # None)
         /\ Found(n)' = Found(n)
<1>1. ASSUME NEW m \in Names, NEW d \in Data \cup {Garbage}, StoreFont(m, d)
      PROVE  n \notin reused /\ (n \in Names \ BuiltIn => nvg'[n] = nvg[n])
  <2>1. reused' = IF fontData[m] # None \/ d = Garbage THEN reused \cup {m} ELSE reused
    BY <1>1 DEF StoreFont
  <2>2. \A k \in Names \ {m} : nvg'[k] = nvg[k]
    BY <1>1, StoredIsFound
  <2>3. n = m => n \in BuiltIn \/ fontData[n] # None
    BY FontsAssumption DEF FontsAssumption, NanovgHasFontData
  <2> QED BY <2>1, <2>2, <2>3
<1>2. CASE ClearFonts
  <2>1. reused' = reused \cup {k \in Names : fontData[k] # None}
    BY <1>2 DEF ClearFonts
  <2>2. n \in Names \ BuiltIn => fontData[n] # None
    BY FontsAssumption DEF FontsAssumption, NanovgHasFontData
  <2> QED BY <2>1, <2>2 DEF Found
<1>3. CASE \E m \in SetFontsMessages : SetFonts(m)
  BY <1>3 DEF SetFonts, Found
<1>4. CASE (\E labels \in SUBSET Labels : Draw(labels)) \/ Rotate \/ UNCHANGED vars
  BY <1>4 DEF Draw, Rotate, vars, Found
<1> QED BY <1>1, <1>2, <1>3, <1>4 DEF Next, Found

\* ... and a remembered label is cut as it would be now.
LEMMA CachesStep == IInv /\ [Next]_vars => CachesFresh'
<1> SUFFICES ASSUME IInv, [Next]_vars PROVE CachesFresh'
  OBVIOUS
<1>1. \A n \in (Names \cup BuiltIn) \ reused' : n \in BuiltIn \/ nvg[n] # None =>
        /\ n \notin reused /\ (n \in BuiltIn \/ nvg'[n] # None) /\ Found(n)' = Found(n)
  BY FoundStays DEF IInv
<1>2. ASSUME NEW cache, DOMAIN cache \subseteq Keys, ClipsFresh(cache)
      PROVE  \A k \in DOMAIN cache : k.font \notin reused' =>
               /\ k.font \in BuiltIn \/ nvg'[k.font] # None
               /\ cache[k] = Clipped(k.label, Width[Found(k.font)'])
  <2> TAKE k \in DOMAIN cache
  <2> HAVE k.font \notin reused'
  <2>1. k.font \in Names \cup BuiltIn
    BY <1>2 DEF Keys
  <2>2. reused \subseteq reused'
    BY DEF IInv, Next, vars, StoreFont, ClearFonts, SetFonts, Draw, Rotate
  <2> QED BY <1>1, <1>2, <2>1, <2>2 DEF ClipsFresh
<1>3. ASSUME NEW labels \in SUBSET Labels, Draw(labels) PROVE CachesFresh'
  <2> DEFINE keys == {Key(l) : l \in labels}
  <2>1. /\ nvg' = nvg /\ reused' = reused /\ prevClip' = prevClip
        /\ clip' = [k \in keys |-> IF k \in DOMAIN prevClip THEN prevClip[k]
                                   ELSE Clipped(k.label, Width[Found(k.font)])]
    BY <1>3 DEF Draw
  <2>2. \A n : Found(n)' = Found(n)
    BY <2>1 DEF Found
  <2>3. \A k \in keys : k.font \in BuiltIn \cup reused \/ nvg[k.font] # None
    BY DEF IInv, FontsInUseFound, Key, Roles
  <2> HIDE DEF keys
  <2>4. ClipsFresh(prevClip)'
    BY <2>1, <2>2 DEF IInv, CachesFresh, ClipsFresh
  <2>5. ClipsFresh(clip)'
    <3> SUFFICES ASSUME NEW k \in keys, k.font \notin reused
                 PROVE  /\ k.font \in BuiltIn \/ nvg[k.font] # None
                        /\ clip'[k] = Clipped(k.label, Width[Found(k.font)])
      BY <2>1, <2>2 DEF ClipsFresh
    <3> QED BY <2>1, <2>3 DEF IInv, CachesFresh, ClipsFresh
  <2> QED BY <2>4, <2>5 DEF CachesFresh
<1>4. CASE Rotate
  <2>1. /\ nvg' = nvg /\ reused' = reused /\ prevClip' = clip /\ clip' = Empty
    BY <1>4 DEF Rotate
  <2> QED BY <2>1 DEF IInv, CachesFresh, ClipsFresh, Found, Empty
<1>5. CASE clip' = clip /\ prevClip' = prevClip
  BY <1>2, <1>5 DEF IInv, TypeOK, CachesFresh, ClipsFresh
<1>6. CASE UNCHANGED vars
  BY <1>5, <1>6 DEF vars
<1>7. CASE \/ \E n \in Names, d \in Data \cup {Garbage} : StoreFont(n, d)
           \/ ClearFonts
           \/ \E m \in SetFontsMessages : SetFonts(m)
  BY <1>5, <1>7 DEF StoreFont, ClearFonts, SetFonts
<1> QED BY <1>3, <1>4, <1>6, <1>7 DEF Next

------------------------------------------------------------------------------
(* Theorems *)

\* The inductive invariant of the messages about fonts and of the frames
THEOREM Invariance == Spec => []IInv
<1>1. IInv /\ [Next]_vars => IInv'
  BY TypeStep, StoredStep, InUseStep, HeightsStep, CachesStep DEF IInv
<1> QED BY InitIInv, <1>1, PTL DEF Spec

\* Every variable of Fonts keeps its type.
THEOREM TypeCorrect == Spec => []TypeOK
<1>1. IInv => TypeOK
  BY DEF IInv
<1> QED BY Invariance, <1>1, PTL

\* The library never draws with contents that are not stored any more:
\* resetFonts and nvgCreateFontMem keep the two together.
THEOREM LibraryHasFontData == Spec => []NanovgHasFontData
<1>1. IInv => NanovgHasFontData
  BY DEF IInv
<1> QED BY Invariance, <1>1, PTL

\* updateFont never takes up a name that the library cannot find, unless its
\* contents are garbage, and only its own contents can take it away.
THEOREM FontsAreFound == Spec => []FontsInUseFound
<1>1. IInv => FontsInUseFound
  BY DEF IInv
<1> QED BY Invariance, <1>1, PTL

\* TextHeight's remembered heights are right, although nothing clears them,
\* for every name that has had one font only.
THEOREM HeightsAreFresh == Spec => []HeightsFresh
<1>1. IInv => HeightsFresh
  BY DEF IInv
<1> QED BY Invariance, <1>1, PTL

\* TextClip's labels fit their boxes and fill them, for every width of
\* characters, length and room, although the cache outlives the fonts.
THEOREM LabelsAlwaysFit == Spec => []LabelsFit
<1>1. IInv => LabelsFit
  <2> SUFFICES ASSUME IInv, NEW k \in DOMAIN clip, k.font \notin reused
               PROVE  LET dots == IF clip[k].dots THEN 1 ELSE 0
                          length == clip[k].length
                      IN /\ Drawn(k, length + dots) <= k.label.room \/ length = 1
                         /\ length = k.label.length
                            \/ Drawn(k, length + 1 + dots) > k.label.room
    BY DEF LabelsFit
  <2> DEFINE width == Width[Found(k.font)]
  <2>1. k.label \in Labels /\ k.font \in Names \cup BuiltIn
    BY DEF IInv, TypeOK, Keys
  <2>2. k.label.length \in Nat /\ k.label.room \in Nat
    BY <2>1, FontsAssumption DEF FontsAssumption
  <2>3. Found(k.font) \in Data \cup BuiltIn \cup {None}
    BY <2>1 DEF IInv, TypeOK, Found
  <2>4. width \in Nat
    BY <2>3, FontsAssumption DEF FontsAssumption
  <2>5. clip[k] = Clipped(k.label, width)
    BY DEF IInv, CachesFresh, ClipsFresh
  <2> HIDE DEF width
  <2>6. LET c == Clipped(k.label, width)
            dots == IF c.dots THEN 1 ELSE 0
        IN /\ (c.length + dots) * width <= k.label.room \/ c.length = 1
           /\ c.length = k.label.length \/ (c.length + 1 + dots) * width > k.label.room
    BY <2>2, <2>4, ClippedFits
  <2> QED BY <2>5, <2>6 DEF Drawn, width
<1> QED BY Invariance, <1>1, PTL
=============================================================================
