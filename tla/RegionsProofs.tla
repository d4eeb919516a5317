----------------------------- MODULE RegionsProofs -----------------------------
(***************************************************************************)
(* The two caches a frame draws from are fresh up to the face of the font, *)
(* for every set of regions and commands: each handler either reports what *)
(* it changes or changes nothing that the cache was computed from, except  *)
(* STOREFONT and CLEARFONTS, which change no more than the face.           *)
(***************************************************************************)
EXTENDS Regions, TLAPS

\* Boxes were computed with one of the faces from the rest of what they depend on.
Computed(seen, laidOut, clocks, style) ==
  seen # NotLaidOut /\ \E face \in faces : laidOut = <<seen[1], seen[2], clocks, style, face>>

\* Those of a region were, or it knows that they were not.
UpToDate(rs) == rs.recalc \/ Computed(rs.seen, rs.laidOut, rs.clocks, rs.style)

RegionsUpToDate == \A r \in DOMAIN regions : UpToDate(regions[r])

\* Between two frames nothing waits to be recalculated.
NothingWaits ==
  ~inFrame => ~sizeChanged /\ \A r \in DOMAIN regions : ~Stale(regions[r], display)

\* The text sizes fit what would be drawn in this face.
FitIn(face) ==
  \A z \in Zones :
    Ordinary(Drawn(z, face)) # {} => Ordinary(Drawn(z, face)) = Ordinary(measured[z])

\* They fit in a face the font has had, or somebody has reported that they do not.
TextsKnown == sizeChanged \/ \E face \in faces : FitIn(face)

IInv == TypeOK /\ RegionsUpToDate /\ NothingWaits /\ TextsKnown

\* A region has the type of one, and SETLAYOUT's clocks until SETCLOCKS.
IsRegion(rs) == rs \in RegionStates /\ (rs.legacy => rs.clocks = rs.layout)

------------------------------------------------------------------------------
(* Regions *)

\* The region that a command finds when there was none
LEMMA NewRegionFacts ==
  IsRegion(NewRegion) /\ UpToDate(NewRegion) /\ ~ Shown(NewRegion)
BY DEF IsRegion, NewRegion, RegionStates, Places, Layouts, ClockSets, Styles, Boxes,
       UpToDate, Shown, NoBox

\* The parts of a type that the handlers need
LEMMA TypeParts ==
  ASSUME TypeOK
  PROVE  \A r \in DOMAIN regions : r \in RegionIds /\ IsRegion(regions[r])
BY DEF TypeOK, IsRegion

\* A command finds regions, its own among them, that are up to date.
LEMMA PreparedType ==
  ASSUME TypeOK, RegionsUpToDate, NEW m \in Commands
  PROVE  /\ Target(m) \in DOMAIN Prepared(m) /\ DOMAIN Prepared(m) \subseteq RegionIds
         /\ \A r \in DOMAIN Prepared(m) : IsRegion(Prepared(m)[r]) /\ UpToDate(Prepared(m)[r])
<1> DEFINE kept == IF m.region = NoIndex THEN RegionCount(regions, 1) ELSE regions
           t == Target(m)
           old == IF t \in DOMAIN kept THEN kept[t] ELSE NewRegion
           new == IF m.region = NoIndex /\ old.place # Full
                    THEN [old EXCEPT !.place = Full, !.recalc = TRUE] ELSE old
<1>1. t \in RegionIds
  BY RegionsAssumption DEF RegionsAssumption, Target
<1>2. /\ DOMAIN kept \subseteq DOMAIN regions
      /\ \A r \in DOMAIN kept : kept[r] = regions[r]
  BY DEF RegionCount
<1>3. /\ DOMAIN kept \subseteq RegionIds
      /\ \A r \in DOMAIN kept : IsRegion(kept[r]) /\ UpToDate(kept[r])
  BY <1>2, TypeParts DEF RegionsUpToDate
<1>4. IsRegion(old) /\ UpToDate(old)
  BY <1>3, NewRegionFacts
<1>5. Prepared(m) = [r \in DOMAIN kept \cup {t} |-> IF r = t THEN new ELSE kept[r]]
  BY DEF Prepared
<1> HIDE DEF kept, t, old
<1>6. IsRegion(new) /\ UpToDate(new)
  BY <1>4, ZenonT(30) DEF IsRegion, UpToDate, RegionStates, Places
<1> HIDE DEF new
<1>7. /\ t \in DOMAIN Prepared(m) /\ DOMAIN Prepared(m) \subseteq RegionIds
      /\ \A r \in DOMAIN Prepared(m) : IsRegion(Prepared(m)[r]) /\ UpToDate(Prepared(m)[r])
  BY <1>1, <1>3, <1>5, <1>6
<1> QED BY <1>7 DEF t

\* Prepared(m) is a function.
LEMMA PreparedForm ==
  ASSUME NEW m
  PROVE  Prepared(m) = [r \in DOMAIN Prepared(m) |-> Prepared(m)[r]]
BY DEF Prepared

\* A command that reports no change of size in finding them has changed none,
\* and made at most one that shows nothing.
LEMMA PreparedKeeps ==
  ASSUME TypeOK, NEW m \in Commands, ~ ClearsOthers(m)
  PROVE  /\ DOMAIN regions \subseteq DOMAIN Prepared(m)
         /\ \A r \in DOMAIN regions : Prepared(m)[r] = regions[r]
         /\ \A r \in DOMAIN Prepared(m) \ DOMAIN regions : Prepared(m)[r] = NewRegion
<1> DEFINE kept == IF m.region = NoIndex THEN RegionCount(regions, 1) ELSE regions
           t == Target(m)
           old == IF t \in DOMAIN kept THEN kept[t] ELSE NewRegion
           new == IF m.region = NoIndex /\ old.place # Full
                    THEN [old EXCEPT !.place = Full, !.recalc = TRUE] ELSE old
<1>1. regions = [r \in DOMAIN regions |-> regions[r]] /\ DOMAIN regions \subseteq Nat
  BY RegionsAssumption DEF RegionsAssumption, TypeOK
<1>2. kept = regions
  <2>1. CASE m.region = NoIndex
    <3>1. {i \in DOMAIN regions : i < 1} = DOMAIN regions
      BY <1>1, <2>1 DEF ClearsOthers
    <3> QED BY <1>1, <2>1, <3>1 DEF RegionCount
  <2> QED BY <2>1
<1>3. new = old
  BY <1>2 DEF ClearsOthers, Target, NewRegion
<1>4. Prepared(m) = [r \in DOMAIN kept \cup {t} |-> IF r = t THEN new ELSE kept[r]]
  BY DEF Prepared
<1>5. old = IF t \in DOMAIN regions THEN regions[t] ELSE NewRegion
  BY <1>2
<1> HIDE DEF kept, t, new, old
<1> QED BY <1>2, <1>3, <1>4, <1>5

------------------------------------------------------------------------------
(* What the text sizes depend on *)

\* Two states of a region whose indicators have the same text of the same size
SameText(a, b) ==
  /\ a.size = b.size /\ a.columns = b.columns /\ a.box = b.box
  /\ a.zone = b.zone /\ a.laidOut = b.laidOut

\* If all that is shown before or after a step is the same, so are the texts
\* that have to fit: the images do not matter to ordinary ones.
LEMMA SameDrawn ==
  ASSUME images \subseteq ImageNames, images' \subseteq ImageNames,
         \A r \in DOMAIN regions' :
           \/ r \in DOMAIN regions /\ SameText(regions'[r], regions[r])
           \/ ~ Shown(regions'[r]) /\ (r \in DOMAIN regions => ~ Shown(regions[r])),
         \A r \in DOMAIN regions \ DOMAIN regions' : ~ Shown(regions[r]),
         NEW z, NEW face
  PROVE  Ordinary(Drawn(z, face))' = Ordinary(Drawn(z, face))
<1>1. \A a, b : SameText(a, b) =>
        /\ Shown(a) <=> Shown(b)
        /\ Item(a, face) = Item(b, face)
        /\ \A r : ZoneOf(r, a) = ZoneOf(r, b)
  BY DEF SameText, Shown, Item, ZoneOf, EffectiveColumns
<1>2. \A rs : Item(rs, face).text = rs.box.text
  BY DEF Item
<1>3. \A x : x \in Ordinary(Drawn(z, face)) <=>
        \E r \in DOMAIN regions :
          /\ Shown(regions[r]) /\ ZoneOf(r, regions[r]) = z
          /\ regions[r].box.text \notin ImageNames /\ x = Item(regions[r], face)
  BY <1>2 DEF Ordinary, Drawn, Items
<1>4. \A x : x \in Ordinary(Drawn(z, face))' <=>
        \E r \in DOMAIN regions' :
          /\ Shown(regions'[r]) /\ ZoneOf(r, regions'[r]) = z
          /\ regions'[r].box.text \notin ImageNames /\ x = Item(regions'[r], face)
  BY <1>2 DEF Ordinary, Drawn, Items
<1>5. \A r \in DOMAIN regions : Shown(regions[r]) =>
        r \in DOMAIN regions' /\ SameText(regions'[r], regions[r])
  OBVIOUS
<1>6. \A r \in DOMAIN regions' : Shown(regions'[r]) =>
        r \in DOMAIN regions /\ SameText(regions'[r], regions[r])
  OBVIOUS
<1>7. \A x : x \in Ordinary(Drawn(z, face))' <=> x \in Ordinary(Drawn(z, face))
  BY <1>1, <1>3, <1>4, <1>5, <1>6 DEF SameText
<1> QED BY <1>7 DEF Ordinary

\* With the text sizes as they are, the same texts keep them known.
LEMMA TextsStayKnown ==
  ASSUME TextsKnown, ~ sizeChanged, measured' = measured, faces \subseteq faces',
         \A z, face : Ordinary(Drawn(z, face))' = Ordinary(Drawn(z, face))
  PROVE  TextsKnown'
<1>1. \A z \in Zones : Ordinary(measured[z])' = Ordinary(measured[z])
  BY DEF Ordinary
<1>2. PICK face \in faces : FitIn(face)
  BY DEF TextsKnown
<1>3. \A z \in Zones : Ordinary(Drawn(z, face))' # {} =>
        Ordinary(Drawn(z, face))' = Ordinary(measured[z])'
  BY <1>1, <1>2 DEF FitIn
<1>4. face \in faces'
  BY <1>2
<1> QED BY <1>3, <1>4 DEF TextsKnown, FitIn

------------------------------------------------------------------------------
(* Steps *)

\* All of it holds before the first frame.
LEMMA InitIInv == Init => IInv
<1> SUFFICES ASSUME Init PROVE IInv
  OBVIOUS
<1>1. TypeOK
  BY NewRegionFacts, RegionsAssumption
     DEF RegionsAssumption, Init, TypeOK, IsRegion, Displays, Contents, Faces, Face, FaceOf, Default
<1>2. RegionsUpToDate
  BY NewRegionFacts DEF Init, RegionsUpToDate
<1> QED BY <1>1, <1>2 DEF Init, IInv, NothingWaits, TextsKnown

\* What every handler of a region command owes: a region, that knows whether
\* its boxes are up to date, and a report of any change of its text's size.
LEMMA UpdateStep ==
  ASSUME IInv, NEW m \in Commands, NEW new, NEW resizes,
         Handling,
         regions' = [Prepared(m) EXCEPT ![Target(m)] = new],
         sizeChanged' = (sizeChanged \/ ClearsOthers(m) \/ resizes),
         UNCHANGED <<images, display, fontData, font, faces, measured>>,
         IsRegion(new), UpToDate(new),
         ~ resizes => SameText(new, Prepared(m)[Target(m)])
  PROVE  IInv'
<1> USE DEF IInv
<1>1. /\ Target(m) \in DOMAIN Prepared(m) /\ DOMAIN Prepared(m) \subseteq RegionIds
      /\ \A r \in DOMAIN Prepared(m) : IsRegion(Prepared(m)[r]) /\ UpToDate(Prepared(m)[r])
  BY PreparedType
<1>2. /\ DOMAIN regions' = DOMAIN Prepared(m)
      /\ \A r \in DOMAIN regions' : regions'[r] = IF r = Target(m) THEN new ELSE Prepared(m)[r]
      /\ regions' = [r \in DOMAIN regions' |-> regions'[r]]
  BY <1>1, PreparedForm
<1>3. \A r \in DOMAIN regions' : IsRegion(regions'[r]) /\ UpToDate(regions'[r])
  BY <1>1, <1>2
<1>4. sizeChanged' \in BOOLEAN /\ inFrame' = TRUE
  BY DEF Handling
<1>5. TypeOK'
  BY <1>1, <1>2, <1>3, <1>4 DEF TypeOK, IsRegion, Face, FaceOf
<1>6. RegionsUpToDate'
  BY <1>3 DEF RegionsUpToDate, UpToDate, Computed
<1>7. NothingWaits'
  BY <1>4 DEF NothingWaits
<1>8. ASSUME ~ sizeChanged' PROVE TextsKnown'
  <2>1. ~ sizeChanged /\ ~ ClearsOthers(m) /\ SameText(new, Prepared(m)[Target(m)])
    BY <1>8
  <2>2. /\ DOMAIN regions \subseteq DOMAIN Prepared(m)
        /\ \A r \in DOMAIN regions : Prepared(m)[r] = regions[r]
        /\ \A r \in DOMAIN Prepared(m) \ DOMAIN regions : Prepared(m)[r] = NewRegion
    BY <2>1, PreparedKeeps
  <2>3. \A a, b : SameText(a, b) => (Shown(a) <=> Shown(b))
    BY DEF SameText, Shown
  <2>4. \A r \in DOMAIN regions' : SameText(regions'[r], Prepared(m)[r])
    BY <1>2, <2>1 DEF SameText
  <2>5. \A r \in DOMAIN regions' :
           \/ r \in DOMAIN regions /\ SameText(regions'[r], regions[r])
           \/ ~ Shown(regions'[r]) /\ (r \in DOMAIN regions => ~ Shown(regions[r]))
    BY <1>2, <2>2, <2>3, <2>4, NewRegionFacts
  <2>6. DOMAIN regions \ DOMAIN regions' = {}
    BY <1>2, <2>2
  <2>7. images \subseteq ImageNames /\ images' \subseteq ImageNames
    BY DEF TypeOK
  <2>8. \A z, face : Ordinary(Drawn(z, face))' = Ordinary(Drawn(z, face))
    BY <2>5, <2>6, <2>7, SameDrawn
  <2> QED BY <2>1, <2>8, TextsStayKnown
<1>9. TextsKnown'
  BY <1>8 DEF TextsKnown
<1> QED BY <1>5, <1>6, <1>7, <1>9

\* The handlers of region commands
LEMMA RegionCommandStep ==
  ASSUME IInv, NEW m \in Commands,
         \/ SetSize(m) \/ SetRow(m) \/ SetTally(m) \/ SetCountdown(m) \/ SetLabel(m)
         \/ SetLocation(m) \/ SetFontSizeZones(m) \/ SetLayout(m) \/ SetClocks(m)
  PROVE  IInv'
<1> DEFINE old == Prepared(m)[Target(m)]
<1>1. IsRegion(old) /\ UpToDate(old)
  BY PreparedType DEF IInv
<1>a. m.arg \in Args(m.cmd)
  BY DEF Args, CommandsOf
<1>2. CASE SetSize(m)
  <2> DEFINE new == [old EXCEPT !.size = m.arg]
  <2>1. IsRegion(new) /\ UpToDate(new)
    BY <1>1, <1>a, <1>2 DEF SetSize, IsRegion, UpToDate, RegionStates
  <2>2. ~ (old # new) => SameText(new, old)
    BY DEF SameText
  <2> HIDE DEF new
  <2> QED BY <1>2, <2>1, <2>2, UpdateStep DEF SetSize, Update, Differs, new
<1>3. CASE SetRow(m)
  <2> DEFINE new == [old EXCEPT !.columns = m.arg]
             resizes == old # new
  <2>1. IsRegion(new) /\ UpToDate(new)
    BY <1>1, <1>a, <1>3 DEF SetRow, IsRegion, UpToDate, RegionStates
  <2>2. ~ resizes => SameText(new, old)
    BY <1>1 DEF SameText, IsRegion, RegionStates
  <2>3. /\ Handling /\ regions' = [Prepared(m) EXCEPT ![Target(m)] = new]
        /\ sizeChanged' = (sizeChanged \/ ClearsOthers(m) \/ resizes)
        /\ UNCHANGED <<images, display, fontData, font, faces, measured>>
    BY <1>3 DEF SetRow, Update, Differs
  <2> HIDE DEF new, resizes
  <2> QED BY <2>1, <2>2, <2>3, UpdateStep
<1>4. CASE SetTally(m)
  <2> DEFINE label == IF old.box.kind = "tally" THEN old.box.label ELSE NoLabel
             new == [old EXCEPT !.box =
                        [kind |-> "tally", text |-> m.arg, label |-> label]]
             resizes == old.box.kind # "tally" \/ old.box.text # m.arg
  <2>1. IsRegion(new) /\ UpToDate(new)
    <3>1. label \in Args("SETLABEL") \cup {NoLabel}
      BY <1>1 DEF IsRegion, RegionStates, Boxes, NoBox
    <3>2. [kind |-> "tally", text |-> m.arg, label |-> label] \in Boxes
      BY <1>a, <1>4, <3>1 DEF SetTally, Boxes
    <3> HIDE DEF label
    <3> QED BY <1>1, <3>2 DEF IsRegion, UpToDate, RegionStates
  <2>2. ~ resizes => SameText(new, old)
    BY <1>1 DEF SameText, IsRegion, RegionStates, Boxes, NoBox
  <2>3. /\ Handling /\ regions' = [Prepared(m) EXCEPT ![Target(m)] = new]
        /\ sizeChanged' = (sizeChanged \/ ClearsOthers(m) \/ resizes)
        /\ UNCHANGED <<images, display, fontData, font, faces, measured>>
    BY <1>4 DEF SetTally, Update
  <2> HIDE DEF new, resizes
  <2> QED BY <2>1, <2>2, <2>3, UpdateStep
<1>5. CASE SetCountdown(m)
  <2> DEFINE new == [old EXCEPT !.box = [kind |-> "countdown", text |-> m.arg]]
             resizes == old.box.kind # "countdown" \/ old.box.text # m.arg
  <2>1. IsRegion(new) /\ UpToDate(new)
    BY <1>1, <1>a, <1>5, ZenonT(30) DEF SetCountdown, IsRegion, UpToDate, RegionStates, Boxes, NoBox
  <2>2. ~ resizes => SameText(new, old)
    BY <1>1 DEF SameText, IsRegion, RegionStates, Boxes, NoBox
  <2>3. /\ Handling /\ regions' = [Prepared(m) EXCEPT ![Target(m)] = new]
        /\ sizeChanged' = (sizeChanged \/ ClearsOthers(m) \/ resizes)
        /\ UNCHANGED <<images, display, fontData, font, faces, measured>>
    BY <1>5 DEF SetCountdown, Update
  <2> HIDE DEF new, resizes
  <2> QED BY <2>1, <2>2, <2>3, UpdateStep
<1>6. CASE SetLabel(m)
  <2> DEFINE new == IF old.box.kind # "tally" THEN old
                                             ELSE [old EXCEPT !.box.label = m.arg]
             resizes == old # new
  <2>1. IsRegion(new) /\ UpToDate(new)
    BY <1>1, <1>a, <1>6 DEF SetLabel, IsRegion, UpToDate, RegionStates, Boxes, NoBox
  <2>2. ~ resizes => SameText(new, old)
    BY <1>1 DEF SameText, IsRegion, RegionStates, Boxes, NoBox
  <2>3. /\ Handling /\ regions' = [Prepared(m) EXCEPT ![Target(m)] = new]
        /\ sizeChanged' = (sizeChanged \/ ClearsOthers(m) \/ resizes)
        /\ UNCHANGED <<images, display, fontData, font, faces, measured>>
    BY <1>6 DEF SetLabel, Update, Differs
  <2> HIDE DEF new, resizes
  <2> QED BY <2>1, <2>2, <2>3, UpdateStep
<1>7. CASE SetLocation(m)
  <2> DEFINE new == [old EXCEPT !.place = m.arg, !.recalc = old.recalc \/ old.place # m.arg]
             resizes == old.place # m.arg
  <2>1. IsRegion(new) /\ UpToDate(new)
    BY <1>1, <1>a, <1>7, ZenonT(30) DEF SetLocation, IsRegion, UpToDate, RegionStates, Places
  <2>2. ~ resizes => SameText(new, old)
    BY <1>1 DEF SameText, IsRegion, RegionStates
  <2>3. /\ Handling /\ regions' = [Prepared(m) EXCEPT ![Target(m)] = new]
        /\ sizeChanged' = (sizeChanged \/ ClearsOthers(m) \/ resizes)
        /\ UNCHANGED <<images, display, fontData, font, faces, measured>>
    BY <1>7 DEF SetLocation, Update
  <2> HIDE DEF new, resizes
  <2> QED BY <2>1, <2>2, <2>3, UpdateStep
<1>8. CASE SetFontSizeZones(m)
  <2> DEFINE new == [old EXCEPT !.zone = m.arg]
             resizes == old.zone # m.arg
  <2>1. IsRegion(new) /\ UpToDate(new)
    BY <1>1, <1>a, <1>8, RegionsAssumption DEF SetFontSizeZones, IsRegion, UpToDate, RegionStates, RegionsAssumption
  <2>2. ~ resizes => SameText(new, old)
    BY <1>1 DEF SameText, IsRegion, RegionStates
  <2>3. /\ Handling /\ regions' = [Prepared(m) EXCEPT ![Target(m)] = new]
        /\ sizeChanged' = (sizeChanged \/ ClearsOthers(m) \/ resizes)
        /\ UNCHANGED <<images, display, fontData, font, faces, measured>>
    BY <1>8 DEF SetFontSizeZones, Update
  <2> HIDE DEF new, resizes
  <2> QED BY <2>1, <2>2, <2>3, UpdateStep
<1>9. CASE SetClocks(m)
  <2> DEFINE new == [old EXCEPT !.legacy = FALSE, !.clocks = m.arg,
                               !.recalc = old.recalc \/ old.legacy \/ old.clocks # m.arg]
             resizes == FALSE
  <2>1. IsRegion(new) /\ UpToDate(new)
    BY <1>1, <1>a, <1>9, ZenonT(30) DEF SetClocks, IsRegion, UpToDate, RegionStates, ClockSets
  <2>2. ~ resizes => SameText(new, old)
    BY <1>1 DEF SameText, IsRegion, RegionStates
  <2>3. /\ Handling /\ regions' = [Prepared(m) EXCEPT ![Target(m)] = new]
        /\ sizeChanged' = (sizeChanged \/ ClearsOthers(m) \/ resizes)
        /\ UNCHANGED <<images, display, fontData, font, faces, measured>>
    BY <1>9 DEF SetClocks, Update, Never
  <2> HIDE DEF new, resizes
  <2> QED BY <2>1, <2>2, <2>3, UpdateStep
<1>10. CASE SetLayout(m)
  <2> DEFINE layout == IF old.legacy THEN m.arg.layout ELSE old.layout
             changed == layout # old.layout \/ m.arg.style # old.style
             clocks == IF changed /\ old.legacy THEN layout ELSE old.clocks
             new == [old EXCEPT !.layout = layout, !.style = m.arg.style,
                                !.recalc = old.recalc \/ changed, !.clocks = clocks]
  <2>1. m.arg.layout \in Layouts /\ m.arg.style \in Styles
    BY <1>a, <1>10 DEF SetLayout, Layouts, Styles
  <2>2. IsRegion(new) /\ UpToDate(new)
    <3>1. layout \in Layouts /\ clocks \in ClockSets /\ changed \in BOOLEAN
      BY <1>1, <2>1 DEF IsRegion, RegionStates, ClockSets
    <3>2. old.legacy => clocks = layout
      BY <1>1 DEF IsRegion
    <3>3. ~ changed => clocks = old.clocks /\ m.arg.style = old.style
      OBVIOUS
    <3> HIDE DEF layout, clocks, changed
    <3>4. new \in RegionStates
      BY <1>1, <2>1, <3>1, ZenonT(30) DEF IsRegion, RegionStates
    <3>5. /\ new.legacy = old.legacy /\ new.clocks = clocks /\ new.layout = layout
          /\ new.recalc = (old.recalc \/ changed) /\ new.style = m.arg.style
          /\ new.seen = old.seen /\ new.laidOut = old.laidOut
      BY <1>1 DEF IsRegion, RegionStates
    <3> HIDE DEF new
    <3> QED BY <1>1, <3>2, <3>3, <3>4, <3>5 DEF IsRegion, UpToDate
  <2>3. SameText(new, old)
    BY <1>1 DEF SameText, IsRegion, RegionStates
  <2>4. /\ Handling /\ regions' = [Prepared(m) EXCEPT ![Target(m)] = new]
        /\ sizeChanged' = (sizeChanged \/ ClearsOthers(m) \/ FALSE)
        /\ UNCHANGED <<images, display, fontData, font, faces, measured>>
    BY <1>10 DEF SetLayout, Update, Never
  <2> HIDE DEF new
  <2> QED BY <2>2, <2>3, <2>4, UpdateStep
<1> QED BY <1>2, <1>3, <1>4, <1>5, <1>6, <1>7, <1>8, <1>9, <1>10

\* The other messages find region 0, old or new.
LEMMA WithZeroFacts ==
  ASSUME IInv
  PROVE  /\ DOMAIN WithZero = DOMAIN regions \cup {0} /\ DOMAIN WithZero \subseteq RegionIds
         /\ WithZero = [r \in DOMAIN WithZero |-> WithZero[r]]
         /\ \A r \in DOMAIN WithZero : IsRegion(WithZero[r]) /\ UpToDate(WithZero[r])
         /\ \A r \in DOMAIN regions : WithZero[r] = regions[r]
         /\ 0 \in DOMAIN regions \/ WithZero[0] = NewRegion
BY TypeParts, NewRegionFacts, RegionsAssumption
   DEF RegionsAssumption, IInv, TypeOK, RegionsUpToDate, WithZero

\* What every handler of a global command owes that leaves display and font
\* alone: regions that are up to date, a report if one that is shown goes, and
\* the faces there were.
LEMMA OthersStep ==
  ASSUME IInv, inFrame' = TRUE, sizeChanged' \in BOOLEAN, UNCHANGED <<display, font, measured>>,
         images' \subseteq ImageNames, fontData' \in Contents,
         Face' \in faces', faces' \subseteq Faces, faces \subseteq faces',
         DOMAIN regions' \subseteq DOMAIN WithZero,
         regions' = [r \in DOMAIN regions' |-> WithZero[r]],
         ~ sizeChanged' => ~ sizeChanged /\ DOMAIN regions' = DOMAIN WithZero
  PROVE  IInv'
<1> USE DEF IInv
<1>1. /\ DOMAIN regions' \subseteq RegionIds
      /\ \A r \in DOMAIN regions' : IsRegion(regions'[r]) /\ UpToDate(regions'[r])
  BY WithZeroFacts
<1>2. regions' \in [DOMAIN regions' -> RegionStates]
  BY <1>1 DEF IsRegion
<1>3. TypeOK'
  BY <1>1, <1>2 DEF TypeOK, IsRegion
<1>4. RegionsUpToDate' /\ NothingWaits'
  BY <1>1 DEF RegionsUpToDate, UpToDate, Computed, NothingWaits
<1>5. ASSUME ~ sizeChanged' PROVE TextsKnown'
  <2>1. \A r \in DOMAIN regions' :
          \/ r \in DOMAIN regions /\ SameText(regions'[r], regions[r])
          \/ ~ Shown(regions'[r]) /\ (r \in DOMAIN regions => ~ Shown(regions[r]))
    BY <1>5, WithZeroFacts, NewRegionFacts DEF SameText
  <2>2. DOMAIN regions \ DOMAIN regions' = {} /\ images \subseteq ImageNames
    BY <1>5, WithZeroFacts DEF TypeOK
  <2>3. \A z, face : Ordinary(Drawn(z, face))' = Ordinary(Drawn(z, face))
    BY <2>1, <2>2, SameDrawn
  <2> QED BY <1>5, <2>3, TextsStayKnown
<1> QED BY <1>3, <1>4, <1>5 DEF TextsKnown

\* A step that leaves what a text's size depends on as it is keeps the texts.
LEMMA RegionsKept ==
  ASSUME IInv, images' = images, measured' = measured, DOMAIN regions' = DOMAIN regions,
         sizeChanged' = sizeChanged, faces' = faces,
         \A r \in DOMAIN regions : SameText(regions'[r], regions[r])
  PROVE  TextsKnown'
<1>1. CASE sizeChanged
  BY <1>1 DEF TextsKnown
<1>2. CASE ~ sizeChanged
  <2>1. \A z, face : Ordinary(Drawn(z, face))' = Ordinary(Drawn(z, face))
    BY SameDrawn DEF IInv, TypeOK
  <2> QED BY <1>2, <2>1, TextsStayKnown DEF IInv
<1> QED BY <1>1, <1>2 DEF IInv, TypeOK

\* A command for the whole display leaves every region up to date, or reported.
LEMMA GlobalCommandStep ==
  ASSUME IInv, NEW m \in Commands,
         \/ SetRegionCount(m) \/ SetGlobal(m) \/ SetFonts(m)
         \/ StoreOrClearFonts(m) \/ StoreOrClearImages(m)
  PROVE  IInv'
<1>a. m.arg \in Args(m.cmd)
  BY DEF Args, CommandsOf
<1>t. TypeOK /\ RegionsUpToDate /\ TextsKnown
  BY DEF IInv
<1>1. CASE SetRegionCount(m)
  <2>1. m.arg \in Int /\ DOMAIN WithZero \subseteq Nat
    BY <1>a, <1>1, WithZeroFacts, RegionsAssumption DEF RegionsAssumption, SetRegionCount
  <2>2. /\ regions' = [r \in {i \in DOMAIN WithZero : i < m.arg} |-> WithZero[r]]
        /\ sizeChanged' = (sizeChanged \/ \E r \in DOMAIN WithZero : r >= m.arg)
        /\ inFrame' = TRUE /\ UNCHANGED <<images, display, fontData, font, faces, measured>>
    BY <1>1 DEF SetRegionCount, RegionCount, Handling
  <2>3. ASSUME ~ sizeChanged' PROVE ~ sizeChanged /\ DOMAIN regions' = DOMAIN WithZero
    <3>1. ASSUME NEW r \in DOMAIN WithZero PROVE r < m.arg
      <4>1. ~ (r >= m.arg)
        BY <2>2, <2>3
      <4> QED BY <2>1, <4>1
    <3>2. {i \in DOMAIN WithZero : i < m.arg} = DOMAIN WithZero
      BY <3>1
    <3> QED BY <2>2, <2>3, <3>2
  <2>4. /\ sizeChanged' \in BOOLEAN /\ images' \subseteq ImageNames /\ fontData' \in Contents
        /\ Face' \in faces' /\ faces' \subseteq Faces /\ faces \subseteq faces'
        /\ DOMAIN regions' \subseteq DOMAIN WithZero
        /\ regions' = [r \in DOMAIN regions' |-> WithZero[r]]
    BY <1>t, <2>2 DEF TypeOK, Face, FaceOf
  <2> QED BY <2>2, <2>3, <2>4, OthersStep
<1>2. CASE StoreOrClearFonts(m) \/ StoreOrClearImages(m)
  <2>1. /\ regions' = WithZero /\ inFrame' = TRUE
        /\ UNCHANGED <<display, font, measured, sizeChanged>>
    BY <1>2 DEF StoreOrClearFonts, StoreOrClearImages, Handling
  <2>2. images' \subseteq ImageNames /\ fontData' \in Contents /\ sizeChanged' \in BOOLEAN
    BY <1>a, <1>t, <1>2, RegionsAssumption
       DEF RegionsAssumption, StoreOrClearFonts, StoreOrClearImages, TypeOK, Contents
  <2>3. Face' \in faces' /\ faces' \subseteq Faces /\ faces \subseteq faces'
    BY <1>t, <1>2, <2>2 DEF StoreOrClearFonts, StoreOrClearImages, TypeOK, Face, FaceOf, Faces
  <2> QED BY <2>1, <2>2, <2>3, WithZeroFacts, OthersStep
<1>3. CASE SetGlobal(m)
  <2>1. /\ display' \in Displays /\ inFrame' = TRUE
        /\ UNCHANGED <<regions, images, fontData, font, faces, sizeChanged, measured>>
    BY <1>a, <1>3 DEF SetGlobal, Handling, Displays
  <2>2. TypeOK' /\ RegionsUpToDate' /\ NothingWaits'
    BY <1>t, <2>1 DEF TypeOK, Face, FaceOf, RegionsUpToDate, UpToDate, Computed, NothingWaits
  <2>3. TextsKnown'
    BY <2>1, RegionsKept DEF SameText
  <2> QED BY <2>2, <2>3 DEF IInv
<1>4. CASE SetFonts(m)
  <2>1. /\ font' \in {"stored", Default} /\ inFrame' = TRUE
        /\ UNCHANGED <<images, display, fontData, measured>>
        /\ sizeChanged' = (sizeChanged \/ font' # font)
        /\ faces' = IF font' # font THEN {Face'} ELSE faces
    BY <1>4 DEF SetFonts, Handling, Face, FaceOf
  <2>2. /\ DOMAIN regions' = DOMAIN regions
        /\ regions' = [r \in DOMAIN regions' |-> regions'[r]]
        /\ \A r \in DOMAIN regions :
             regions'[r] = [regions[r] EXCEPT !.recalc = regions[r].recalc \/ font' # font]
    BY <1>4 DEF SetFonts
  <2>3. ASSUME NEW r \in DOMAIN regions
        PROVE  IsRegion(regions'[r]) /\ UpToDate(regions[r])
    <3>1. IsRegion(regions[r]) /\ UpToDate(regions[r])
      BY <1>t, TypeParts DEF RegionsUpToDate
    <3>2. (regions[r].recalc \/ font' # font) \in BOOLEAN
      OBVIOUS
    <3>3. \A x \in BOOLEAN : IsRegion([regions[r] EXCEPT !.recalc = x])
      BY <3>1 DEF IsRegion, RegionStates
    <3> QED BY <2>2, <3>1, <3>2, <3>3
  <2>4. TypeOK'
    <3>1. regions' \in [DOMAIN regions' -> RegionStates]
      BY <2>2, <2>3 DEF IsRegion
    <3>2. Face' \in faces' /\ faces' \subseteq Faces
      BY <1>t, <2>1 DEF TypeOK, Face, FaceOf, Faces
    <3> QED BY <1>t, <2>1, <2>2, <2>3, <3>1, <3>2 DEF TypeOK, IsRegion
  <2>5. RegionsUpToDate'
    <3> SUFFICES ASSUME NEW r \in DOMAIN regions PROVE UpToDate(regions[r])'
      BY <2>2 DEF RegionsUpToDate
    <3>1. IsRegion(regions[r])
      BY <1>t, TypeParts
    <3>2. /\ regions'[r].recalc = (regions[r].recalc \/ font' # font)
          /\ regions'[r].seen = regions[r].seen /\ regions'[r].laidOut = regions[r].laidOut
          /\ regions'[r].clocks = regions[r].clocks /\ regions'[r].style = regions[r].style
      BY <2>2, <3>1 DEF IsRegion, RegionStates
    <3>3. UpToDate(regions[r])
      BY <2>3
    <3> QED BY <2>1, <3>2, <3>3 DEF UpToDate, Computed
  <2>6. NothingWaits'
    BY <2>1 DEF NothingWaits
  <2>7. CASE font' = font /\ sizeChanged' = sizeChanged
    <3>1. \A r \in DOMAIN regions : SameText(regions'[r], regions[r])
      BY <2>2, TypeParts, <1>t DEF SameText, IsRegion, RegionStates
    <3> QED BY <2>1, <2>2, <2>4, <2>5, <2>6, <2>7, <3>1, RegionsKept DEF IInv
  <2>8. CASE sizeChanged'
    BY <2>4, <2>5, <2>6, <2>8 DEF IInv, TextsKnown
  <2> QED BY <1>t, <2>1, <2>7, <2>8 DEF TypeOK
<1> QED BY <1>1, <1>2, <1>3, <1>4

\* RecalcDimensions leaves a region that is up to date and not stale.
LEMMA RecalcDimensionsFacts ==
  ASSUME TypeOK, NEW rs, IsRegion(rs), UpToDate(rs)
  PROVE  LET new == RecalcDimensions(rs, display, Face)
         IN /\ IsRegion(new) /\ UpToDate(new) /\ ~ Stale(new, display)
            /\ ~ Stale(rs, display) => new = rs
<1>1. CASE Stale(rs, display)
  <2> DEFINE seen == <<rs.place, display>>
             laidOut == Extent(rs, display, Face)
             new == [rs EXCEPT !.recalc = FALSE, !.seen = seen, !.laidOut = laidOut]
  <2>1. seen \in Places \X Displays
    BY DEF TypeOK, IsRegion, RegionStates
  <2>2. laidOut \in Places \X Displays \X ClockSets \X Styles \X Faces
    BY DEF TypeOK, IsRegion, RegionStates, Extent
  <2>3. Computed(seen, laidOut, rs.clocks, rs.style)
    BY DEF TypeOK, Computed, NotLaidOut, Extent
  <2>4. RecalcDimensions(rs, display, Face) = new
    BY <1>1 DEF RecalcDimensions
  <2>5. new.place = rs.place /\ seen = <<rs.place, display>>
    BY DEF IsRegion, RegionStates
  <2> HIDE DEF seen, laidOut
  <2>6. IsRegion(new) /\ UpToDate(new)
    BY <2>1, <2>2, <2>3 DEF IsRegion, RegionStates, UpToDate
  <2>7. ~ Stale(new, display)
    BY <2>5 DEF IsRegion, RegionStates, Stale
  <2> HIDE DEF new
  <2> QED BY <1>1, <2>4, <2>6, <2>7
<1>2. CASE ~ Stale(rs, display)
  BY <1>2 DEF RecalcDimensions
<1> QED BY <1>1, <1>2

\* A frame recalculates every stale region, and measures the texts again when
\* one was stale or a change was reported.
LEMMA FrameStep == IInv /\ Frame => IInv'
<1> SUFFICES ASSUME IInv, Frame PROVE IInv'
  OBVIOUS
<1>t. TypeOK /\ RegionsUpToDate /\ TextsKnown
  BY DEF IInv
<1> DEFINE changed == sizeChanged \/ \E r \in DOMAIN regions : Stale(regions[r], display)
<1>1. /\ inFrame' = FALSE /\ sizeChanged' = FALSE
      /\ regions' = [r \in DOMAIN regions |-> RecalcDimensions(regions[r], display, Face)]
      /\ measured' = IF changed THEN [z \in Zones |-> Items(regions', images, z, Face)] ELSE measured
      /\ UNCHANGED <<images, display, fontData, font, faces>>
  BY DEF Frame
<1>2. DOMAIN regions' = DOMAIN regions /\ regions' = [r \in DOMAIN regions' |-> regions'[r]]
  BY <1>1
<1>3. \A r \in DOMAIN regions :
        /\ IsRegion(regions'[r]) /\ UpToDate(regions'[r]) /\ ~ Stale(regions'[r], display)
        /\ ~ Stale(regions[r], display) => regions'[r] = regions[r]
  BY <1>1, <1>t, TypeParts, RecalcDimensionsFacts DEF RegionsUpToDate
<1>4. TypeOK'
  <2>1. regions' \in [DOMAIN regions' -> RegionStates]
    BY <1>2, <1>3 DEF IsRegion
  <2>2. DOMAIN measured' = Zones
    BY <1>1, <1>t DEF TypeOK
  <2> QED BY <1>1, <1>2, <1>3, <1>t, <2>1, <2>2 DEF TypeOK, IsRegion, Face, FaceOf
<1>5. RegionsUpToDate' /\ NothingWaits'
  BY <1>1, <1>2, <1>3 DEF RegionsUpToDate, UpToDate, Computed, NothingWaits
<1>6. CASE changed
  <2> DEFINE now == Face
  <2>1. now \in faces' /\ \A z \in Zones : measured'[z] = Items(regions', images', z, now)
    BY <1>1, <1>6, <1>t DEF TypeOK
  <2> HIDE DEF now
  <2>2. PICK face : face = now
    OBVIOUS
  <2>3. face \in faces' /\ \A z \in Zones : Drawn(z, face)' = measured'[z]
    BY <2>1, <2>2 DEF Drawn
  <2>4. \A z \in Zones : Ordinary(Drawn(z, face))' = Ordinary(measured[z])'
    BY <2>3 DEF Ordinary
  <2>5. TextsKnown'
    BY <2>3, <2>4 DEF TextsKnown, FitIn
  <2> QED BY <1>4, <1>5, <2>5 DEF IInv
<1>7. CASE ~ changed
  <2>1. \A r \in DOMAIN regions : SameText(regions'[r], regions[r])
    BY <1>3, <1>7 DEF SameText
  <2>2. sizeChanged' = sizeChanged
    BY <1>1, <1>7, <1>t DEF TypeOK
  <2>3. TextsKnown'
    BY <1>1, <1>2, <1>7, <2>1, <2>2, RegionsKept
  <2> QED BY <1>4, <1>5, <2>3 DEF IInv
<1> QED BY <1>6, <1>7

\* What DrawFrame does without a message: nothing it clears is shown any more,
\* and nothing it creates is shown yet.
LEMMA DrawFrameStep == IInv /\ (CreateRegion \/ ClearTallies \/ UNCHANGED vars) => IInv'
<1> SUFFICES ASSUME IInv, CreateRegion \/ ClearTallies \/ UNCHANGED vars PROVE IInv'
  OBVIOUS
<1>t. TypeOK /\ RegionsUpToDate /\ NothingWaits /\ TextsKnown
  BY DEF IInv
<1>1. CASE CreateRegion
  <2>1. DOMAIN regions = {} /\ ~ inFrame
    BY <1>1 DEF CreateRegion
  <2>2. /\ inFrame' = TRUE /\ UNCHANGED <<images, display, fontData, font, faces, sizeChanged, measured>>
        /\ DOMAIN regions' = {0} /\ regions'[0] = NewRegion
        /\ regions' = [r \in DOMAIN regions' |-> regions'[r]]
    BY <1>1 DEF CreateRegion
  <2>3. WithZero = regions'
    BY <1>1, <2>1 DEF CreateRegion, WithZero
  <2>4. /\ sizeChanged' \in BOOLEAN /\ images' \subseteq ImageNames /\ fontData' \in Contents
        /\ Face' \in faces' /\ faces' \subseteq Faces /\ faces \subseteq faces'
        /\ sizeChanged' = sizeChanged
    BY <1>t, <2>2 DEF TypeOK, Face, FaceOf
  <2> QED BY <2>2, <2>3, <2>4, OthersStep
<1>2. CASE ClearTallies
  <2>1. /\ ~ inFrame /\ UNCHANGED <<images, display, fontData, font, faces, sizeChanged, inFrame, measured>>
        /\ DOMAIN regions' = DOMAIN regions /\ regions' = [r \in DOMAIN regions' |-> regions'[r]]
        /\ \A r \in DOMAIN regions : regions'[r] =
             [regions[r] EXCEPT !.size = <<0, 0>>, !.columns = 0, !.box = NoBox]
    BY <1>2 DEF ClearTallies
  <2>2. ASSUME NEW r \in DOMAIN regions
        PROVE  /\ IsRegion(regions'[r]) /\ UpToDate(regions'[r])
               /\ ~ Stale(regions'[r], display) /\ ~ Shown(regions'[r])
    <3>1. IsRegion(regions[r]) /\ UpToDate(regions[r]) /\ ~ Stale(regions[r], display)
      BY <1>t, <2>1, TypeParts DEF RegionsUpToDate, NothingWaits
    <3>2. regions'[r] \in RegionStates /\ regions'[r].size[1] = 0
      <4> DEFINE none == <<0, 0>>
      <4>1. NoBox \in Boxes /\ none[1] = 0
        BY DEF Boxes
      <4>2. regions'[r] = [regions[r] EXCEPT !.size = none, !.columns = 0, !.box = NoBox]
        BY <2>1
      <4>3. none \in Args("SETSIZE") \cup {<<0, 0>>}
        OBVIOUS
      <4> HIDE DEF none
      <4>4. regions'[r] \in RegionStates /\ regions'[r].size = none
        BY <3>1, <4>1, <4>2, <4>3, ZenonT(30) DEF IsRegion, RegionStates
      <4> QED BY <4>1, <4>4
    <3>3. /\ regions'[r].place = regions[r].place /\ regions'[r].recalc = regions[r].recalc
          /\ regions'[r].seen = regions[r].seen /\ regions'[r].laidOut = regions[r].laidOut
          /\ regions'[r].clocks = regions[r].clocks /\ regions'[r].style = regions[r].style
          /\ regions'[r].legacy = regions[r].legacy /\ regions'[r].layout = regions[r].layout
      BY <2>1, <3>1, ZenonT(30) DEF IsRegion, RegionStates
    <3> QED BY <3>1, <3>2, <3>3 DEF IsRegion, UpToDate, Stale, Shown
  <2>3. TypeOK'
    <3>1. regions' \in [DOMAIN regions' -> RegionStates]
      BY <2>1, <2>2 DEF IsRegion
    <3> QED BY <1>t, <2>1, <2>2, <3>1 DEF TypeOK, IsRegion, Face, FaceOf
  <2>4. RegionsUpToDate' /\ NothingWaits'
    BY <1>t, <2>1, <2>2 DEF RegionsUpToDate, UpToDate, Computed, NothingWaits
  <2>5. \A z, face : Ordinary(Drawn(z, face))' = {}
    BY <2>1, <2>2 DEF Ordinary, Drawn, Items
  <2>6. TextsKnown'
    <3>1. PICK face \in faces' : TRUE
      BY <1>t, <2>1 DEF TypeOK
    <3>2. FitIn(face)'
      BY <2>5 DEF FitIn
    <3> QED BY <3>1, <3>2 DEF TextsKnown
  <2> QED BY <2>3, <2>4, <2>6 DEF IInv
<1>3. CASE UNCHANGED vars
  <2>1. TypeOK' /\ RegionsUpToDate' /\ NothingWaits'
    BY <1>t, <1>3 DEF vars, TypeOK, Face, FaceOf, RegionsUpToDate, UpToDate, Computed, NothingWaits
  <2>2. TextsKnown'
    BY <1>3, RegionsKept DEF vars, SameText
  <2> QED BY <2>1, <2>2 DEF IInv
<1> QED BY <1>1, <1>2, <1>3

------------------------------------------------------------------------------
(* Theorems *)

\* The invariant that the theorems follow from.
THEOREM Invariance == Spec => []IInv
<1>1. IInv /\ [Next(Commands)]_vars => IInv'
  <2> SUFFICES ASSUME IInv, [Next(Commands)]_vars PROVE IInv'
    OBVIOUS
  <2>1. ASSUME NEW m \in Commands, HandleMessage({m}) PROVE IInv'
    BY <2>1, RegionCommandStep, GlobalCommandStep DEF HandleMessage
  <2>2. CASE HandleMessage(Commands)
    BY <2>1, <2>2 DEF HandleMessage
  <2> QED BY <2>2, FrameStep, DrawFrameStep DEF Next
<1> QED BY InitIInv, <1>1, PTL DEF Spec

\* Every variable keeps its type, and a region has SETLAYOUT's clocks until
\* SETCLOCKS is used on it.
THEOREM TypeCorrect == Spec => []TypeOK
<1>1. IInv => TypeOK
  BY DEF IInv
<1> QED BY <1>1, Invariance, PTL

\* Every region is drawn with boxes that were computed from what it is now, in
\* the face of the font in use or in one that its name stood for before: only
\* STOREFONT and CLEARFONTS change what boxes depend on without having them
\* computed again (OverallState::HandleClockMessages, RecalcDimensions).
THEOREM FreshDimensions == Spec => []DimensionsFresh
<1>1. ASSUME IInv PROVE DimensionsFresh
  <2> SUFFICES ASSUME ~ inFrame, NEW r \in DOMAIN regions
               PROVE  \E face \in faces : regions[r].laidOut = Extent(regions[r], display, face)
    BY DEF DimensionsFresh
  <2>1. UpToDate(regions[r]) /\ ~ Stale(regions[r], display)
    BY <1>1 DEF IInv, RegionsUpToDate, NothingWaits
  <2>2. regions[r].seen = <<regions[r].place, display>> /\ ~ regions[r].recalc
    BY <2>1 DEF Stale
  <2> QED BY <2>1, <2>2 DEF UpToDate, Computed, Extent
<1> QED BY <1>1, Invariance, PTL

\* The texts that are drawn are those the text sizes were computed from, in the
\* face of the font in use or in one that its name stood for before: every other
\* change of size is reported.
THEOREM FreshTextSizes == Spec => []TextSizesFresh
<1>1. IInv => TextSizesFresh
  BY DEF IInv, NothingWaits, TextsKnown, FitIn, TextSizesFresh
<1> QED BY <1>1, Invariance, PTL
=============================================================================
