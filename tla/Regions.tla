------------------------------ MODULE Regions ------------------------------
(***************************************************************************)
(* The display: OverallState::HandleClockMessages, the RegionStates it     *)
(* updates and the two caches a frame draws from, the dimensions of a      *)
(* region (RecalcDimensions) and the text sizes (RecalcTexts).  DrawFrame  *)
(* handles the messages there are, recalculates what it believes to have   *)
(* changed, and draws.  All of it is on the draw thread; the messages come *)
(* in any order and number, so each handler is an action, and Frame is the *)
(* rest of DrawFrame.                                                      *)
(*                                                                         *)
(* Of a region's indicators the first one is kept; the fonts are one name  *)
(* for all uses, with the contents it is stored with; sizes, colours, the  *)
(* day of the month and the prefix of the digital clocks are left out.     *)
(***************************************************************************)
EXTENDS Integers, FiniteSets

CONSTANTS
  RegionIds,   \* region numbers the servers use; 0 is one of them
  NoIndex,     \* the number of a command that has none
  Commands,    \* the commands the servers send, see CommandsOf
  ImageNames   \* the texts that name an image the servers store

\* A command is [cmd, region, arg]; the global ones have the region NoIndex.
CommandsOf(cmd) == {m \in Commands : m.cmd = cmd}
Args(cmd) == {m.arg : m \in CommandsOf(cmd)}

ASSUME RegionsAssumption ==
  /\ 0 \in RegionIds /\ RegionIds \subseteq Nat /\ NoIndex \notin RegionIds
  /\ \A m \in Commands : m.region \in RegionIds \cup {NoIndex}
  /\ Args("SETTALLY") \cap Args("SETCOUNTDOWN") = {}
  /\ Args("SETFONTSIZEZONES") \subseteq {"local", "global"}
  /\ Args("STOREIMAGE") \subseteq ImageNames /\ Args("SETREGIONCOUNT") \subseteq Int

\* The values of a new RegionState and OverallState
Full == "full"         \* SETLOCATION:0:0:1:1
Default == "default"   \* layout, style, fonts and display
NoLabel == "no label"  \* SETLABEL's empty argument
NoFont == "no font"    \* what a name that is not stored, or no longer, finds

VARIABLES
  regions,      \* Regions, a function on the numbers of those that exist
  images,       \* the names of the valid images in Images
  display,      \* m_bLandscape and m_bScreenSaver
  fontData,     \* FontData: the contents the one font name is stored with
  font,         \* "stored" or "default", the name the fonts in use have
  faces,        \* history: what that name has stood for since it came into use
  sizeChanged,  \* bSizeChanged, or that no frame has been drawn
  inFrame,      \* DrawFrame is between its start and Frame
  measured      \* zone -> the items TextSizes[zone] was computed from

vars == <<regions, images, display, fontData, font, faces, sizeChanged, inFrame, measured>>

\* SetDefaultZone's name for the region and the names SETFONTSIZEZONES makes.
\* A local name is prefixed with the region's number: it belongs to one region
\* as long as it does not begin with a digit.
Zones == {<<"default", r>> : r \in RegionIds}
           \cup {<<"local", r>> : r \in RegionIds} \cup {<<"global", 0>>}

NoBox == [kind |-> "none"]
Boxes ==
  {NoBox} \cup [kind : {"countdown"}, text : Args("SETCOUNTDOWN")]
    \cup [kind : {"tally"}, text : Args("SETTALLY"), label : Args("SETLABEL") \cup {NoLabel}]

\* What a font that is measured has to say: the built-in one, or the contents
\* that are stored under its name now
FaceOf(f, data) == IF f = "stored" THEN data ELSE Default
Face == FaceOf(font, fontData)

\* What RecalcDimensions computes a region's boxes from.  TextHeight and
\* MaxPointSize measure with the face, whatever its name.
Extent(rs, d, face) == <<rs.place, d, rs.clocks, rs.style, face>>
NotLaidOut == <<>>

NewRegion ==
  [place |-> Full, size |-> <<0, 0>>, columns |-> 0, box |-> NoBox,
   zone |-> "default",           \* what m_size_zones says of the indicator
   legacy |-> TRUE, layout |-> Default, clocks |-> Default,
   style |-> Default, recalc |-> TRUE,
   seen |-> NotLaidOut,          \* prev_width and prev_height
   laidOut |-> NotLaidOut]       \* the extent of the last recalculation

Init ==
  /\ regions = [r \in {0} |-> NewRegion]   \* the first frame creates it
  /\ images = {} /\ display = Default
  /\ fontData = NoFont /\ font = Default /\ faces = {Default}
  /\ sizeChanged = TRUE                    \* bRecalcTextsNext
  /\ inFrame = TRUE /\ measured = [z \in Zones |-> {}]

------------------------------------------------------------------------------
(* What HandleClockMessages does before a message's own handler *)

\* UpdateRegionCount
RegionCount(rs, count) == [r \in {i \in DOMAIN rs : i < count} |-> rs[r]]

Target(m) == IF m.region = NoIndex THEN 0 ELSE m.region

\* A command without a number removes the other regions and moves region 0 to
\* the full display; it reports a change of size if that does anything.
ClearsOthers(m) ==
  m.region = NoIndex /\ \/ \E r \in DOMAIN regions : r >= 1
                        \/ 0 \in DOMAIN regions /\ regions[0].place # Full

\* The regions as m's handler finds them; a missing one is created.
Prepared(m) ==
  LET kept == IF m.region = NoIndex THEN RegionCount(regions, 1) ELSE regions
      t == Target(m)
      old == IF t \in DOMAIN kept THEN kept[t] ELSE NewRegion
      new == IF m.region = NoIndex /\ old.place # Full
               THEN [old EXCEPT !.place = Full, !.recalc = TRUE] ELSE old
  IN [r \in DOMAIN kept \cup {t} |-> IF r = t THEN new ELSE kept[r]]

\* What every other message does to the regions: region 0 is created if it is
\* missing.
WithZero == [r \in DOMAIN regions \cup {0} |->
               IF r \in DOMAIN regions THEN regions[r] ELSE NewRegion]

\* A message can be handled once the frame has made sure there is a region.
Handling == (inFrame \/ DOMAIN regions # {}) /\ inFrame' = TRUE

\* A region command: New is the region's new state, Resizes(old, new) says
\* whether the handler reports a change of size.
Update(m, New(_), Resizes(_, _)) ==
  LET rs == Prepared(m)
      new == New(rs[Target(m)])
  IN /\ Handling
     /\ regions' = [rs EXCEPT ![Target(m)] = new]
     /\ sizeChanged' = (sizeChanged \/ ClearsOthers(m) \/ Resizes(rs[Target(m)], new))
     /\ UNCHANGED <<images, display, fontData, font, faces, measured>>

Differs(old, new) == old # new
Never(old, new) == FALSE

------------------------------------------------------------------------------
(* The handlers of region commands *)

SetSize(m) ==
  m.cmd = "SETSIZE" /\ Update(m, LAMBDA rs : [rs EXCEPT !.size = m.arg], Differs)

\* Mutant of SetRow: the number of columns is set without UPDATE_CHECK.
SetRowQuietly(m) ==
  m.cmd = "SETROW" /\ Update(m, LAMBDA rs : [rs EXCEPT !.columns = m.arg], Never)

SetRow(m) ==
  m.cmd = "SETROW" /\ Update(m, LAMBDA rs : [rs EXCEPT !.columns = m.arg], Differs)

\* SETTALLY keeps the label of a tally it replaces; a countdown has none to
\* keep.  The size changes with the text, or when a countdown is replaced.
SetTally(m) ==
  LET OldLabel(b) == IF b.kind = "tally" THEN b.label ELSE NoLabel
      New(rs) == [rs EXCEPT !.box = [kind |-> "tally", text |-> m.arg,
                                     label |-> OldLabel(rs.box)]]
      Resizes(old, new) == old.box.kind # "tally" \/ old.box.text # m.arg
  IN m.cmd = "SETTALLY" /\ Update(m, New, Resizes)

\* SETCOUNTDOWN: of two countdowns only the lengths are compared.
SetCountdown(m) ==
  LET New(rs) == [rs EXCEPT !.box = [kind |-> "countdown", text |-> m.arg]]
      Resizes(old, new) == old.box.kind # "countdown" \/ old.box.text # m.arg
  IN m.cmd = "SETCOUNTDOWN" /\ Update(m, New, Resizes)

\* SETLABEL changes only a tally; an empty label removes it.
SetLabel(m) ==
  LET New(rs) == IF rs.box.kind # "tally" THEN rs ELSE [rs EXCEPT !.box.label = m.arg]
  IN m.cmd = "SETLABEL" /\ Update(m, New, Differs)

SetLocation(m) ==
  LET New(rs) == [rs EXCEPT !.place = m.arg, !.recalc = rs.recalc \/ rs.place # m.arg]
      Resizes(old, new) == old.place # m.arg
  IN m.cmd = "SETLOCATION" /\ Update(m, New, Resizes)

\* Zones named for the first time count as a change, whatever they are.
SetFontSizeZones(m) ==
  LET New(rs) == [rs EXCEPT !.zone = m.arg]
      Resizes(old, new) == old.zone # m.arg
  IN m.cmd = "SETFONTSIZEZONES" /\ Update(m, New, Resizes)

\* SETLAYOUT: the first six parameters count until SETCLOCKS is used.
SetLayout(m) ==
  LET New(rs) ==
        LET layout == IF rs.legacy THEN m.arg.layout ELSE rs.layout
            changed == layout # rs.layout \/ m.arg.style # rs.style
        IN [rs EXCEPT !.layout = layout, !.style = m.arg.style,
                      !.recalc = rs.recalc \/ changed,
                      !.clocks = IF changed /\ rs.legacy THEN layout ELSE rs.clocks]
  IN m.cmd = "SETLAYOUT" /\ Update(m, New, Never)

\* Mutant of SetClocks: the legacy mode is not left.
SetClocksKeepsLegacy(m) ==
  LET New(rs) == [rs EXCEPT !.clocks = m.arg,
                            !.recalc = rs.recalc \/ rs.legacy \/ rs.clocks # m.arg]
  IN m.cmd = "SETCLOCKS" /\ Update(m, New, Never)

\* SETCLOCKS, with time zones that exist
SetClocks(m) ==
  LET New(rs) == [rs EXCEPT !.legacy = FALSE, !.clocks = m.arg,
                            !.recalc = rs.recalc \/ rs.legacy \/ rs.clocks # m.arg]
  IN m.cmd = "SETCLOCKS" /\ Update(m, New, Never)

------------------------------------------------------------------------------
(* The handlers of global commands *)

SetRegionCount(m) ==
  /\ m.cmd = "SETREGIONCOUNT" /\ Handling
  /\ regions' = RegionCount(WithZero, m.arg)
  /\ sizeChanged' = (sizeChanged \/ \E r \in DOMAIN WithZero : r >= m.arg)
  /\ UNCHANGED <<images, display, fontData, font, faces, measured>>

\* SETGLOBAL and SETFONTS are handled before any region is looked at.
SetGlobal(m) ==
  /\ m.cmd = "SETGLOBAL" /\ Handling /\ display' = m.arg
  /\ UNCHANGED <<regions, images, fontData, font, faces, sizeChanged, measured>>

\* A name that is not stored gives the default.
SetFonts(m) ==
  /\ m.cmd = "SETFONTS" /\ Handling
  /\ font' = (IF m.arg = "stored" /\ fontData # NoFont THEN "stored" ELSE Default)
  /\ faces' = (IF font' # font THEN {FaceOf(font', fontData)} ELSE faces)
  /\ sizeChanged' = (sizeChanged \/ font' # font)
  /\ regions' = [r \in DOMAIN regions |->
                   [regions[r] EXCEPT !.recalc = regions[r].recalc \/ font' # font]]
  /\ UNCHANGED <<images, display, fontData, measured>>

\* STOREFONT replaces what the name stood for; contents that are the same are
\* ignored.  CLEARFONTS leaves the names of the fonts in use as they are.
\* Neither reports anything, even if that font is in use.
StoreOrClearFonts(m) ==
  /\ m.cmd \in {"STOREFONT", "CLEARFONTS"} /\ Handling /\ regions' = WithZero
  /\ fontData' = (IF m.cmd = "STOREFONT" THEN m.arg ELSE NoFont)
  /\ faces' = faces \cup {FaceOf(font, fontData')}
  /\ UNCHANGED <<images, display, font, sizeChanged, measured>>

StoreOrClearImages(m) ==
  /\ m.cmd \in {"STOREIMAGE", "CLEARIMAGES"} /\ Handling /\ regions' = WithZero
  /\ images' = IF m.cmd = "STOREIMAGE" THEN images \cup {m.arg} ELSE {}
  /\ UNCHANGED <<display, fontData, font, faces, sizeChanged, measured>>

\* A frame's messages: ms are those the servers send in this run.
HandleMessage(ms) ==
  \E m \in ms :
    \/ SetSize(m) \/ SetRow(m) \/ SetTally(m) \/ SetCountdown(m) \/ SetLabel(m)
    \/ SetLocation(m) \/ SetFontSizeZones(m) \/ SetLayout(m) \/ SetClocks(m)
    \/ SetRegionCount(m) \/ SetGlobal(m) \/ SetFonts(m)
    \/ StoreOrClearFonts(m) \/ StoreOrClearImages(m)

------------------------------------------------------------------------------
(* The rest of the frame *)

\* The region's indicator is on the display.
Shown(rs) ==
  rs.size[1] > 0 /\ (rs.columns > 0 \/ rs.size[2] > 0) /\ rs.box.kind # "none"

EffectiveColumns(rs) == IF rs.columns > 0 THEN rs.columns ELSE rs.size[2]

ZoneOf(r, rs) ==
  CASE rs.zone = "default" -> <<"default", r>>
    [] rs.zone = "local"   -> <<"local", r>>
    [] rs.zone = "global"  -> <<"global", 0>>

\* All that the size of an indicator's text depends on
Item(rs, face) ==
  [text |-> rs.box.text, rows |-> rs.size[1], columns |-> EffectiveColumns(rs),
   labelled |-> rs.box.kind = "countdown" \/ rs.box.label # NoLabel,
   inside |-> rs.laidOut, face |-> face]

\* The items of a zone that are text: an image is drawn to the size of its box.
Items(rs, shownImages, z, face) ==
  {Item(rs[r], face) : r \in {i \in DOMAIN rs : Shown(rs[i]) /\ ZoneOf(i, rs[i]) = z
                                                 /\ rs[i].box.text \notin shownImages}}

\* Mutant of Stale: the size of the region is not compared.
StaleIgnoresExtent(rs, d) == rs.recalc

\* RecalcDimensions' condition
Stale(rs, d) == rs.recalc \/ rs.seen # <<rs.place, d>>

RecalcDimensions(rs, d, face) ==
  IF Stale(rs, d)
    THEN [rs EXCEPT !.recalc = FALSE, !.seen = <<rs.place, d>>, !.laidOut = Extent(rs, d, face)]
    ELSE rs

\* A frame that finds no region at its start creates region 0.
CreateRegion ==
  /\ ~inFrame /\ DOMAIN regions = {}
  /\ regions' = [r \in {0} |-> NewRegion] /\ inFrame' = TRUE
  /\ UNCHANGED <<images, display, fontData, font, faces, sizeChanged, measured>>

\* RecalcDimensions for every region, then RecalcTexts if anything changed.
Frame ==
  LET laidOut == [r \in DOMAIN regions |-> RecalcDimensions(regions[r], display, Face)]
      changed == sizeChanged \/ \E r \in DOMAIN regions : Stale(regions[r], display)
  IN /\ inFrame /\ inFrame' = FALSE /\ sizeChanged' = FALSE
     /\ regions' = laidOut
     /\ measured' = IF changed THEN [z \in Zones |-> Items(laidOut, images, z, Face)]
                               ELSE measured
     /\ UNCHANGED <<images, display, fontData, font, faces>>

\* The end of the same frame: after five seconds without a connection, all
\* tallies are cleared as region 0's status is drawn.  Nothing is recalculated.
ClearTallies ==
  /\ ~inFrame /\ 0 \in DOMAIN regions
  /\ regions' = [r \in DOMAIN regions |->
                   [regions[r] EXCEPT !.size = <<0, 0>>, !.columns = 0, !.box = NoBox]]
  /\ UNCHANGED <<images, display, fontData, font, faces, sizeChanged, inFrame, measured>>

Next(ms) == HandleMessage(ms) \/ CreateRegion \/ Frame \/ ClearTallies

Spec == Init /\ [][Next(Commands)]_vars

------------------------------------------------------------------------------
(* Properties *)

Places == Args("SETLOCATION") \cup {Full}
Displays == Args("SETGLOBAL") \cup {Default}
Layouts == {arg.layout : arg \in Args("SETLAYOUT")} \cup {Default}
ClockSets == Layouts \cup Args("SETCLOCKS")
Styles == {arg.style : arg \in Args("SETLAYOUT")} \cup {Default}
Contents == Args("STOREFONT") \cup {NoFont}
Faces == Contents \cup {Default}

RegionStates ==
  [place : Places, size : Args("SETSIZE") \cup {<<0, 0>>},
   columns : Args("SETROW") \cup {0}, box : Boxes, zone : {"default", "local", "global"},
   legacy : BOOLEAN, layout : Layouts, clocks : ClockSets, style : Styles, recalc : BOOLEAN,
   seen : (Places \X Displays) \cup {NotLaidOut},
   laidOut : (Places \X Displays \X ClockSets \X Styles \X Faces) \cup {NotLaidOut}]

\* Every variable has its type, and SETLAYOUT's clocks are in use until
\* SETCLOCKS is.
TypeOK ==
  /\ DOMAIN regions \subseteq RegionIds /\ regions \in [DOMAIN regions -> RegionStates]
  /\ \A r \in DOMAIN regions : regions[r].legacy => regions[r].clocks = regions[r].layout
  /\ images \subseteq ImageNames /\ display \in Displays
  /\ fontData \in Contents /\ font \in {"stored", Default} /\ Face \in faces /\ faces \subseteq Faces
  /\ sizeChanged \in BOOLEAN /\ inFrame \in BOOLEAN
  /\ DOMAIN measured = Zones

\* What is drawn, when no message is waiting for a frame
Drawn(z, face) == Items(regions, images, z, face)
Ordinary(S) == {item \in S : item.text \notin ImageNames}

\* The boxes of every region that is drawn were computed from its present
\* place, clocks, style and display, although RecalcDimensions runs only when
\* somebody has set m_bRecalcReqd or the region's size has changed, and with
\* the font that is in use: with the face it has, unless STOREFONT or CLEARFONTS
\* has changed what its name stands for since the name came into use.  Neither
\* has the boxes computed again, and then they may be those of an earlier face.
\* (Whether the digital clocks have a prefix is not among all this: it changes
\* with the clocks of other regions, and is not recalculated either.)
DimensionsFresh ==
  ~inFrame => \A r \in DOMAIN regions :
                \E face \in faces : regions[r].laidOut = Extent(regions[r], display, face)

\* "PiClock will find the maximum font size that can still display the text on
\* all indicators" of a zone: the text sizes that are drawn with were computed
\* from exactly the texts that are drawn, although RecalcTexts runs only when
\* some handler has reported a change.  This holds for texts that never name
\* an image: STOREIMAGE and CLEARIMAGES, which turn a text into a picture and
\* back, report none.  And it holds up to the face: all texts were measured with
\* the face of the font in use, or with one its name stood for before.
TextSizesFresh ==
  ~inFrame => \E face \in faces : \A z \in Zones :
    Ordinary(Drawn(z, face)) # {} => Ordinary(Drawn(z, face)) = Ordinary(measured[z])
=============================================================================
