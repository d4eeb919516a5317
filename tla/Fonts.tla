-------------------------------- MODULE Fonts --------------------------------
(***************************************************************************)
(* The fonts: those that servers store (FontData) and nanovg knows, the    *)
(* names in use, and what is remembered of them: fontHeights, which only   *)
(* grows, and the two generations of clipped labels that TextClip fills    *)
(* and RotateTextClipCache ages with every frame.                          *)
(*                                                                         *)
(* All characters of a font are equally wide, and so are the dots that end *)
(* a clipped label.  A label is [text, length, room]; its room is the      *)
(* width of its box for one point of its size, which must not be negative. *)
(***************************************************************************)
EXTENDS Integers, Sequences

CONSTANTS
  Names,        \* the names under which fonts are stored
  Data,         \* contents that nanovg can use as a font
  Garbage,      \* contents that it cannot
  None,         \* no font
  Serif, Sans, Mono,  \* the built-in fonts
  Width,        \* the width of a character of each font
  Labels,       \* the labels of indicators
  SetFontsMessages    \* what SETFONTS asks for, role by role

BuiltIn == {Serif, Sans, Mono}
Roles == {"tally", "tally_label", "status", "digital", "date", "hours"}

ASSUME FontsAssumption ==
  /\ Garbage \notin Data /\ None \notin Data \cup {Garbage} \cup Names
  /\ BuiltIn \cap (Names \cup Data) = {}
  /\ Width \in [Data \cup BuiltIn \cup {None} -> Nat] /\ Width[None] = 0
  /\ \A l \in Labels : l.length \in Nat /\ l.room \in Nat
  /\ SetFontsMessages \subseteq [Roles -> Names \cup {None}]

VARIABLES
  fontData,  \* FontData
  nvg,       \* what nanovg finds under a name
  inUse,     \* font_Tally, font_TallyLabel, ...
  heights,   \* fontHeights: what each height was measured of
  clip, prevClip,  \* clippedTextCache and prevClippedTextCache
  phase,     \* of the frame: "handling" messages or "drawn"
  reused     \* history: the names whose contents have changed or gone

vars == <<fontData, nvg, inUse, heights, clip, prevClip, phase, reused>>

Empty == [k \in {} |-> 0]

Init ==
  /\ fontData = [n \in Names |-> None] /\ nvg = fontData
  /\ inUse = [r \in Roles |-> IF r = "digital" THEN Mono ELSE IF r = "hours" THEN Sans ELSE Serif]
  /\ heights = Empty /\ clip = Empty /\ prevClip = Empty
  /\ phase = "handling" /\ reused = {}

Found(name) == IF name \in BuiltIn THEN name ELSE nvg[name]

------------------------------------------------------------------------------
(* The messages *)

\* nvgCreateFontMem: a font that is already there under the name is the one
\* that is found.
Create(fonts, name, data) ==
  IF data \in Data /\ fonts[name] = None THEN [fonts EXCEPT ![name] = data] ELSE fonts

\* resetFonts: nanovg forgets all fonts and is given those that remain.
ResetFonts(data) == [n \in Names |-> IF data[n] \in Data THEN data[n] ELSE None]

\* Mutant of StoreFont: the font that is replaced is not removed.
StoreFontOver(n, d) ==
  /\ phase = "handling" /\ fontData[n] # d
  /\ fontData' = [fontData EXCEPT ![n] = d] /\ nvg' = Create(nvg, n, d)
  /\ reused' = IF fontData[n] # None \/ d = Garbage THEN reused \cup {n} ELSE reused
  /\ UNCHANGED <<inUse, heights, clip, prevClip, phase>>

\* STOREFONT of what is stored already is ignored.
StoreFont(n, d) ==
  LET others == [fontData EXCEPT ![n] = None]
      base == IF fontData[n] = None THEN nvg ELSE ResetFonts(others)
  IN /\ phase = "handling" /\ fontData[n] # d
     /\ fontData' = [fontData EXCEPT ![n] = d] /\ nvg' = Create(base, n, d)
     /\ reused' = IF fontData[n] # None \/ d = Garbage THEN reused \cup {n} ELSE reused
     /\ UNCHANGED <<inUse, heights, clip, prevClip, phase>>

\* CLEARFONTS leaves the names in use as they are.
ClearFonts ==
  /\ phase = "handling"
  /\ fontData' = [n \in Names |-> None] /\ nvg' = ResetFonts(fontData')
  /\ reused' = reused \cup {n \in Names : fontData[n] # None}
  /\ UNCHANGED <<inUse, heights, clip, prevClip, phase>>

\* Mutant of UpdateFont: it is not asked whether the font is stored.
UpdateFontUnchecked(name, default) == IF name # None THEN name ELSE default

\* updateFont
UpdateFont(name, default) ==
  IF name # None /\ fontData[name] # None THEN name ELSE default

\* SETFONTS: labels and status have the font of the tallies if they are given
\* none of their own.
SetFonts(m) ==
  LET tally == UpdateFont(m["tally"], Serif)
  IN /\ phase = "handling"
     /\ inUse' = [tally       |-> tally,
                  tally_label |-> UpdateFont(m["tally_label"], tally),
                  status      |-> UpdateFont(m["status"], tally),
                  digital     |-> UpdateFont(m["digital"], Mono),
                  date        |-> UpdateFont(m["date"], Serif),
                  hours       |-> UpdateFont(m["hours"], Sans)]
     /\ UNCHANGED <<fontData, nvg, heights, clip, prevClip, phase, reused>>

------------------------------------------------------------------------------
(* The frame *)

\* Mutant of ClipLength: the search for a text that is short enough is left out.
ClipLengthGrown(length, width, room) ==
  LET start == (length * room) \div (length * width)
  IN CHOOSE k \in start .. length : k * width >= room /\ \A i \in start .. k - 1 : i * width < room

\* The two loops of TextClip, for a text that is too wide: from the length it
\* would have in proportion up to the first that is not too short, and down to
\* the first that is not too wide, but no further than to one character.
ClipLength(length, width, room) ==
  LET start == (length * room) \div (length * width)
      grown == CHOOSE k \in start .. length :
                 k * width >= room /\ \A i \in start .. k - 1 : i * width < room
      fitting == {k \in 1 .. grown : k * width <= room}
  IN IF fitting # {} THEN CHOOSE k \in fitting : \A i \in fitting : i <= k
                     ELSE IF grown = 0 THEN 0 ELSE 1

\* A text that is too wide ends in dots if they leave any room.
Clipped(label, width) ==
  IF label.length * width <= label.room
    THEN [length |-> label.length, dots |-> FALSE]
    ELSE LET dots == width < label.room
         IN [length |-> ClipLength(label.length, width, IF dots THEN label.room - width
                                                                ELSE label.room),
             dots |-> dots]

\* The key of a label in the caches: font and text, and the room per point
Key(label) == [font |-> inUse["tally_label"], label |-> label]

\* The labels are drawn, from this frame's cache, the last one's, or anew, and
\* the heights of the fonts in use are measured if they never were.
Draw(labels) ==
  LET keys == {Key(l) : l \in labels}
      measured == {inUse[r] : r \in Roles \ {"hours"}}
  IN /\ phase = "handling" /\ phase' = "drawn"
     /\ clip' = [k \in keys |-> IF k \in DOMAIN prevClip THEN prevClip[k]
                                ELSE Clipped(k.label, Width[Found(k.font)])]
     /\ heights' = [n \in DOMAIN heights \cup measured |->
                      IF n \in DOMAIN heights THEN heights[n] ELSE Found(n)]
     /\ UNCHANGED <<fontData, nvg, inUse, prevClip, reused>>

\* RotateTextClipCache, as the next frame begins
Rotate ==
  /\ phase = "drawn" /\ phase' = "handling"
  /\ prevClip' = clip /\ clip' = Empty
  /\ UNCHANGED <<fontData, nvg, inUse, heights, reused>>

Next ==
  \/ \E n \in Names, d \in Data \cup {Garbage} : StoreFont(n, d)
  \/ ClearFonts
  \/ \E m \in SetFontsMessages : SetFonts(m)
  \/ \E labels \in SUBSET Labels : Draw(labels)
  \/ Rotate

Spec == Init /\ [][Next]_vars

------------------------------------------------------------------------------
(* Properties *)

Keys == [font : Names \cup BuiltIn, label : Labels]

TypeOK ==
  /\ fontData \in [Names -> Data \cup {Garbage, None}] /\ nvg \in [Names -> Data \cup {None}]
  /\ inUse \in [Roles -> Names \cup BuiltIn] /\ reused \subseteq Names
  /\ DOMAIN heights \subseteq Names \cup BuiltIn
  /\ DOMAIN clip \subseteq Keys /\ DOMAIN prevClip \subseteq Keys
  /\ phase \in {"handling", "drawn"} /\ (phase = "handling" => clip = Empty)

\* nanovg draws with pointers into FontData: whatever is stored, replaced and
\* cleared, it has under each name exactly the contents that are stored, never
\* those of a string that has been overwritten.
NanovgHasFontData ==
  \A n \in Names : nvg[n] = IF fontData[n] = Garbage THEN None ELSE fontData[n]

\* A font in use can be found, so that texts in it can be measured, unless its
\* own name has been cleared or been given other contents: no storing or
\* clearing of another name, and no SETFONTS, takes it away.
FontsInUseFound == \A r \in Roles : inUse[r] \in BuiltIn \cup reused \/ nvg[inUse[r]] # None

Drawn(k, length) == length * Width[Found(k.font)]

\* A label is drawn as long as its box allows: whole, or one more character
\* would be too much for it; it is too wide only if not even one character has
\* room.  This is so from frame to frame although nothing clears the cache
\* when fonts change, except for names whose contents have changed.
LabelsFit ==
  \A k \in DOMAIN clip :
    k.font \notin reused =>
      LET dots == IF clip[k].dots THEN 1 ELSE 0
          length == clip[k].length
      IN /\ Drawn(k, length + dots) <= k.label.room \/ length = 1
         /\ length = k.label.length \/ Drawn(k, length + 1 + dots) > k.label.room

\* A height that is remembered is that of the font of this name, except for
\* names whose contents have changed: they keep their first height for ever.
HeightsFresh == \A n \in DOMAIN heights \ reused : heights[n] = Found(n)
=============================================================================
