----------------------------- MODULE MCRegions -----------------------------
(* Regions for TLC: the commands are chosen so that every handler meets a  *)
(* region of its own, a region it must create, and regions it must remove. *)
EXTENDS Regions

RegionIdsUsed == {0, 1}

To(i, cmd, args) == [cmd : {cmd}, region : {i}, arg : args]
Global(cmd, args) == To(NoIndex, cmd, args)

\* Everything about an indicator of region 0, and a second region that may
\* share its zone (that the length of a countdown matters is in Clocks)
TextCommands ==
  To(0, "SETSIZE", {<<1, 1>>}) \cup To(1, "SETSIZE", {<<1, 1>>})
    \cup To(0, "SETROW", {2})
    \cup To(0, "SETTALLY", {"logo", "LIVE"}) \cup To(1, "SETTALLY", {"LIVE"})
    \cup To(0, "SETLABEL", {"Studio", NoLabel})
    \cup To(0, "SETCOUNTDOWN", {"hours"})
    \cup To(0, "SETFONTSIZEZONES", {"local", "global"})
    \cup To(1, "SETFONTSIZEZONES", {"global"})
    \cup Global("SETTALLY", {"LIVE"})
    \cup Global("STOREIMAGE", {"logo"}) \cup Global("CLEARIMAGES", {"all"})
    \cup Global("SETREGIONCOUNT", {0})

\* Everything about the place and the looks of a region
LookCommands ==
  To(0, "SETLOCATION", {"half"}) \cup To(0, "SETCLOCKS", {"utc"})
    \cup To(0, "SETLAYOUT", [layout : {"default"}, style : {"default", "plain"}])
    \cup Global("SETCLOCKS", {"local"})
    \cup To(0, "SETSIZE", {<<1, 1>>}) \cup To(0, "SETTALLY", {"LIVE"})
    \cup To(1, "SETSIZE", {<<1, 1>>})
    \cup Global("SETGLOBAL", {"default", "portrait"})
    \cup Global("SETREGIONCOUNT", {1})
    \cup Global("SETFONTS", {"other"})

\* Everything about the fonts, with a text in one region and none in another
FontCommands ==
  Global("SETFONTS", {"stored", "other"})
    \cup Global("STOREFONT", {"thin", "bold"}) \cup Global("CLEARFONTS", {"all"})
    \cup To(0, "SETSIZE", {<<1, 1>>}) \cup To(0, "SETTALLY", {"LIVE"})
    \cup To(0, "SETLAYOUT", [layout : {"default"}, style : {"default", "plain"}])
    \cup To(1, "SETLOCATION", {"half"}) \cup Global("SETREGIONCOUNT", {1})

AllCommands == TextCommands \cup LookCommands \cup FontCommands

\* The servers of a run send one kind of command: what an indicator says, where
\* a region lies and what a font is meet in Frame only, and all of them together
\* are more than a run can enumerate.
VARIABLE sent
MCInit == Init /\ sent \in {TextCommands, LookCommands, FontCommands}
MCSpec == MCInit /\ [][Next(sent) /\ UNCHANGED sent]_<<vars, sent>>
=============================================================================
