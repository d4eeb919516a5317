\* Two regions and one image; a run of texts and images, one of places and looks
\* and one of fonts.
SPECIFICATION MCSpec
CONSTANTS
  RegionIds <- RegionIdsUsed
  NoIndex = 99
  Commands <- AllCommands
  ImageNames = {"logo"}
INVARIANTS
  TypeOK
  DimensionsFresh
  TextSizesFresh
