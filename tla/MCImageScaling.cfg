\* Two sizes, two stores, of the same bytes or of others, and a clear, at any moment.
SPECIFICATION FairSpec
CONSTANTS
  g1 = g1
  g2 = g2
  Names = {"logo"}
  Geoms <- BothGeoms
  MaxStores = 2
  MaxClears = 1
CHECK_DEADLOCK FALSE
INVARIANTS
  TypeOK
  JobHasEntry
  PicturesAreCurrent
  NoLostWakeup
PROPERTIES
  IsPictureCache
  EventuallySharp
