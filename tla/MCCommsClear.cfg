\* Two servers; two seconds of grace, frames of up to two.
SPECIFICATION FairSpec
CONSTANTS
  Hosts = 2
  Grace = 2
  MaxFrame = 2
INVARIANTS
  TypeOK
  StaleTalliesGone
PROPERTIES
  LaterIsKept
  EventuallyCleared
