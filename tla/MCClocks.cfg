\* Twenty frames a second.
SPECIFICATION Spec
CONSTANTS
  Ticks = 20
  Moments <- AllMoments
  Countdowns <- SomeCountdowns
  NoLimit = NoLimit
  Powers <- PowersOfTen
INVARIANTS
  DigitsAgree
  FlashesFromLimit
  FitsUntilTarget
PROPERTIES
  HandsNeverJump
  DashesFollowHand
