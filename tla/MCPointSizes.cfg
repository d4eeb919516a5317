\* An int of five bits; up to three texts in two zones.
SPECIFICATION FairSpec
CONSTANTS
  Zones = {"a", "b"}
  Top = 8
  Longest = 3
  Texts <- AllTexts
INVARIANT ZoneSizeIsCommon
PROPERTY RecalcReturns
