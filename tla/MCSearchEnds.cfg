\* A text without a font: see the README's findings.
SPECIFICATION FairSpec
CONSTANTS
  Zones = {"a"}
  Top = 8
  Longest = 1
  Texts <- AllTexts
PROPERTY SearchEnds
