\* Two names, two fonts, garbage; two labels.
SPECIFICATION Spec
CONSTANTS
  n1 = n1
  n2 = n2
  narrow = narrow
  wide = wide
  Names = {n1, n2}
  Data = {narrow, wide}
  Garbage = Garbage
  None = None
  Serif = Serif
  Sans = Sans
  Mono = Mono
  Width <- Widths
  Labels <- SomeLabels
  SetFontsMessages <- Asks
INVARIANTS
  NanovgHasFontData
  FontsInUseFound
  LabelsFit
  HeightsFresh
