\* Violated by the code: see the README's findings.
SPECIFICATION Spec
CONSTANTS
  Endpoints = 2
  ServerLines <- OneKind
  MaxLines = 1
  MaxGpi = 1
  DelayLimit = 1
INVARIANT
  WireCarriesLines
