\* Violated by the code: see the README's findings.
SPECIFICATION Spec
CONSTANTS
  Hosts = 1
  Grace = 1
  MaxFrame = 1
PROPERTY KeptWhileConnected
