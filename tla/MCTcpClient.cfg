\* Two endpoints, two server lines and one GPI line per session, over many
\* sessions: the delay between two of them can grow to 4.
SPECIFICATION FairSpec
CONSTANTS
  Endpoints = 2
  ServerLines <- NormalLines
  MaxLines = 2
  MaxGpi = 1
  DelayLimit = 2
INVARIANTS
  TypeOK
  OneWriteInFlight
  NoStrandedLine
  EveryWaitIsTimed
  BackoffBounded
PROPERTIES
  StoppedStartsNothing
  LinesReachServerInOrder
  SilentServerEndsSession
  QuickRetryAfterSuccess
