\* Two servers, two clients each, two CRYPT lines a client, two changes.
SPECIFICATION FairSpec
CONSTANTS
  Hosts = 2
  Inputs = {7, 8}
  Unsent = 131071
  MaxClients = 2
  MaxCrypts = 2
  MaxChanges = 2
CHECK_DEADLOCK FALSE
INVARIANTS
  TypeOK
  SentIsTold
PROPERTY EventuallyTold
