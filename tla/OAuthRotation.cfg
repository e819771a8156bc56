SPECIFICATION FairSpec
CONSTANTS
  f1 = f1
  f2 = f2
  c1 = c1
  c2 = c2
  Families = {f1}
  Clients = {c1}
  Explorers = {c1}
  NoClient = NoClient
  Pairs = 3
  RefreshTTL = 3
  ExplorerTTL = 2
  AccessTTL = 1
  CodeTTL = 1
  UnusedTTL = 2
  ConsentTTL = 2
  MaxActive = 2
  MaxPerClient = 1
  MaxFaults = 2
INVARIANTS
  OneSuccessor
  RevokedMeansDead
  ReplayEndsFamily
  LiveGrantKeepsToken
  NoTokenLeftBehind
  GrantKeepsClient
PROPERTIES
  TokenIsReturned
