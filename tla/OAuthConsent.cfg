SPECIFICATION Spec
CONSTANTS
  f1 = f1
  f2 = f2
  c1 = c1
  c2 = c2
  Families = {f1}
  Clients = {c1}
  Explorers = {}
  NoClient = NoClient
  Pairs = 2
  RefreshTTL = 2
  ExplorerTTL = 1
  AccessTTL = 1
  CodeTTL = 1
  UnusedTTL = 2
  ConsentTTL = 2
  MaxActive = 2
  MaxPerClient = 1
  MaxFaults = 0
INVARIANTS
  FlowKeepsClient
