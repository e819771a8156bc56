SPECIFICATION Spec
CONSTANTS
  Subjects = {s1, s2, s3}
  Users = {u}
  Uuids = {a, b, c}
  Structures = {{a, b, c}, {a, b}, {c}}
  Sizes = {1, 2}
  MaxBatch = 1
  MaxStates = 2
  CacheBytes = 3
  MaxTotal = 4
  NoUser = NoUser
  Families = {f1, f2}
  Loads = {l1, l2}
  big = big
  small = small
  Markers = 2
  MaxEntries = 2
  ProjectBytes = 2
  NoFamily = NoFamily
  NoContent = NoContent
  NoLoad = NoLoad
  Callers = {c1, c2}
  Entries = {e}
  Previews = {1, 2, 3}
  Revisions = 2
  TicketTTL = 1
  MaxPerCaller = 1
  NoClaim = NoClaim
  NoCaller = NoCaller
  NoEntry = NoEntry
  Transactions = {t}
  Calls = {k1, k2, k3}
  MaxAttempts = 2
  MaxOpen = 1
  LoginTTL = 1
  NoToken = NoToken
  NoTransaction = NoTransaction
  Drafts = {d}
  Addresses = {address}
  Prefixes = {prefix}
  Values = {0, 1}
  Requests = {r1, r2}
  DraftTTL = 2
  ReceiptTTL = 1
  ReceiptLimit = 1
  MaxCatalog = 2
  MaxRevision = 4
  Sources = {a}
  StateValues = {on, off}
  Retention = 3
  MaxRecords = 3
  Batch = 1
  NoValue = NoValue
  MaxTime = 4
  MaxFaults = 1
  Bindings = {b}
  FamilyTTL = 2
  Keep = 3
  MaxClock = 4
  NoRecord = NoRecord
  Hours = 8
  Duration = 1
  MinimumOff = 1
  Energy <- MCEnergy
  Export <- MCExport
  Windows <- MCWindows
  DeclaredDuration = 2
  DeclaredEnergy = 1
  MaxEpisodes = 3
  MaxIntervals = 3
  MaxAlternatives = 13
  MaxSelections = 3
  MaxAllocations = 4
  MaxBreaks = 1
  Posts = {p1, p2}
  MaxWire = 2
  LastClient = 1
  Profiles = {i1, i2}
  Connections = {n}
  MaxVersion = 2
  Nobody = Nobody
  NoConnection = NoConnection
  NoIdentity = NoIdentity
CHECK_DEADLOCK FALSE
INVARIANTS
  TypeOK
  BudgetKept
  ResultIsOwn
  NothingComesBack
  ApprovedOnce
  TokenHasOwner
  PhasesAreTrue
  UseKeepsApproval
  GivenByAdmin
  CyclesWereRun
  PlanIsPossible
  StopHonoured
  StopIsTold
  AnswerIsOwn
PROPERTIES
  SharesProtected
  NoSecondAttempt
  AppliedAsAgreed
