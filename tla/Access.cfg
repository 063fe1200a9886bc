SPECIFICATION MCSpec
CONSTANTS
  Lifetime = 5
  RenewBefore = 3
  UseMargin = 1
  RegrantEvery = 1
  Lease = 1
  HeldEventsMax = 1
  MaxClients = 2
  MaxCopies = 1
  KeyScenes <- MCKeyScenes
  MaxPairingRelays = 2
  Phones = {"p", "q"}
  Bridges = {"b", "c"}
  MaxRequests = 2
  MaxPairNacks = 1
  PairScenes <- MCPairScenes
  MaxTexts = 2
  MaxText = 2
  Devices = {"A", "B"}
  Items = {"m"}
  Relays = {"x", "y"}
  TombstoneKeep = 9
  MaxClock = 2
  MaxSaves = 3
  MaxSubs = 2
  BackupScenes <- MCBackupScenes
  MaxPending = 2
  MaxSessions = 1
  PendingTtl = 1
  SessionTtl = 1
  StartsPerMinute = 3
  MaxStarts = 3
  MaxTime = 2
  MaxSends = 1
  WebMay <- MCWebMay
  MaxUploadBytes = 16
  TagBytes = 1
  ChunkChars = 4
  MaxFallbackChunks = 4
  MaxRetries = 1
  AttemptTicks = 2
  BlobBudget = 3
  RetryFloor = 1
  ChunkBudget = 4
  SendBudget = 6
  PublishTicks = 2
  AssemblyIdle = 3
  MaxOpenUploads = 1
  UploadScenes <- MCUploadScenes
  Commands = {c1, c2}
  Junk = {j1}
  ByIdentity = {j1}
  MaxAge = 1
  Grace = 2
  Cap = 2
  Behind = 0
  Ahead = 0
  Disorder = 1
  IngestFaults = {"stop", "crash", "write", "pairing"}
  MaxRestarts = 1
  MaxSnapshots = 2
  MaxNow = 3
INVARIANTS
  KeysSound
  PairingSound
  WebSound
  UploadsSound
  IngestSound
PROPERTIES
  SavedNeverRunsAgain
  BackupKept
SYMMETRY Symmetry
CHECK_DEADLOCK FALSE
