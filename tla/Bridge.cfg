SPECIFICATION MCSpec
CONSTANTS
  AnswerScenes <- MCAnswerScenes
  MaxSent = 2
  MaxSignIns = 1
  FastTimeout = 1
  SlowTimeout = 2
  ProfileIds = {"p"}
  Agents = {"A", "B", "C"}
  Offering = {"A", "B"}
  MaxWrites = 3
  ProfileScenes <- MCProfileScenes
  CredentialIds = {"k", "l", "e"}
  FromEnv = {"e"}
  MaxCredWrites = 2
  Values = {"u", "v"}
  AgentDefault = "d"
  OptionScenes <- MCOptionScenes
  ConfigScenes <- MCConfigScenes
  DefaultRelays = {"wss"}
  ShellScenes <- MCShellScenes
  MaxWindows = 2
  MaxFaults = 1
  AllowDevices = {"d", "e"}
  MaxPendingDevices = 2
  LockWait = 1
  LockStale = 3
  MaxAsked = 2
  AllowScenes <- MCAllowScenes
  MaxRecords = 4
  MaxBytesKept = 4
  MaxDays = 2
  MaxDay = 4
  MaxRuns = 3
  Casts <- MCCasts
  AuditMay <- MCAuditMay
  MaxEntries = 4
  MaxRun = 2
  KeepLast = 2
  Faults = {"tear", "bare", "write", "read", "dir"}
  MaxSeq = 4
  MaxRanges = 3
  Sizes = {1, 2, 3}
  ChunkSize = 2
  ChunkBytes = 3
  MaxSize = 4
INVARIANTS
  AnswersSound
  WritesSound
  OptionsAgree
  ConfigSound
  HomeSound
  AllowSound
  AuditSound
  NeverRenumbered
  TranscriptKept
  RangesSound
CHECK_DEADLOCK FALSE
