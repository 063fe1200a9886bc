SPECIFICATION MCSpec
CONSTANTS
  DismissedTtl = 2
  CloseRetry = 1
  RecentAge = 1
  TombstoneCap = 1
  MaxQueued = 1
  NoSession = "none"
  Sessions = {"a", "b"}
  ListScenes <- MCListScenes
  MaxItem = 2
  MaxOutboxItems = 1
  MaxAttempts = 2
  MaxRetried = 1
  ConfirmTimeout = 1
  Cooldown = 2
  PendingSweep = 1
  MaxMessages = 3
  MaxTicks = 2
  MaxUser = 2
  AttScenes <- MCAttScenes
  LoopScenes <- MCLoopScenes
  ReplyChars = {"t", "u", "v", "x", "<", "m", ">"}
  LiveScenes <- MCLiveScenes
  CatchUpCap = 3
  CacheSessions = {"s", "t"}
  MaxRow = 3
  RowScenes <- MCRowScenes
  WatchMachines = {"m", "n"}
  Idle = "none"
  WatchScenes <- MCWatchScenes
  NoId = "none"
  FinishedAgentsShown = 1
  EndedTasksShown = 1
  NoView = NoView
  ScreenIds = {sc1, sc2}
  ViewScenes <- MCViewScenes
  Alphabet <- MCAlphabet
  MaxLen = 4
INVARIANTS
  EachEntryOnce
  ScreenIsCurrent
  NothingVanishes
  ViewedIsClean
  LoopSound
  LiveIsPrefix
  ReadsExact
  WatchTold
PROPERTY DeletesKept
SYMMETRY MCSymmetry
CHECK_DEADLOCK FALSE
