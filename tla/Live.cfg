SPECIFICATION MCSpec
CONSTANTS
  MaxPosts = 2
  MaxFaults = 1
  MaxQueue = 2
  ConnectDeadline = 1
  StaleAfter = 1
  LinkScenes <- MCLinkScenes
  Lifetime = 5
  RenewBefore = 3
  UseMargin = 1
  RegrantEvery = 1
  Lease = 1
  HeldEventsMax = 1
  MaxClients = 2
  MaxCopies = 1
  KeyScenes <- MCKeyScenes
  MaxPairingRelays = 2
  Phones = {"p"}
  Bridges = {"b"}
  MaxRequests = 2
  MaxPairNacks = 1
  PairScenes <- MCPairScenes
  MaxItem = 1
  MaxOutboxItems = 1
  MaxAttempts = 2
  MaxRetried = 1
  ConfirmTimeout = 1
  WatchMachines = {"m"}
  Idle = "none"
  WatchScenes <- MCWatchScenes
  ReplyChars = {"t", "u", "v", "x", "<", "m", ">"}
  LiveScenes <- MCLiveScenes
  CatchUpCap = 3
  AnswerScenes <- MCAnswerScenes
  MaxSent = 2
  MaxSignIns = 1
  FastTimeout = 1
  SlowTimeout = 2
PROPERTIES
  Reconnects
  NothingWaitsForever
  ViewsConverge
CHECK_DEADLOCK FALSE
