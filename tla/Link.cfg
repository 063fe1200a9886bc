SPECIFICATION MCSpec
CONSTANTS
  MaxPosts = 3
  MaxFaults = 1
  MaxQueue = 2
  ConnectDeadline = 1
  StaleAfter = 1
  LinkScenes <- MCLinkScenes
  Relays = {"x", "y"}
  Subs = {"s"}
  Only <- MCOnly
  MaxDials = 3
  OutboundQueue = 2
  Attempts = 2
  MaxFrames = 3
  PoolScenes <- MCPoolScenes
  MaxEvents = 3
  MaxConns = 2
  MaxCalls = 3
  Ids = {"i", "j"}
  Large = {"j"}
  Budget = 3
  Grace = 1
  OutboxCap = 2
  LaneCap = 1
  TermCap = 1
  MaxConnections = 2
  DirectScenes <- MCDirectScenes
  Phones = {"p", "q"}
  RunMax = 2
  TermMax = 2
  InFlight = 2
  RateLimitRetries = 1
  MaxChanges = 1
  PublishScenes <- MCPublishScenes
  SafeBytes = 6
  Margin = 1
  Envelope = 1
  MaxOpen = 2
  MaxBytes = 9
  AssemblyTtl = 2
  InvalidCap = 1
  ChunkScenes <- MCChunkScenes
  Requests <- MCRequests
  Hosts = {"g", "h"}
  MaxArrivals = 3
  MaxPageConnections = 2
  MaxPerHost = 1
  MaxPageRequests = 1
INVARIANTS
  LinkSound
  PoolSound
  DirectSound
  PublishSound
  ChunksSound
  ListenSound
CHECK_DEADLOCK FALSE
