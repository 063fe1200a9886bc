SPECIFICATION FairSpec
CONSTANTS
  Faults = {"lose", "bridge", "phone"}
  MaxFaults = 1
  MaxNet = 3
  SyncIds = {1, 2}
  Backlog = 2
  MaxSeq = 2
  MaxRetries = 0
  KeepLast = 0
  MaxAttempts = 1
  Listed = TRUE
PROPERTY SyncCompletes
