SPECIFICATION Spec
CONSTANTS
  Faults = {"lose", "repeat", "store", "read", "reconnect", "bridge", "phone"}
  MaxFaults = 1
  MaxNet = 3
  SyncIds = {1, 2}
  Backlog = 1
  MaxSeq = 2
  MaxRetries = 1
  KeepLast = 1
  MaxAttempts = 2
  Listed = TRUE
INVARIANT SyncTruthful
