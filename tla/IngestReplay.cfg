SPECIFICATION IngestSpec
CONSTANTS
  Commands = {c1}
  Junk = {}
  ByIdentity = {}
  MaxAge = 2
  Grace = 2
  Cap = 3
  Behind = 1
  Ahead = 0
  Disorder = 1
  IngestFaults = {"crash"}
  MaxRestarts = 1
  MaxSnapshots = 2
  MaxNow = 4
INVARIANT NeverTwice
