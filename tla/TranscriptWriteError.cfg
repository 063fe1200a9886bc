SPECIFICATION Spec
CONSTANTS
  MaxEntries = 5
  MaxRun = 2
  KeepLast = 2
  Faults = {"write"}
INVARIANT SeqsUnique
