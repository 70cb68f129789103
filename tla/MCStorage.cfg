\* Four method calls on a log of two entries, with two crashes.
CONSTANTS
  v1 = v1
  Nil = Nil
  Voter = {v1}
  MaxTerm = 2
  MaxIndex = 2
  MaxCalls = 4
  MaxCrashes = 2
  MaxReopens = 1
SPECIFICATION Spec
CHECK_DEADLOCK FALSE
INVARIANTS
  StoreImplementsLog
PROPERTIES
  CrashBetweenMethods
  CrashKeepsVote
  CrashKeepsCommitted
  CrashInAppendLeavesPrefix
