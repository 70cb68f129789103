\* A write after a snapshot.
CONSTANTS
  n1 = n1
  n2 = n2
  n3 = n3
  w1 = w1
  w2 = w2
  r1 = r1
  Nil = Nil
  Server = {n1, n2, n3}
  InitVoters <- AllVote
  PreVote = FALSE
  CheckQuorum = TRUE
  SnapshotThreshold = 1
  MaxAppendEntries = 2
  Requests <- OneWrite
  Cut <- NoCut
  Timers = {n1}
  Unstable = {n1, n2, n3}
  AskRoles = {"Leader"}
  MaxTimeouts = 1
  MaxTicks = 0
  MaxStops = 0
SPECIFICATION Spec
SYMMETRY FollowerSymmetric
CHECK_DEADLOCK FALSE
INVARIANTS
  NoAssertionFails
