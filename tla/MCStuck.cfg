\* A node stops while messages are dropped, with pre-vote.
CONSTANTS
  n1 = n1
  n2 = n2
  n3 = n3
  Nil = Nil
  Server = {n1, n2, n3}
  InitVoters <- AllVote
  PreVote = TRUE
  CheckQuorum = TRUE
  SnapshotThreshold = 0
  MaxAppendEntries = 2
  Faults = {"stop", "drop"}
  Victims = {n1}
  MaxFaults = 3
  MaxTimers = 1
SPECIFICATION Spec
CHECK_DEADLOCK FALSE
PROPERTIES
  LeaderEmerges
