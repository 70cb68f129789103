\* A leader steps down by check-quorum with answers under way.
CONSTANTS
  n1 = n1
  n2 = n2
  n3 = n3
  w1 = w1
  w2 = w2
  r1 = r1
  Nil = Nil
  Server = {n1, n2, n3}
  InitVoters <- AllVote
  PreVote = FALSE
  CheckQuorum = TRUE
  SnapshotThreshold = 0
  MaxAppendEntries = 2
  Requests <- NoRequests
  Cut <- Hub
  Timers = {n1, n3}
  Unstable = {n1, n2, n3}
  AskRoles = {"Leader"}
  MaxTimeouts = 2
  MaxTicks = 1
  MaxStops = 0
SPECIFICATION Spec
SYMMETRY HubSymmetric
CHECK_DEADLOCK FALSE
INVARIANTS
  NoPanic
