\* Two faults of any kind, one timer that expires while they last, no pre-vote.
CONSTANTS
  n1 = n1
  n2 = n2
  n3 = n3
  Nil = Nil
  Server = {n1, n2, n3}
  InitVoters <- AllVote
  PreVote = FALSE
  CheckQuorum = TRUE
  SnapshotThreshold = 0
  MaxAppendEntries = 2
  Faults = {"partition", "heal", "drop", "reorder", "stop"}
  Victims = {n1}
  MaxFaults = 2
  MaxTimers = 1
SPECIFICATION Spec
CHECK_DEADLOCK FALSE
PROPERTIES
  Recovers
