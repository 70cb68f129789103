\* A write and a read, asked of any node and passed on, through two leaders,
\* with a restart.
CONSTANTS
  n1 = n1
  n2 = n2
  n3 = n3
  w1 = w1
  w2 = w2
  r1 = r1
  Nil = Nil
  Server = {n1, n2, n3}
  InitVoters <- AllVote
  PreVote = FALSE
  CheckQuorum = TRUE
  SnapshotThreshold = 0
  MaxAppendEntries = 2
  Requests <- WriteAndRead
  Cut <- Hub
  Timers = {n1, n3}
  Unstable = {n1, n2, n3}
  AskRoles = {"Follower", "Candidate", "Leader"}
  MaxTimeouts = 2
  MaxTicks = 0
  MaxStops = 1
SPECIFICATION RefSpec
SYMMETRY HubSymmetric
CHECK_DEADLOCK FALSE
INVARIANTS
  TypeOK
  NoAssertionFails
  CommittedOnQuorum
  AcknowledgedDurable
  ReadsLinearizable
  AnsweredOnce
PROPERTIES
  ImplementsReplicatedLog
