\* The cluster shrinks to one voter while two nodes compete, with a restart and a
\* leader's tick in between.
CONSTANTS
  n1 = n1
  n2 = n2
  n3 = n3
  w1 = w1
  w2 = w2
  r1 = r1
  Nil = Nil
  Server = {n1, n2, n3}
  InitVoters <- AllVote
  PreVote = FALSE
  CheckQuorum = TRUE
  SnapshotThreshold = 0
  MaxAppendEntries = 2
  Requests <- ToOne
  Cut <- Hub
  Timers = {n1, n3}
  Unstable = {n1, n2, n3}
  AskRoles = {"Leader"}
  MaxTimeouts = 3
  MaxTicks = 1
  MaxStops = 1
SPECIFICATION Spec
CHECK_DEADLOCK FALSE
INVARIANTS
  ElectionSafety
  VotesBacked
  MatchBacked
  LeaderCompleteness
PROPERTIES
  TermVoteMonotonic
  CommittedStable
