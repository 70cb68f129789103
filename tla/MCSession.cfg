\* Three puts, one of them killed, against two replicas.
CONSTANTS
  p1 = p1
  p2 = p2
  p3 = p3
  s1 = s1
  s2 = s2
  Nil = Nil
  ClientIds = {p1, p2, p3}
  Cli = {p1, p2, p3}
  Replica = {s1, s2}
  MaxSends = 3
  MaxFaults = 1
  MaxSnapshots = 2
SPECIFICATION Spec
SYMMETRY Symmetric
CHECK_DEADLOCK FALSE
INVARIANTS
  ReplicasAgree
  EffectsOnceInOrder
  NumbersFresh
  AcknowledgedEffective
