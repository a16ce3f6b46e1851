SPECIFICATION FairSpec
CONSTANTS
  r1 = r1
  r2 = r2
  r3 = r3
  c1 = c1
  c2 = c2
  k1 = k1
  k2 = k2
  k3 = k3
  m1 = m1
  None = None
  Serve = Serve
  Runs = {r1, r2, r3}
  Cards = {c1, c2}
  Instances <- MCInstances
  CardOf <- MCCardOf
  Calls = {k1, k2, k3}
  KindOf <- MCKindOf
  Target <- MCTarget
  Hitl = {r1}
  PipeRoom = 1
  Faults = {"write", "kill", "verify"}
CHECK_DEADLOCK FALSE
INVARIANTS
  ShutdownTypeOK
  ReportedOnce
  ParkedReportsItself
  AckedIsWritten
  NoWakeupLost
PROPERTIES
  ShutdownEnds
