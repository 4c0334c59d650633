\* In the registry two nodes: a restart of the scheduler, an agent that stops and one that returns,
\* the removal of a node, whose agent may go on. Keys, writers and a standby.
CONSTANTS
    Nodes = {n1, n2}  MinSamples = 2  PhiAt <- Curve  Underflow = 4  Threshold = 2  Timeout = 4
    MaxSilence = 5  Budget <- AllEvents  n1 = n1  n2 = n2
    Absent = Absent  k1 = k1  k2 = k2  w1 = w1  w2 = w2  p = p
SPECIFICATION FailuresSpec
INVARIANTS TypeOK LiveNodeIsUp
PROPERTIES HangsOnlyOverRemoved RecoversByHeartbeat DeadNodeGoesOffline CatchesUp FailsOver
CHECK_DEADLOCK FALSE
