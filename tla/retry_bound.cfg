\* One unit on one node, one retry; the node may be unregistered, its agent may pull, reassignDelay may elapse at any time;
\* or else a submission may fail and the job may be cancelled.
CONSTANTS
    a = a  b = b  c = c  s1 = s1  s2 = s2  j1 = j1  n1 = n1  n2 = n2
    Units = {a}
    Stages = {s1}
    Jobs = {j1}
    Nodes = {n1}
    NoNode = NoNode
    StageOf <- PairStageOf
    JobOf <- OneJobOf
    DependsOn <- NoDeps
    Workflow = {}
    MaxRetries = 1
    Fits <- Everywhere
    Outcomes = {"Failed"}
    Budget <- RetryFaults
    Prompt = FALSE
SPECIFICATION EitherSpec
INVARIANTS RetryBound
