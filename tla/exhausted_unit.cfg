\* One unit with one retry; the node is unregistered.
CONSTANTS
    a = a  b = b  c = c  s1 = s1  s2 = s2  j1 = j1  n1 = n1  n2 = n2
    Units = {a}
    Stages = {s1}
    Jobs = {j1}
    Nodes = {n1}
    NoNode = NoNode
    StageOf <- PairStageOf
    JobOf <- OneJobOf
    DependsOn <- NoDeps
    Workflow = {}
    MaxRetries = 1
    Fits <- Everywhere
    Outcomes = {"Failed"}
    Budget <- OneUnregister
    Prompt = TRUE
SPECIFICATION Spec
INVARIANTS ReclaimedUnitIsRetried
