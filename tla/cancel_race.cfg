\* One unit, one node, one cancellation.
CONSTANTS
    a = a  b = b  c = c  s1 = s1  s2 = s2  j1 = j1  n1 = n1  n2 = n2
    Units = {a}
    Stages = {s1}
    Jobs = {j1}
    Nodes = {n1}
    NoNode = NoNode
    StageOf <- PairStageOf
    JobOf <- OneJobOf
    DependsOn <- NoDeps
    Workflow = {}
    MaxRetries = 1
    Fits <- Everywhere
    Outcomes = {"Completed", "Failed"}
    Budget <- OneCancel
    Prompt = TRUE
SPECIFICATION Spec
INVARIANTS CancelCascades
