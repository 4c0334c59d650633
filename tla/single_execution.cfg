\* One unit, two nodes, two retries; both processes may crash, a message may be lost, a launch may fail.
CONSTANTS
    a = a  b = b  c = c  s1 = s1  s2 = s2  j1 = j1  n1 = n1  n2 = n2
    Units = {a}
    Stages = {s1}
    Jobs = {j1}
    Nodes = {n1, n2}
    NoNode = NoNode
    StageOf <- PairStageOf
    JobOf <- OneJobOf
    DependsOn <- NoDeps
    Workflow = {}
    MaxRetries = 2
    Fits <- Everywhere
    Outcomes = {"Completed", "Failed"}
    Budget <- ExecutionFaults
    Prompt = TRUE
SPECIFICATION Spec
INVARIANTS SingleExecution
PROPERTIES KeepsUnitLife
