\* Two units on a node each, no retry; a node may go offline and come back once.
CONSTANTS
    a = a  b = b  c = c  s1 = s1  s2 = s2  j1 = j1  n1 = n1  n2 = n2
    Units = {a, b}
    Stages = {s1}
    Jobs = {j1}
    Nodes = {n1, n2}
    NoNode = NoNode
    StageOf <- PairStageOf
    JobOf <- OneJobOf
    DependsOn <- NoDeps
    Workflow = {}
    MaxRetries = 1
    Fits <- Apart
    Outcomes = {"Completed", "Timeout"}
    Budget <- NodeFaults
    Prompt = TRUE
SPECIFICATION Spec
INVARIANTS TypeOK CompletedJobIsDone
