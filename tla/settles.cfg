\* A workflow of two stages of one unit each, two retries, every outcome, no faults.
CONSTANTS
    a = a  b = b  c = c  s1 = s1  s2 = s2  j1 = j1  n1 = n1  n2 = n2
    Units = {a, c}
    Stages = {s1, s2}
    Jobs = {j1}
    Nodes = {n1, n2}
    NoNode = NoNode
    StageOf <- ChainStageOf
    JobOf <- OneJobOf
    DependsOn <- ChainDeps
    Workflow = {j1}
    MaxRetries = 2
    Fits <- Apart
    Outcomes = {"Completed", "Failed", "Timeout"}
    Budget <- NoFaults
    Prompt = TRUE
SPECIFICATION LiveSpec
INVARIANTS DagOrder
PROPERTIES Settles
