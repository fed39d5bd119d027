SPECIFICATION Spec

CONSTANTS
    alfa = alfa
    beta = beta
    r1 = r1
    r2 = r2
    r3 = r3
    p1 = p1
    p2 = p2
    p3 = p3
    Human = human
    Everyone = everyone
    NoAgent = none
    Agent = {alfa, beta}
    Name <- Names
    Runner = {r1, r2}
    AgentOf <- PairAgentOf
    Proc = {p1}
    Kind <- StartKind
    ProcOf <- Together
    NextAgent <- Pipeline
    Routes <- NoRouter
    Thread = {t1}
    Entry = {alfa}
    HumanBudget = 1
    StopTargets = {}
    MaxRetries = 0
    LoopThreshold = 0
    MaxMessages = 0
    RowId <- SixRows
    Faults = {"interrupt"}

INVARIANTS
    NoLostReply
