SPECIFICATION FairSpec

CONSTANTS
    alfa = alfa
    beta = beta
    r1 = r1
    r2 = r2
    r3 = r3
    p1 = p1
    p2 = p2
    p3 = p3
    Human = human
    Everyone = everyone
    NoAgent = none
    Agent = {alfa, beta}
    Name <- Names
    Runner = {r1, r2}
    AgentOf <- PairAgentOf
    Proc = {p1}
    Kind <- StartKind
    ProcOf <- Together
    NextAgent <- RouterToo
    Routes <- SelfRouter
    Thread = {t1}
    Entry = {alfa, beta}
    HumanBudget = 2
    StopTargets = {everyone, alfa}
    MaxRetries = 0
    LoopThreshold = 2
    MaxMessages = 4
    RowId <- SixRows
    Faults = {"empty"}

INVARIANTS
    LoopBound
    CeilingBound

PROPERTIES
    StopHonoured
