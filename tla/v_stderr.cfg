SPECIFICATION Spec

CONSTANTS
    alfa = alfa
    beta = beta
    t1 = t1
    None = none
    Agent = {alfa, beta}
    Thread = {t1}
    Message <- ThreeMessages
    For <- ForOf
    On <- OnOf
    Tooled = {alfa, beta}
    Routes <- BetaRoutes
    MaxBegun = 2
    MaxCalls = 0
    Faults = {}

CHECK_DEADLOCK FALSE

INVARIANTS
    StderrRestored
