SPECIFICATION Spec

CONSTANTS
    alfa = alfa
    beta = beta
    t1 = t1
    None = none
    Agent = {alfa, beta}
    Thread = {t1}
    Message <- ThreeMessages
    For <- ForOf
    On <- OnOf
    Tooled = {alfa}
    Routes <- BetaRoutes
    MaxBegun = 3
    MaxCalls = 1
    Faults = {"llm", "empty", "ledger", "crash", "reconfigure"}

CHECK_DEADLOCK FALSE

INVARIANTS
    TypeOK
    AnswerRemembered
    ConversationInOrder
    RouteIsFresh
    EveryAnswerCosted
    StderrRestored
