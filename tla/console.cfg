SPECIFICATION FairSpec

CONSTANTS
    c1 = c1
    c2 = c2
    l1 = l1
    t1 = t1
    t2 = t2
    alfa = alfa
    beta = beta
    human = human
    Chat = {c1, c2}
    Listener = {l1}
    Agent = {alfa, beta}
    Name = {alfa, beta, human}
    Thread = {t1, t2}
    ThreadOf <- ThreadsOf
    AgentOf <- AgentsOf
    NextOf <- Answering
    Wanted <- Filters
    MaxQuestions = 2
    MaxOpens = 3

CHECK_DEADLOCK FALSE

INVARIANTS
    TypeOK
    NothingUnseen
    AnswersTheQuestion
    RepliesInOrder
    ShownOnce
PROPERTIES
    RepliesSeen
