SPECIFICATION Spec

CONSTANTS
    alfa = alfa
    beta = beta
    exa = exa
    fs = fs
    rt = rt
    k1 = k1
    k2 = k2
    Agent = {alfa, beta}
    Everyone = everyone
    Order <- FileOrder
    Tool = {exa, fs}
    Router = {rt}
    Var = {k1, k2}
    Cluster = {desk, default}
    Default = default
    Section <- Tables
    ServerFile <- McpFiles
    SecretsFile <- Secrets
    PromptFiles <- Prompts
    None = none
    Missing = missing
    Malformed = malformed

CHECK_DEADLOCK FALSE

INVARIANTS
    AllOrNothing
    SecretsStay
    SameVerdict
