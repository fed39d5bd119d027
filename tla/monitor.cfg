SPECIFICATION Spec

CONSTANTS
    x = x
    y = y
    alfa = alfa
    beta = beta
    Thread = {x, y}
    Name = {alfa, beta, human}
    Before <- BothThreads
    Traffic <- TwoAgents
    Typed <- ToBeta
    Human = human
    None = none
    Clustered = TRUE
    Initial = y
    MaxRows = 3
    MaxEvents = 1
    MaxFailures = 1

INVARIANTS
    TypeOK
    FormAddressesThread

PROPERTIES
    SelectionKept
    PanelCatchesUp
