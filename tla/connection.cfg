SPECIFICATION FairSpec

CONSTANTS
    t1 = t1
    t2 = t2
    alfa = alfa
    beta = beta
    Task = {t1, t2}
    Name = {alfa, beta}
    NameOf <- InboxOf
    Lists <- BothOrNobody
    Outside = outside
    None = none
    MaxSends = 1

CHECK_DEADLOCK FALSE

INVARIANTS
    TypeOK
    ReturnedIsStored
    NoOrphanTransaction

PROPERTIES
    CallsReturn
    OneConnection
