SPECIFICATION Spec
CONSTANTS
    Loops <- MCLoops
    Inodes <- MCInodes
    MaxIds = 2
    MaxFh = 3
    NumFiles = 2
    MaxBytes = 2
    Clients <- MCClients
    MaxOpens = 3
    OurMinor = 44
    EpochMinor = 44
    KernelMinors <- MCKernelMinors
    Lookups <- MCLookups
    MaxLookups = 3
INVARIANTS
    BackingsSound
    NotifiedAsMeant
PROPERTIES
    PollReturns
    StaleDropped
CHECK_DEADLOCK FALSE
