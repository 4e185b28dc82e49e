\* Every configuration file of a small set, and a session of a gateway that
\* started from it, with time in steps of half a second.
SPECIFICATION Spec
CONSTANTS
    None = None
    ParseU8 <- Texts
    BlankIds <- Blank
    SocketAddrs <- Addresses
    Documents <- MCDocuments
    Examples <- MCExamples
    Step = 500
    Latencies = {0, 4500}
    Watched <- Timed
    MaxBuffered = 1
INVARIANTS
    TypeOK
    TenantsResolve
    
    KeptAlive
    ClosedInTime

    
