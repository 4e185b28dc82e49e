\* A token for every 50 ms; at most 3 frames pass, so MaxTotal is never met.
SPECIFICATION IngressSpec
CONSTANTS
    RateLimitRps = 20
    RateLimitBurst = 2
    Word = 64
    Conns = {c1, c2}
    Scope = "both"
    ExtAllowlist <- MCExtAllowlist
    HotAllowlist <- MCHotAllowlist
    MaxFrameBytes = 8
    TextFrames <- MCTextFrames
    HotFrames <- MCHotFrames
    ParseU8 <- MCParseU8
    Pauses = {30, 60}
    MaxTime = 90
    MaxTotal = 8
    None = None
    Base = 3
    Messages <- MCMessages
    Modes <- MCModes
SYMMETRY Symmetry
INVARIANTS
    TypeOK
    TenantBound
    ConnTextBound
    ServedOnlyListed
    FramesAccounted
    

    
