SPECIFICATION PublishSpec
\* All connections may have ended.
CHECK_DEADLOCK FALSE
CONSTANTS
    Sessions = {s1, s2}
    Settings <- KickOrShare
INVARIANTS
    TypeOK
    
    
PROPERTIES
    EvictedHearsNothing
    
    PublicationsEnd
