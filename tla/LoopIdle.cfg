SPECIFICATION FairSpec
\* All connections may have ended.
CHECK_DEADLOCK FALSE
CONSTANTS
    Sessions = {s1}
    Settings <- Alone
PROPERTIES
    IdleIsClosed
