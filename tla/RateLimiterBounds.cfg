\* 15 requests per second: 0.75 tokens in the shortest time that could refill.
\* After the longest pause the sum of tokens overflows.
SPECIFICATION Spec
CONSTANTS
    RateLimitRps = 15
    RateLimitBurst = 3
    Word = 16
    Pauses = {25, 50, 1050}
    MaxTime = 1400
INVARIANTS
    NeverFaster
    
