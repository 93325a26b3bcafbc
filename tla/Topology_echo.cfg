SPECIFICATION Spec
CONSTANTS
    Flows <- BothWays
    UserTopics <- OneTopic
    Identity = FALSE
    Whitelist <- None
    Blacklist <- None
    Mm2Words = {"mm2", "mm2-offset-syncs"}
    HighLag = TRUE
    MaxParts = 1
    MaxHops = 2
    MaxStarts = 1
INVARIANTS NoEcho
