SPECIFICATION FairSpec
CONSTANTS
    Flows <- BothWays
    UserTopics <- OneTopic
    Identity = FALSE
    Whitelist <- None
    Blacklist <- None
    Mm2Words = {"mm2", "mm2-offset-syncs"}
    HighLag = FALSE
    MaxParts = 2
    MaxHops = 2
    MaxStarts = 2
INVARIANTS TypeOK NoEcho
PROPERTIES Converges
