SPECIFICATION Spec
CONSTANTS
    Flows <- OneWay
    UserTopics <- OneTopic
    Identity = FALSE
    Whitelist <- None
    Blacklist <- None
    Mm2Words = {"mm2", "mm2-offset-syncs"}
    HighLag = FALSE
    MaxParts = 2
    MaxHops = 1
    MaxStarts = 1
INVARIANTS PartitionsMatch
