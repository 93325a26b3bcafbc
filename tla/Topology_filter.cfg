SPECIFICATION Spec
CONSTANTS
    Flows <- OneWay
    UserTopics <- OneTopic
    Identity = FALSE
    Whitelist <- None
    Blacklist <- TheOrders
    Mm2Words = {"mm2", "mm2-offset-syncs"}
    HighLag = TRUE
    MaxParts = 1
    MaxHops = 1
    MaxStarts = 1
INVARIANTS FilterRespected
