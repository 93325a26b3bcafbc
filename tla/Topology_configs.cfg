SPECIFICATION FairSpec
CONSTANTS
    Flows <- OneWay
    UserTopics <- OneTopic
    Identity = FALSE
    Whitelist <- None
    Blacklist <- None
    Mm2Words = {"mm2", "mm2-offset-syncs"}
    HighLag = FALSE
    MaxParts = 1
    MaxHops = 1
    MaxStarts = 1
PROPERTIES ConfigsInLine
