SPECIFICATION Spec
CONSTANTS
    ann = ann
    alexBot = alexBot
    rossBot = rossBot
    joanneBot = joanneBot
    alex = alex
    ross = ross
    joanne = joanne
    User = {ann, alexBot, rossBot, joanneBot, orchestrator}
    Employee = {alex, ross, joanne}
    NoKey = NoKey
    KeyOf <- MCKeyOf
    Order <- MCOrder
    EveryoneLimit = 2
    ChannelLimit = 2
    Intn <- MCIntn
    PatternEntries <- MCPatterns
    Marks = {","}
    PinnedTools = {"create-issue"}
    UpdateTerms = "update-terms"
    Joanne = joanne
    NoTool = NoTool
    Scripts <- LongThread
    Workers = {w1}
    Bots = {alexBot, rossBot, joanneBot, orchestrator}
    Orchestrator = orchestrator
    NoUser = NoUser
    Modes = {"full"}
    PageSize = 2
    MaxWords = 6
    MaxDeliveries = 1
    MaxExpiries = 0
    MaxRestarts = 0
CHECK_DEADLOCK FALSE
INVARIANT HandoffIsLastMention
