SPECIFICATION Spec
CONSTANTS
    ann = ann
    alexBot = alexBot
    rossBot = rossBot
    joanneBot = joanneBot
    alex = alex
    ross = ross
    joanne = joanne
    User = {ann, alexBot, rossBot, joanneBot, orchestrator}
    Employee = {alex, ross, joanne}
    NoKey = NoKey
    KeyOf <- MCKeyOf
    Order <- MCOrder
    EveryoneLimit = 2
    ChannelLimit = 2
    Intn <- MCIntn
    PatternEntries <- MCPatterns
    Marks = {","}
    PinnedTools = {"create-issue"}
    UpdateTerms = "update-terms"
    Joanne = joanne
    NoTool = NoTool
    Scripts <- MCScripts
    Workers = {w1, w2}
    Bots = {alexBot, rossBot, joanneBot, orchestrator}
    Orchestrator = orchestrator
    NoUser = NoUser
    Modes = {"full", "no_redis", "no_dispatch"}
    PageSize = 200
    MaxWords = 6
    MaxDeliveries = 2
    MaxExpiries = 1
    MaxRestarts = 1
SYMMETRY Symmetry
CHECK_DEADLOCK FALSE
INVARIANTS
    TypeOK
    TermsGate
    FollowUpsFollowTheThread
    SameMessageSameAnswer
    PinNamesKickoff
