SPECIFICATION Spec
CONSTANTS
    ann = ann
    alexBot = alexBot
    rossBot = rossBot
    joanneBot = joanneBot
    alex = alex
    ross = ross
    joanne = joanne
    User = {ann, alexBot, rossBot, joanneBot}
    Employee = {alex, ross, joanne}
    NoKey = NoKey
    KeyOf <- MCKeyOf
    Order <- MCOrder
    EveryoneLimit = 2
    ChannelLimit = 5
    Intn <- MCIntn
    PinnedTools = {"create-issue"}
    UpdateTerms = "update-terms"
    Joanne = joanne
    NoTool = NoTool
    Messages = {}
    Texts <- MCTexts
    Environments = {}
    Events = {}
    PatternEntries <- MCPatterns
    Marks = {","}
    DefaultSquadOrder <- MCDefaultOrder
    NotANumber = NotANumber
    Precedes <- MCPrecedes
    Digest <- MCDigest
    Blank = Blank
    ImageText <- MCImageText
    MaxImages = 2
CHECK_DEADLOCK FALSE
INVARIANT OneNameOneIntent
