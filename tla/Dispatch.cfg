SPECIFICATION FairSpec
CONSTANTS
    c1 = c1
    c2 = c2
    alex = alex
    ross = ross
    Calls = {c1, c2}
    Employee = {alex, ross}
    Blank = Blank
    EmployeesOf <- FanoutAndMention
    Modes = {"enabled", "disabled", "no_url"}
    ConfiguredAttempts = 2
    NoCall = NoCall
    MaxConns = 2
    MaxOutages = 1
    MaxDeletes = 1
CHECK_DEADLOCK FALSE
INVARIANTS
    TypeOK
    OkMeansStored
    CopiesAreBounded
    EveryTargetIsAnswered
    OneLiveConnection
    EnsuredHasExisted
PROPERTIES
    CallsReturn
    DeliversAsPromised
