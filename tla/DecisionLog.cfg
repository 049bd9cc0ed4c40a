SPECIFICATION FairSpec
CONSTANTS
    c1 = c1
    c2 = c2
    c3 = c3
    alex = alex
    ross = ross
    Calls = {c1, c2, c3}
    Employee = {alex, ross}
    Blank = Blank
    EmployeesOf <- SomeDecisions
    Modes = {"enabled", "disabled", "no_url"}
    ConfiguredMax <- MCConfiguredMax
    SmallestMax = 1
    DefaultMax = 2
    LargestMax = 3
    DefaultLimit = 2
    LargestLimit = 3
    Queries <- MCQueries
    DebugToken = TRUE
    DebugAllowAnon = FALSE
CHECK_DEADLOCK FALSE
INVARIANTS
    TypeOK
    ShowsTheNewest
    EntriesAreTrue
PROPERTY EveryDecisionIsLogged
