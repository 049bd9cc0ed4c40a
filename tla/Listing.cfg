SPECIFICATION FairSpec
CONSTANTS
    Ids = {1, 2, 3, 4}
    Blank = 0
    Humans = {1, 3, 4}
    Requests <- MCRequests
    PageSize = 2
    MaxChannels = 3
    MaxMemberIDs = 5
    MaxHumanUserIDs = 2
CHECK_DEADLOCK FALSE
INVARIANTS
    TypeOK
    ChannelsAreCompleteOrCut
    HumansAreCompleteOrCut
    CutKeepsTheFirst
PROPERTY RequestsEnd
