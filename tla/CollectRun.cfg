\* Runs over two symbols with five stage lists, and over three with one stage.
SPECIFICATION FairSpec
CONSTANTS
    Requests <- MCRequests
    Workers = 2
    MaxRefusals = 2
INVARIANTS
    NothingLostOrRepeated
PROPERTIES
    DerivedFollowRaw
    RunEnds
