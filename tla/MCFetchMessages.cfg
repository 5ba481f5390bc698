SPECIFICATION FetchSpec
CONSTANTS
    MaxTotal = 20
    MaxFiltered = 2
    Limits <- MCLimits
    Cuts <- MCCuts
INVARIANTS InBounds  ListIsTheFilter
PROPERTIES Answers
CHECK_DEADLOCK FALSE
