SPECIFICATION FairSpec
CONSTANTS
    c1 = c1
    c2 = c2
    Clients <- MCClients
    CommandCap = 1
    MaxEvents = 1
    TriesNumber = 2
    HandlerOutcomes <- Either
INVARIANTS ExpectsHold ReportIsComplete OneAnswerPerRequest
PROPERTIES  RequestsAnswered
CHECK_DEADLOCK FALSE
