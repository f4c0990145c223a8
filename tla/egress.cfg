SPECIFICATION Spec
CONSTANTS
    Files <- MCFiles
    Hosts <- MCHosts
    First <- NamesApex
    Missing <- MCMissing
    Callers = {p1, p2}
    MaxCalls = 2
    MaxEdits = 1
    MaxBuilds = 2
    MaxRequests = 1
CHECK_DEADLOCK FALSE
INVARIANTS RequestsAreJudged EnsuredRuns
PROPERTIES ClientsCannotStopIt TunnelsEnd
