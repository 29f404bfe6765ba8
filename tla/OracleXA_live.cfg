CONSTANTS
    Branch = {b1}
    Conn = {c1}
    Worker = {w1, w2}
    Startup = startup
    NoBranch = NoBranch
    NoConn = NoConn
    HeuristicOutcomes = {"HEURISTIC_COMMIT", "HEURISTIC_ROLLBACK"}
    MaxCrashes = 1
    MaxXaFaults = 1
    MaxJournalFaults = 1
SPECIFICATION FairSpec
PROPERTY PreparedResolved
INVARIANT OutcomeRequested
