CONSTANTS
    Branch = {b1}
    Conn = {c1, c2}
    Worker = {w1, w2}
    Startup = startup
    NoBranch = NoBranch
    NoConn = NoConn
    HeuristicOutcomes = {"HEURISTIC_COMMIT", "HEURISTIC_ROLLBACK"}
    MaxCrashes = 1
    MaxXaFaults = 1
    MaxJournalFaults = 0
SPECIFICATION Spec
SYMMETRY Symmetry
INVARIANT JournalTruthful
INVARIANT InDoubtListed
INVARIANT RepliesAgree
PROPERTY TerminalKept
