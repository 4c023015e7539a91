\* The command line: the context is context.Background(), so it never ends.
CONSTANTS
    l1 = l1
    l2 = l2
    p1 = p1
    p2 = p2
    q1 = q1
    Lines <- MCLines
    LogPath <- OwnPath
    Patterns = {p1, p2}
    Positions = {q1}
    Logs <- MCLogs
    Capacity = 1
    CtxEnds = {}
    MaxInt32 = 2
    OldCoverage = OldCoverage
    NoLog = NoLog
    MaxLogs = 2
SPECIFICATION Spec
SYMMETRY LineSymmetry
INVARIANTS
    TypeOK
    Conservation
    CoverageExact
    UnknownExact
    StoredIsFinal
    WholeRun
