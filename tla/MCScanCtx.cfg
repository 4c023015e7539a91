\* A context with a deadline, which run tells apart from a cancelled one; both
\* lines read the same path, and the counters are wide enough for the totals.
CONSTANTS
    l1 = l1
    l2 = l2
    p1 = p1
    p2 = p2
    q1 = q1
    Lines <- MCLines
    LogPath <- SamePath
    Patterns = {p1}
    Positions = {q1}
    Logs <- MCOneLog
    Capacity = 1
    CtxEnds = {"deadline"}
    MaxInt32 = 8
    OldCoverage = OldCoverage
    NoLog = NoLog
    MaxLogs = 2
SPECIFICATION Spec
PROPERTIES
    Termination
    RefinesLedger
INVARIANTS
    NilMeansAll
