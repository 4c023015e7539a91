\* Two positions, two levels, three counts.
CONSTANTS
    s1 = s1
    s2 = s2
    Sites <- MCSites
    Levels = {"error", "warn"}
    NoRule = NoRule
    Absent = Absent
    Counts <- MCCounts
SPECIFICATION Spec
SYMMETRY SiteSymmetry
INVARIANTS
    TypeOK
    CoverageHasPattern
    RuleFirst
    ExtractComplete
    ScanComplete
