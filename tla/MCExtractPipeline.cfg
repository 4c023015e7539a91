\* Three packages, three files, a channel of one; every old store is possible.
CONSTANTS
    Packages = {"a", "b", "c"}
    Files <- MCFiles
    Sites <- MCSites
    Source <- MCSource
    Levels = {"error", "warn"}
    Capacity = 1
    NoRule = NoRule
    Absent = Absent
SPECIFICATION Spec
INVARIANTS
    TypeOK
    NoSendOnClosed
PROPERTIES
    Termination
    RefinesSession
