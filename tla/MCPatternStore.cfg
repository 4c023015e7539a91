\* Three calls with eleven messages; a pool of two writes or 300 bytes.
CONSTANTS
    Nil = Nil
    Failed = Failed
    Puts <- MCPuts
    MaxWrites = 2
    MaxSize = 300
    MaxCalls = 3
SPECIFICATION Spec
INVARIANTS
    TypeOK
    ReportAgrees
    CutNoticed
PROPERTIES
    RefinesEntities
