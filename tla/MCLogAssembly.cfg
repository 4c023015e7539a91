\* Every file of up to four lines of the thirteen kinds.
CONSTANTS
    LineKinds <- MCLineKinds
    MaxLines = 4
SPECIFICATION Spec
INVARIANTS
    TypeOK
    BlocksExact
    AtMostOneLost
PROPERTIES
    ScanEnds
