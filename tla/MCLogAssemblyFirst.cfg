\* Every file of up to two lines of the thirteen kinds.
CONSTANTS
    LineKinds <- MCLineKinds
    MaxLines = 2
SPECIFICATION Spec
INVARIANTS
    EndsAtEOF
