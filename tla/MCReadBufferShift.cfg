\* A buffer of five bytes, files of up to four lines of up to three bytes.
CONSTANTS
    Size = 5
    MaxLines = 4
    MaxLength = 3
SPECIFICATION Spec
INVARIANTS
    ContentIntact
