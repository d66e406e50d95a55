CONSTANTS
    Core = {c1, c2, c3}
    First = c1
    MaxCalls = 1
    Chars = 2
    Empty = Empty
    None = None
SPECIFICATION Spec
INVARIANT Inv
INVARIANT LinesWhole
INVARIANT ChecksReported
INVARIANT MissingOnce
PROPERTY GoesOff
