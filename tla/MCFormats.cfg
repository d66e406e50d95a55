CONSTANTS
    Programs <- MCPrograms
    Limits = {4, 30}
    Word = 256
    Short = 16
SPECIFICATION Spec
INVARIANT Inv
INVARIANT Formatted
INVARIANT Portable
PROPERTY ReadsBack
