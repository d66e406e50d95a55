CONSTANTS
    Programs <- MCFloats
    Limits = {30}
    Word = 256
    Short = 16
SPECIFICATION Spec
INVARIANT FloatsAsInC
