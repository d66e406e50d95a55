CONSTANTS
    Kernels <- MCKernels
    FIFO = 2
    MaxTyped = 2
    Word = 8
SPECIFICATION Spec
INVARIANT Inv
INVARIANT EchoAlone
INVARIANT OneByOne
PROPERTY ComesToRest
