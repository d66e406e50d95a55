CONSTANTS
    N = 4
    Machines <- MCMachines
    Word = 8
    tempStack = tempStack
    NoStack = NoStack
    CountWord = 20
    Pieces = 16
    Ram = 10
    First = 3
    Image = 4
SPECIFICATION Spec
INVARIANT Inv
INVARIANT ImageLoaded
INVARIANT MemoryKnown
INVARIANT EveryProcessorFound
INVARIANT NoSharedStack
INVARIANT NobodyCutOff
PROPERTY StartsTogether
PROPERTY StopsTogether
PROPERTY ShutsDown
