CONSTANTS
    Core = {c1, c2}
    Boot = c1
    NoCore = NoCore
    Setups <- MCSetups
    Bytes = {1, 9}
    Value <- LikeTaken
    Unset = Unset
SPECIFICATION Spec
INVARIANT Inv
INVARIANT Coalesced
INVARIANT BestOfFirst
INVARIANT GivenExact
INVARIANT PayloadIntact
INVARIANT NoPanic
PROPERTY ImplementsAllocator
PROPERTY SearchEnds
