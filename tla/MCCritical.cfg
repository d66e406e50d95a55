CONSTANTS
    Core = {c1, c2, c3}
    NoCore = NoCore
    Teams = {{c1}, {c1, c2, c3}}
    NestingTeams = {{c1}}
    MaxNest = 3
    MaxCalls = 3
    Word = 8
SPECIFICATION Spec
INVARIANT Inv
INVARIANT MutualExclusion
PROPERTY AloneReturns
