CONSTANTS
    Core = {c1, c2, c3}
    NoCore = NoCore
    Teams = {{c1, c2, c3}}
    NestingTeams = {{c1, c2, c3}}
    MaxNest = 2
    MaxCalls = 2
    Word = 4
SPECIFICATION SafeSpec
SYMMETRY Symmetry
INVARIANT MutualExclusion
