CONSTANTS
    Core = {c1, c2}
    NoCore = NoCore
    Teams = {{c1, c2}}
    NestingTeams = {}
    MaxNest = 1
    MaxCalls = 1
    Word = 4
SPECIFICATION Spec
PROPERTY EveryCoreReturns
