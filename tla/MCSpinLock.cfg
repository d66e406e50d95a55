CONSTANT Core = {c1, c2, c3}
SPECIFICATION Spec
INVARIANT Inv
INVARIANT MutualExclusion
INVARIANT NoLostWakeup
PROPERTY ImplementsMutex
