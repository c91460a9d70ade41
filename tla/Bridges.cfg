CONSTANTS
    Memory = {a1, a2, a3, a4}
    Wrappers = {o1, o2, o3, o4}
    null = null
    CMemory = {a1, a2, a3, a4, a5}
    MaxOwned = 2
    Handles = {a1, a2, a3, a4}
    NoHandle = NoHandle
    Objects = {o1, o2, o3, o4}
    NoObject = NoObject
    MaxDepth = 2
SPECIFICATION MCSpec
SYMMETRY Symm
INVARIANTS OwnedOnce COwnedOnce SwiftUsable SwiftOwnedOnce SwiftNeverTraps
PROPERTY SwiftErrorsEndCalls
CHECK_DEADLOCK FALSE
