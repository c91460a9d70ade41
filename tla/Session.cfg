SPECIFICATION Spec
CONSTANTS
    A = A
    B = B
    Parties = {A, B}
    PreKeyIds = {1}
    MAX_FORWARD_JUMPS = 1
    MAX_MESSAGE_KEYS = 1
    MAX_RECEIVER_CHAINS = 2
    ARCHIVED_STATES_MAX_LENGTH = 1
    Budgets <- MCBudgets
SYMMETRY Swap
INVARIANTS UniqueKeys AtMostOnce Readable
PROPERTIES AgainOnlyAfterDrop FirstUseStays FromKnownIdentity
