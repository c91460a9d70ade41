CONSTANTS
    MAX_FORWARD_JUMPS = 2
    MAX_MESSAGE_KEYS = 1
    MAX_SENDER_KEY_STATES = 2
    Members = {b}
    Budgets <- MCBudgets
SPECIFICATION Spec
INVARIANTS AgainOnlyAfterRestart NothingFromBefore Readable RecordIsRecent
