\* KeyIds stops when every key is spent.
CONSTANTS
    OneTimeKeys = {k1, k2}
    SignedKeys = {s1}
    Messages = {m1, m2}
SPECIFICATION MCSpec
INVARIANTS
    OnlyZeroAndSpentFail
    ParseInvertsNew
    CheckedIsSent
    ViewsAgree
    IsTheOrder
    VerifiesUpToReduction
    DerivesAsSpecified
    AcceptsExactlySent
CHECK_DEADLOCK FALSE
