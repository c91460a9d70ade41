SPECIFICATION Spec
CONSTANTS
    Threads = {t1, t2}
    MaxSent = 2
    MaxSessions = 2
    MaxKey = 2
    MaxTime = 2
INVARIANTS DeliveredIsCertified AgainOnlyAcrossAddresses MissedBehindUuidOrTooLate
SYMMETRY Symm
CHECK_DEADLOCK FALSE
