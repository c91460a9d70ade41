CONSTANTS
    Threads = {t1, t2}
    Messages <- MCMessages
    OwnSessions = {"c"}
    PreKeyIds = {1}
    MaxEncrypts = 2
SPECIFICATION FairSpec
INVARIANTS DurableBeforeReturn KeyOutlivesNeed KeyLeftOnlyByFailure
PROPERTIES ImplementsAtomicCalls LockIsFreed
