CONSTANTS
    Threads = {t1, t2}
    OwnIds = {1, 2}
    MAX_FORWARD_JUMPS = 2
    MAX_MESSAGE_KEYS = 1
    MAX_SENDER_KEY_STATES = 2
    Announcements <- MCAnnouncements
    Messages <- MCMessages
    Locked = TRUE
    MaxEncrypts = 2
    MaxProcessed = 1
SPECIFICATION Spec
SYMMETRY Symmetry
INVARIANTS UniqueKeys AtMostOnce
PROPERTIES ReceivingStays ImplementsAtomicGroupCalls
