CONSTANTS
    Threads = {t1, t2}
    Messages <- MCOneEach
    OwnSessions = {"c"}
    PreKeyIds = {1}
    MaxEncrypts = 1
SPECIFICATION Spec
INVARIANT NoSessionMeansNoSessionException
