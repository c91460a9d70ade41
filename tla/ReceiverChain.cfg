SPECIFICATION ChainSpec
CONSTANTS
    MAX_FORWARD_JUMPS = 3
    MAX_MESSAGE_KEYS = 2
    MaxCounter = 7
INVARIANT RecentNeverLost
PROPERTIES KeysNeverReturn ImplementsWindow
