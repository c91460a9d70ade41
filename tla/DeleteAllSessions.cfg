SPECIFICATION Spec
CONSTANTS
    Names = {alice, bob}
    Devices = {1, 2}
    MaxVersion = 2
INVARIANTS DeleteAllDeletesAll
