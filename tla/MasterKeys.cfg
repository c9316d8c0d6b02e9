SPECIFICATION Spec
CONSTANTS
    Memories = {m1, m2, m3, m4}
    BackupKey = BackupKey
INVARIANTS
    NoFault
    LockedBetweenCalls
    NoKeysWithoutUser
