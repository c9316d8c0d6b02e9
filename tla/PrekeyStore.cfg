SPECIFICATION Spec
CONSTANTS
    PREKEY_AMOUNT = 2
    prekey_expiration_time = 3
    deprecated_prekey_expiration_time = 1
    StartTime = 1
    MaxTime = 9
    MaxGeneration = 2
INVARIANTS
    TypeOK
    CacheNeverLate
    HandedOutNeverListed
    LateMessageFindsPrekey
    RotateLeavesNoExpiredKey
