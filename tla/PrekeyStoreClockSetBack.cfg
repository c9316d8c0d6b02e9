SPECIFICATION SpecAnyClock
CONSTANTS
    PREKEY_AMOUNT = 2
    prekey_expiration_time = 2
    deprecated_prekey_expiration_time = 1
    StartTime = 3
    MaxTime = 7
    MaxGeneration = 2
INVARIANT
    RotateLeavesNoExpiredKey
