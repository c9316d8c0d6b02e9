SPECIFICATION Spec
CONSTANTS
    header_and_message_store_maximum_keys = 3
    header_and_message_store_maximum_age = 2
    expiration_time = 1
    StartTime = 2
    MaxTime = 4
    MaxStaged = 5
INVARIANTS
    TypeOK
    StoresSorted
    StoresBounded
PROPERTY
    CommitKeepsNewest
