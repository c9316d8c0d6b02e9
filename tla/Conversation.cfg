SPECIFICATION Spec
CONSTANTS
    message_numbers = 1000
    maximum_skipped_messages = 2
    header_and_message_store_maximum_keys = 6
    header_and_message_store_maximum_age = 1
    expiration_time = 1
    MaxSend1 = 4
    MaxSend2 = 3
    MaxTime = 0
INVARIANTS
    TypeOK
    ReadyForNextPacket
    LockStep
    MissingPacketsDecryptable
    UsedKeysErased
    MessageKeysFresh
    AlwaysExportable
    NextMessageHasAgreedKeys
PROPERTIES
    RejectedPacketHarmless
    ImplementsSecureChannel
