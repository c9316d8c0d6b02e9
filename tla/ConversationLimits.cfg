SPECIFICATION Spec
CONSTANTS
    message_numbers = 4
    maximum_skipped_messages = 1
    header_and_message_store_maximum_keys = 2
    header_and_message_store_maximum_age = 1
    expiration_time = 1
    MaxSend1 = 6
    MaxSend2 = 1
    MaxTime = 2
INVARIANTS
    MissingPacketsDecryptable
    InOrderDecryptable
    UsedKeysErased
PROPERTIES
    ImplementsSecureChannel
