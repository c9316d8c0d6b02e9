SPECIFICATION FairSpec
CONSTANTS
    message_numbers = 1000
    maximum_skipped_messages = 1
    header_and_message_store_maximum_keys = 4
    header_and_message_store_maximum_age = 1
    expiration_time = 1
    MaxSend1 = 3
    MaxSend2 = 3
    MaxTime = 0
PROPERTIES
    EverythingArrives
