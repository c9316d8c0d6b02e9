SPECIFICATION HandshakeSpec
CONSTANTS
    PREKEY_AMOUNT = 2
    prekey_expiration_time = 2
    deprecated_prekey_expiration_time = 1
    prekey_list_expiration_time = 3
    StartTime = 1
    MaxTime = 5
    MaxGeneration = 2
    Senders = {s1, s2}
    MaxOpened = 2
INVARIANTS
    HandshakeTypeOK
    PublishedListServed
    FreshPacketServed
    GoneAfterWindow
    OpenedKeyNeverListed
SYMMETRY SenderSymmetry
