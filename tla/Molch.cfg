SPECIFICATION Spec
CONSTANTS
    MaxUsers = 2
    MaxConversations = 2
    MaxVersion = 2
    MaxPrekeys = 1
    MaxKeys = 4
INVARIANTS
    TypeOK
    KeyWhileUsers
    OneOwner
    CrashLosesNothing
PROPERTIES
    NoStateEncryptsTwice
    ImplementsDurableLibrary
