SPECIFICATION Spec
CONSTANTS
    MaxUsers = 1
    MaxConversations = 1
    MaxVersion = 2
    MaxPrekeys = 1
    MaxKeys = 3
INVARIANTS
    NoBackupKeyIsAnError
