SPECIFICATION Spec
CONSTANTS
    UserIds = {u1, u2}
    ConversationIds = {c1, c2}
INVARIANT
    MirrorComplete
PROPERTY
    ExportedBackupIntact
