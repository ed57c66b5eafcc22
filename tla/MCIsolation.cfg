\* The same batches: one reply that cannot be stored or served, and the others.
SPECIFICATION ExtractionSpec
CONSTANTS
    Requests <- Bodies
    Replies <- SomeReplies
    SyncSchemaTexts = 3
    SyncMaxTexts = 2
    SyncMaxCharacters = 2
    TaskSchemaTexts = 3
    TaskMaxTexts = 3
    TaskMaxCharacters = 3
INVARIANTS
    FailureIsIsolated
CHECK_DEADLOCK FALSE
