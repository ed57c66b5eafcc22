\* Batches of up to three sources through both routes.  The synchronous one is
\* configured below its schema's limit, the asynchronous one at it, as by default.
SPECIFICATION ExtractionSpec
CONSTANTS
    Requests <- Bodies
    Replies <- SomeReplies
    SyncSchemaTexts = 3
    SyncMaxTexts = 2
    SyncMaxCharacters = 2
    TaskSchemaTexts = 3
    TaskMaxTexts = 3
    TaskMaxCharacters = 3
INVARIANTS
    ExtractionTypeOK
    AnswersMatchRequest
    RoutesAgree
    RaisedFailureIsIsolated
\* A request that was refused, or answered on both routes, is over.
CHECK_DEADLOCK FALSE
