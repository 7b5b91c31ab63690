SPECIFICATION FairSpec
CONSTANTS
    Base = 4
    Messages <- MCMessages
INVARIANTS TypeOK BytesKept
PROPERTIES ImplementsTaskQueue MessagesPicked
\* The system may be at rest: a client that does not send.
CHECK_DEADLOCK FALSE
