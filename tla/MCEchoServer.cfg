CONSTANTS
    Client = {c1, c2}
    Texts <- MCTexts
    BufferSize = 3
    MaxTokens = 1
    Room = 2
    SockErrors = TRUE
SPECIFICATION FairSpec
INVARIANTS EchoInOrder OneLeakEndsAccepting
PROPERTIES EveryByteComesBack
CHECK_DEADLOCK FALSE
