SPECIFICATION FairSpec
CONSTANTS
    MAX_CLIENTS = 1
    MAX_WAITING_CLIENTS = 2
    PROTOCOL_VERSION = 5
    Conn = {c1, c2}
    Device = {d1}
    password <- MCNoPassword
    NUL = NUL
    Password <- MCMessages
    listen_fd = listen_fd
    NULL = NULL
    MaxBatch = 1
    MaxChunks = 1
PROPERTIES
    ImplementsService
    HangupReleases
    ShutdownObserved
