SPECIFICATION Spec
CONSTANTS
    MAX_CLIENTS = 1
    MAX_WAITING_CLIENTS = 1
    PROTOCOL_VERSION = 5
    Conn = {c1}
    Device = {d1, d2}
    password <- MCNoPassword
    NUL = NUL
    Password <- MCMessages
    listen_fd = listen_fd
    NULL = NULL
    MaxBatch = 2
    MaxChunks = 1
INVARIANT
    NoOrphanDevice
