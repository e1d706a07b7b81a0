SPECIFICATION Spec
CONSTANTS
    MAX_CLIENTS = 2
    MAX_WAITING_CLIENTS = 1
    PROTOCOL_VERSION = 5
    Conn = {c1, c2}
    Device = {d1, d2}
    password <- MCPassword
    NUL = NUL
    Password <- MCMessages
    listen_fd = listen_fd
    NULL = NULL
    MaxBatch = 2
    MaxChunks = 1
SYMMETRY Symmetry
INVARIANTS
    TypeOK
    OneOwner
    SlotDevices
    Authenticated
    RecvNeverBlocks
PROPERTIES
    DeviceKept
    StatusAnnounced
