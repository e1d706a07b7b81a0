SPECIFICATION Spec
CONSTANTS
    Client = {c1, c2}
    Version = {5}
    SlotOption = {1}
    Password = {"right", "wrong"}
    Accepted = {"right"}
    PasswordSet = FALSE
    Codes <- MCKeys
    AbsCodes = {}
    Skipped = {}
    InRange = {"BTN_A"}
    Whitelist = {"BTN_A"}
    Known = {"BTN_A"}
    Odd = NULL
    reopen_attempts <- MCForever
    MaxEvents = 0
    MAX_CLIENTS = 1
    PROTOCOL_VERSION = 5
    NULL = NULL
CHECK_DEADLOCK FALSE
PROPERTY
    HandshakeEndsAlways
