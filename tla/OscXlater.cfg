SPECIFICATION Spec
CONSTANTS
    gamepad_controls <- MCControls
    p1 = p1
    p2 = p2
    Path = {p1, p2}
    FirstByte <- MCFirstByte
    Answer = {"SUCCESS", "PASSWORD_REQUIRED", "SETUP_REQUIRED", "INVALID_PASSWORD", "CLIENT_SLOTS_EXHAUSTED"}
    NULL = NULL
CHECK_DEADLOCK FALSE
INVARIANTS
    TypeOK
    MappedIfConfirmed
    KeysRequested
PROPERTIES
    ShutdownEnds
    KeyRead
