SPECIFICATION Spec
CONSTANTS
    Client = {c1, c2}
    Version = {4, 5}
    SlotOption = {0, 1}
    Password = {"right"}
    Accepted = {"right"}
    PasswordSet = FALSE
    Codes <- MCCodes
    AbsCodes = {"ABS_X"}
    Skipped = {"LED_NUML"}
    InRange = {"SYN_REPORT", "BTN_A", "BTN_B", "ABS_X"}
    Whitelist = {"SYN_REPORT", "BTN_A", "ABS_X"}
    Known = {"BTN_A", "BTN_B", "ABS_X"}
    Odd = NULL
    reopen_attempts = 1
    MaxEvents = 2
    MAX_CLIENTS = 1
    PROTOCOL_VERSION = 5
    NULL = NULL
SYMMETRY Symmetry
CHECK_DEADLOCK FALSE
INVARIANTS
    TypeOK
    SlotAgreed
    DeviceComplete
    EventsDelivered
PROPERTIES
    QuitHonoured
    ImplementsService
