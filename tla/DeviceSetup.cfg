SPECIFICATION Spec
CONSTANTS
    Conn = {c1, c2}
    Name = {n1}
    Event <- MCEvent
    TypeOf <- MCTypeOf
    EnableMap <- MCEnableMap
    Whitelist <- MCWhitelist
    Axis <- MCAxis
    uinput_version = 5
    AbsInfo = {0, 1}
    NULL = NULL
    MaxEvents = 3
INVARIANTS
    TypeOK
    EnabledAllowed
    RequestedEnabled
    NamedDevice
PROPERTY
    ImplementsService
