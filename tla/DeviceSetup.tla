---------------------------- MODULE DeviceSetup ----------------------------
(***************************************************************************)
(* What the device of one client slot is made of.  The messages of the     *)
(* setup phase fill client->meta (server/input-server.c), SETUP_END makes  *)
(* a uinput device of it (server/uinput.c); meta and device outlive the    *)
(* connection, and the paths on which a connection ends treat them         *)
(* differently.  InputServer keeps who is in the slot and when; here the   *)
(* password phase, which touches none of this, is left out.                *)
(***************************************************************************)
EXTENDS Naturals, Sequences

CONSTANTS
    Conn,          \* connections
    Name,          \* device names
    Event,         \* (type, code) pairs that are in range
    TypeOf,        \* the type of an Event
    EnableMap,     \* the types enable_map[] knows an ioctl for
    Whitelist,     \* the Events config->whitelist lets through
    Axis,          \* the Events of type EV_ABS
    AbsInfo,       \* extents of an axis; 0 is minimum = maximum = 0
    uinput_version,
    NULL,
    MaxEvents      \* bound: REQUEST_EVENTs a slot accumulates

ASSUME EventsAssumption == Whitelist \subseteq Event /\ TypeOf \in [Event -> STRING]
ASSUME AxisAssumption == Axis = {e \in Event : TypeOf[e] = "EV_ABS"}
ASSUME VersionAssumption == uinput_version \in Nat
ASSUME NullAssumption ==
    /\ NULL \notin Conn \cup Name /\ 0 \in AbsInfo
    /\ NULL \notin [name : Name, bits : SUBSET (EnableMap \cup {"EV_SYN"}),
                    codes : SUBSET Event, axes : [Axis -> AbsInfo]]
ASSUME MaxEventsAssumption == MaxEvents \in Nat
\* enable_events() starts from EV_MAX, which is no type of an event.
ASSUME EnableMapAssumption == "EV_MAX" \notin EnableMap

VARIABLES
    client,        \* the connection in the slot
    status,
    ev_fd,         \* the device as the kernel has it, or NULL
    meta,          \* name, enabled_events, absinfo
    requested      \* history: allowed events this client has asked for

vars == <<client, status, ev_fd, meta, requested>>

EmptyMeta == [name |-> NULL, events |-> <<>>, absinfo |-> [a \in Axis |-> 0]]

Init ==
    /\ client = NULL /\ status = "RESERVED_UNCONN" /\ ev_fd = NULL
    /\ meta = EmptyMeta /\ requested = {}

-----------------------------------------------------------------------------
(* uinput.c                                                                *)

Known(e) == TypeOf[e] \in EnableMap
Enabled(events) == {events[i] : i \in DOMAIN events}

\* The type whose bit enable_events() has set last when it comes to the i-th
\* event; an unknown type leaves it alone.
LastTypeFromKey(events, i) ==
    LET before == {j \in 1..(i - 1) : Known(events[j])}
    IN  IF before = {} THEN "EV_KEY"
        ELSE TypeOf[events[CHOOSE j \in before : \A k \in before : k <= j]]

LastType(events, i) ==
    LET before == {j \in 1..(i - 1) : Known(events[j])}
    IN  IF before = {} THEN "EV_MAX"
        ELSE TypeOf[events[CHOOSE j \in before : \A k \in before : k <= j]]

TypeBits(events) ==
    {TypeOf[events[i]] : i \in {j \in DOMAIN events :
        Known(events[j]) /\ LastType(events, j) # TypeOf[events[j]]}}
    \cup (IF \E e \in Enabled(events) : ~Known(e) THEN {"EV_SYN"} ELSE {})

\* An axis that has been described at all, by a minimum or a maximum.
Described(absinfo) == {a \in Axis : absinfo[a] # 0}

\* UI_ABS_SETUP, since uinput 5, sets the bit of the axis itself, requested or
\* not; the older setup only hands the extents over.
AxesSetUp(absinfo) == IF uinput_version >= 5 THEN Described(absinfo) ELSE {}

\* The device create_device() makes when none of its calls fails.
NewDevice(m) == [name  |-> m.name,
                 bits  |-> TypeBits(m.events),
                 codes |-> {e \in Enabled(m.events) : Known(e)} \cup AxesSetUp(m.absinfo),
                 axes  |-> m.absinfo]

\* cleanup_device(): without a device it leaves meta alone, too.
CleanupDevice(ok) ==
    IF ev_fd # NULL /\ ok THEN ev_fd' = NULL /\ meta' = EmptyMeta
                          ELSE UNCHANGED <<ev_fd, meta>>

-----------------------------------------------------------------------------
(* The ways a connection ends.                                             *)

FreeEventsAndMeta(m) == EmptyMeta
FreeEvents(m) == [m EXCEPT !.events = <<>>]

\* client_close(): the events go, the name and the axes stay.
Closed ==
    /\ client' = NULL /\ status' = "RESERVED_UNCONN"
    /\ requested' = {}

HangUp == /\ client # NULL /\ Closed
          /\ meta' = FreeEvents(meta) /\ UNCHANGED ev_fd

\* The empty slot is visited by mistake (FD_ISSET(-1)) and closed once more.
VisitFreeSlot == /\ client = NULL /\ Closed
                 /\ meta' = FreeEvents(meta) /\ UNCHANGED ev_fd

\* QUIT: client_close() after cleanup_device(), which may fail.
Quit == /\ client # NULL /\ Closed
        /\ \/ ev_fd # NULL /\ ev_fd' = NULL /\ meta' = EmptyMeta
           \/ meta' = FreeEvents(meta) /\ UNCHANGED ev_fd

\* client_data() after an error of a handler: only the descriptor goes.
Dropped == /\ client' = NULL /\ requested' = {}
           /\ UNCHANGED <<status, ev_fd>>

ProtocolError == client # NULL /\ Dropped /\ UNCHANGED meta

-----------------------------------------------------------------------------
(* HELLO, and the messages of the setup phase.                             *)

\* What a client has to do that may go on: FirstStatus, without a password.
ReadyByName(dev) == IF meta.name = NULL THEN "SETUP_REQUIRED" ELSE "SUCCESS"
Ready(dev) == IF dev = NULL THEN "SETUP_REQUIRED" ELSE "SUCCESS"

\* An auto-assigned client may take the slot with its device destroyed.
Hello(c) ==
    /\ client = NULL /\ client' = c
    /\ CleanupDevice(TRUE) \/ UNCHANGED <<ev_fd, meta>>
    /\ status' = Ready(ev_fd')
    /\ UNCHANGED requested

\* The eviction is done and the reply cannot be sent: nobody gets the slot.
HelloLost == /\ client = NULL /\ CleanupDevice(TRUE)
             /\ UNCHANGED <<client, status, requested>>

Setup == client # NULL /\ status = "SETUP_REQUIRED"

Configure(m) == Setup /\ meta' = m /\ UNCHANGED <<client, status, ev_fd, requested>>

HandleAbsinfo(a, info) == Configure([meta EXCEPT !.absinfo[a] = info])

HandleDevice(n) == Configure([meta EXCEPT !.name = n])

\* A forbidden event is used up in silence, the others are remembered.
AppendOverLast(events, e) ==
    IF events = <<>> THEN <<e>> ELSE [events EXCEPT ![Len(events)] = e]
AppendEvent(events, e) == Append(events, e)

Allowed(e) == e \in Whitelist

HandleRequestEvent(e) ==
    /\ Setup /\ Len(meta.events) < MaxEvents
    /\ UNCHANGED <<client, status, ev_fd>>
    /\ requested' = requested \cup ({e} \cap Whitelist)
    /\ meta' = IF Allowed(e) THEN [meta EXCEPT !.events = AppendEvent(@, e)] ELSE meta

\* realloc() fails: the list is forgotten and the client dropped.
EventsLost == /\ client # NULL /\ status = "SETUP_REQUIRED"
              /\ Dropped /\ meta' = FreeEvents(meta)

\* The status is set; the reply may be lost, and the client with it.
Announced(st) ==
    /\ status' = st
    /\ \/ UNCHANGED <<client, requested>>
       \/ client' = NULL /\ requested' = {}

\* A second setup starts from the meta and the device of the first.
HandleSetupRequired ==
    /\ client # NULL /\ status = "SUCCESS"
    /\ Announced("SETUP_REQUIRED") /\ UNCHANGED <<ev_fd, meta>>

HandleSetupEndNameless ==
    /\ client # NULL /\ status = "SETUP_REQUIRED"
    /\ ev_fd' = NewDevice(meta)
    /\ Announced("SUCCESS") /\ UNCHANGED meta

HandleSetupEnd ==
    /\ client # NULL /\ status = "SETUP_REQUIRED" /\ meta.name # NULL
    /\ ev_fd' = NewDevice(meta)
    /\ Announced("SUCCESS") /\ UNCHANGED meta

\* The process ends: by SIGINT, or in create_device() for want of a name.
Restart ==
    /\ client' = NULL /\ status' = "RESERVED_UNCONN" /\ ev_fd' = NULL
    /\ meta' = EmptyMeta /\ requested' = {}

Next ==
    \/ \E c \in Conn : Hello(c)
    \/ HelloLost
    \/ \E a \in Axis, info \in AbsInfo : HandleAbsinfo(a, info)
    \/ \E n \in Name : HandleDevice(n)
    \/ \E e \in Event : HandleRequestEvent(e)
    \/ EventsLost
    \/ HandleSetupRequired \/ HandleSetupEnd
    \/ Quit \/ HangUp \/ ProtocolError \/ VisitFreeSlot \/ Restart

Spec == Init /\ [][Next]_vars

-----------------------------------------------------------------------------
(* Properties.                                                             *)

Meta == [name : Name \cup {NULL}, events : UNION {[1..n -> Event] : n \in 0..MaxEvents},
         absinfo : [Axis -> AbsInfo]]

\* Every variable keeps its type; a list of events has its bound.
TypeOK ==
    /\ client \in Conn \cup {NULL}
    /\ status \in {"RESERVED_UNCONN", "SETUP_REQUIRED", "SUCCESS"}
    /\ meta \in Meta
    /\ ev_fd # NULL => /\ ev_fd.name \in Name /\ ev_fd.codes \subseteq Event
                       /\ ev_fd.bits \subseteq EnableMap \cup {"EV_SYN"}
                       /\ ev_fd.axes \in [Axis -> AbsInfo]
    /\ requested \subseteq Whitelist

\* What a device has a code for is allowed by the white- and blacklists and has
\* the bit of its type set too, though enable_events() sets it only when the
\* type changes, whatever setup the device is from and whatever requests were
\* refused before it.  The one exception is an axis that an ABSINFO of this
\* setup or an earlier one has described: handle_absinfo() asks no list, and
\* UI_ABS_SETUP sets the code of a forbidden axis as well as of an allowed one.
EnabledAllowed ==
    ev_fd # NULL => \A e \in ev_fd.codes :
        \/ e \in Whitelist /\ TypeOf[e] \in ev_fd.bits
        \/ e \in Described(ev_fd.axes)

\* A client that has set its device up can send every event it asked for and
\* was allowed, over several setups and after any refused request: code and
\* type are both set.  Only events of a type enable_map[] does not know are
\* lost, silently: nothing but EV_SYN is enabled for them.
RequestedEnabled ==
    client # NULL /\ status = "SUCCESS" =>
        \A e \in requested : Known(e) => e \in ev_fd.codes /\ TypeOf[e] \in ev_fd.bits

\* A slot with a device has a name in its meta: a client that reconnects to it
\* and sets it up again without a DEVICE message does not make create_device()
\* read a null pointer.
NamedDevice == ev_fd # NULL => meta.name # NULL

\* The slot, seen without its meta, behaves as SlotService says.
Service == INSTANCE SlotService WITH
    Slots <- {1}, PasswordSet <- FALSE,
    owner  <- [s \in {1} |-> client],
    stage  <- [s \in {1} |-> IF client = NULL THEN "idle"
                             ELSE IF status = "SUCCESS" THEN "live" ELSE "setup"],
    device <- [s \in {1} |-> ev_fd # NULL]

\* No path of the setup phase, and none that ends a connection, does anything
\* to the slot that the service does not allow.
ImplementsService == Service!Spec
=============================================================================
