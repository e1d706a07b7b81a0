------------------------------ MODULE Session ------------------------------
(***************************************************************************)
(* Clients and server together: programs of InputClient over TCP against   *)
(* the slots of server/input-server.c.  The server is one thread whose     *)
(* handlers run to their end, so a message is taken and answered in one    *)
(* step.  Waiting entries and rounds of select() are InputServer's subject *)
(* and left out here; a connection that waits has sent no HELLO yet.       *)
(***************************************************************************)
EXTENDS InputClient

CONSTANTS
    MAX_CLIENTS, PROTOCOL_VERSION,
    Accepted,       \* PASSWORDs the server accepts
    PasswordSet,
    InRange,        \* codes below KEY_MAX of types below EV_MAX
    Whitelist,      \* codes config->whitelist lets through
    Known,          \* codes of the types enable_map[] has an ioctl for
    NULL

AnyCode == UNION {ToSet(Codes[c]) : c \in Client}

ASSUME ServerAssumption ==
    /\ MAX_CLIENTS \in Nat \ {0} /\ Accepted \subseteq Password
    /\ PasswordSet \in BOOLEAN /\ NULL \notin Client
    /\ \A events \in SUBSET AnyCode : NULL # events

VARIABLES
    running,    \* the server process runs
    queue,      \* connections that wait to be obeyed, or to be accepted
    fd,         \* clients[s].fd
    status,     \* clients[s].status
    requested,  \* codes in clients[s].meta.enabled_events
    device,     \* codes enable_events() gave the device of clients[s], or NULL
    written,    \* history: events of a client written to a uinput device
    undestroyed \* history: clients whose QUIT UI_DEV_DESTROY failed for

serverVars == <<running, queue, fd, status, requested, device, written, undestroyed>>
vars == <<clientVars, serverVars>>

Slots == 1..MAX_CLIENTS
Held == queue \cup ({fd[s] : s \in Slots} \ {NULL})

Init ==
    /\ ClientInit
    /\ running = TRUE /\ queue = {}
    /\ fd = [s \in Slots |-> NULL] /\ status = [s \in Slots |-> "RESERVED_UNCONN"]
    /\ requested = [s \in Slots |-> {}] /\ device = [s \in Slots |-> NULL]
    /\ written = [c \in Client |-> <<>>] /\ undestroyed = {}

-----------------------------------------------------------------------------
(* The server's end of a connection.                                       *)

\* The client has closed its socket, or the network has failed.
Hup(c) == sock[c] = "closed" \/ c \in gone

\* The next message of c is taken, and reply is what its handler sends.
Takes(c, reply) ==
    /\ up' = [up EXCEPT ![c] = Tail(@)]
    /\ down' = [down EXCEPT ![c] = IF sock[c] = "closed" THEN <<>> ELSE @ \o reply]
    /\ UNCHANGED <<sock, broken, gone>>

\* The same, and the server closes the connection.
TakesAndCloses(c, reply) ==
    /\ up' = [up EXCEPT ![c] = <<>>]
    /\ \E q \in Survivors(down[c] \o reply, Tail(up[c])) :
          down' = [down EXCEPT ![c] = IF sock[c] = "closed" THEN <<>> ELSE q]
    /\ gone' = gone \cup {c} /\ UNCHANGED <<sock, broken>>

Receives(c, type) == c \in Held /\ up[c] # <<>> /\ up[c][1][1] = type

-----------------------------------------------------------------------------
(* client_hello().                                                         *)

Idle == {s \in Slots : fd[s] = NULL}
Deviceless == {s \in Idle : device[s] = NULL}
First(S) == CHOOSE s \in S : \A t \in S : s <= t

\* A HELLO is a triple: the type, the version, the slot asked for.
Refusal(hello) ==
    CASE hello[2] # PROTOCOL_VERSION                     -> "VERSION_MISMATCH"
      [] hello[2] = PROTOCOL_VERSION /\ hello[3] > MAX_CLIENTS -> "INVALID_CLIENT_SLOT"
      [] hello[2] = PROTOCOL_VERSION /\ hello[3] \in Slots \ Idle -> "CLIENT_SLOT_IN_USE"
      [] hello[2] = PROTOCOL_VERSION /\ hello[3] = 0 /\ Idle = {} -> "CLIENT_SLOTS_EXHAUSTED"
      [] OTHER                                           -> "none"

Chosen(wanted) == IF wanted # 0 THEN wanted
                  ELSE First(IF Deviceless = {} THEN Idle ELSE Deviceless)

NextStatusSuccess(dev) == "SUCCESS"
NextStatus(dev) == IF dev = NULL THEN "SETUP_REQUIRED" ELSE "SUCCESS"
FirstStatus(dev) == IF PasswordSet THEN "PASSWORD_REQUIRED" ELSE NextStatus(dev)

\* A status is announced by its type byte alone, SUCCESS included, except at
\* the end of the setup.
StatusBytes(st) == <<<<st>>>>

\* A device that cannot be destroyed stays, and its meta with it.
CleanupDevice(s, destroyed) ==
    IF device[s] # NULL /\ destroyed
    THEN /\ device' = [device EXCEPT ![s] = NULL]
         /\ requested' = [requested EXCEPT ![s] = {}]
    ELSE UNCHANGED <<device, requested>>

\* With every idle slot holding a device, that of the chosen one goes.
Evicts(wanted) == wanted = 0 /\ Deviceless = {}

RefuseHello(c, hello) ==
    /\ Refusal(hello) # "none"
    /\ TakesAndCloses(c, <<<<Refusal(hello)>>>>)
    /\ UNCHANGED <<fd, status, requested, device>>

AcceptHello(c, hello, s, destroyed) ==
    /\ Refusal(hello) = "none" /\ s = Chosen(hello[3])
    /\ IF Evicts(hello[3]) THEN CleanupDevice(s, destroyed) ELSE UNCHANGED <<requested, device>>
    /\ \/ /\ fd' = [fd EXCEPT ![s] = c]
          /\ status' = [status EXCEPT ![s] = FirstStatus(device'[s])]
          /\ Takes(c, StatusBytes(FirstStatus(device'[s])))
       \/ /\ Hup(c) /\ TakesAndCloses(c, <<>>)
          /\ UNCHANGED <<fd, status>>

ClientHello(c) ==
    /\ c \in queue /\ Receives(c, "HELLO")
    /\ queue' = queue \ {c}
    /\ \/ RefuseHello(c, up[c][1])
       \/ \E s \in Slots, destroyed \in BOOLEAN : AcceptHello(c, up[c][1], s, destroyed)
    /\ UNCHANGED <<running, written, undestroyed>>

\* All waiting entries are taken: the connection is closed unheard.
TurnAway(c) ==
    /\ c \in queue /\ queue' = queue \ {c}
    /\ \E q \in Survivors(<<<<"CLIENT_SLOTS_EXHAUSTED">>>>, up[c]) :
          down' = [down EXCEPT ![c] = IF sock[c] = "closed" THEN <<>> ELSE q]
    /\ up' = [up EXCEPT ![c] = <<>>] /\ gone' = gone \cup {c}
    /\ UNCHANGED <<sock, broken, running, fd, status, requested, device, written, undestroyed>>

-----------------------------------------------------------------------------
(* client_data() on the next message of the client of slot s.              *)

Handling(s, type) ==
    /\ fd[s] # NULL /\ Receives(fd[s], type)
    /\ UNCHANGED <<running, queue>>

\* A handler that returns -1 costs the client its connection, not its status.
Drop(s, reply) == TakesAndCloses(fd[s], reply) /\ fd' = [fd EXCEPT ![s] = NULL]

Announce(s, st, bytes) ==
    /\ status' = [status EXCEPT ![s] = st]
    /\ \/ Takes(fd[s], bytes) /\ fd' = fd
       \/ Hup(fd[s]) /\ Drop(s, <<>>)

Consumed(s) == Takes(fd[s], <<>>) /\ UNCHANGED <<fd, status>>

PasswordStatus(s, password) ==
    IF password \in Accepted THEN NextStatus(device[s]) ELSE "INVALID_PASSWORD"

HandlePassword(s) ==
    /\ Handling(s, "PASSWORD")
    /\ LET st == PasswordStatus(s, up[fd[s]][1][2])
       IN  IF status[s] = "PASSWORD_REQUIRED" THEN Announce(s, st, StatusBytes(st))
                                              ELSE Consumed(s)
    /\ UNCHANGED <<requested, device, written, undestroyed>>

\* DEVICE and ABSINFO: DeviceSetup has what they leave in meta.
HandleDescription(s) ==
    /\ Handling(s, "DEVICE") \/ Handling(s, "ABSINFO")
    /\ IF status[s] = "SETUP_REQUIRED" THEN Consumed(s)
                                       ELSE Drop(s, <<>>) /\ status' = status
    /\ UNCHANGED <<requested, device, written, undestroyed>>

\* A code out of range costs the client its connection without an answer; one
\* that is forbidden is used up in silence.
HandleRequestEvent(s) ==
    /\ Handling(s, "REQUEST_EVENT")
    /\ LET code == up[fd[s]][1][2] IN
       \/ /\ status[s] = "SETUP_REQUIRED" /\ code \in InRange
          /\ Consumed(s)
          /\ requested' = [requested EXCEPT ![s] = @ \cup ({code} \cap Whitelist)]
       \/ /\ status[s] = "SETUP_REQUIRED" /\ code \notin InRange
          /\ Drop(s, <<>>) /\ UNCHANGED <<status, requested>>
       \/ /\ status[s] # "SETUP_REQUIRED"
          /\ Drop(s, <<<<"INVALID">>>>) /\ UNCHANGED <<status, requested>>
    /\ UNCHANGED <<device, written, undestroyed>>

\* enable_events() passes over the codes of types it has no ioctl for.
\* Axes that get in by their ABSINFO alone are left out; DeviceSetup has them.
Enabled(s) == requested[s] \cap Known

\* create_device() may fail; then the client is dropped without an answer.
HandleSetupEndSilently(s) ==
    /\ Handling(s, "SETUP_END") /\ status[s] = "SETUP_REQUIRED"
    /\ device' = [device EXCEPT ![s] = Enabled(s)]
    /\ Announce(s, "SUCCESS", <<>>)
    /\ UNCHANGED <<requested, written, undestroyed>>
HandleSetupEnd(s) ==
    /\ Handling(s, "SETUP_END")
    /\ IF status[s] = "SETUP_REQUIRED"
       THEN \/ /\ device' = [device EXCEPT ![s] = Enabled(s)]
               /\ Announce(s, "SUCCESS", <<<<"SUCCESS">>, <<"slot", s>>>>)
            \/ Drop(s, <<>>) /\ UNCHANGED <<status, device>>
       ELSE Drop(s, <<<<"INVALID">>>>) /\ UNCHANGED <<status, device>>
    /\ UNCHANGED <<requested, written, undestroyed>>

\* The event goes to the uinput device, which may fail; outside SUCCESS it
\* goes nowhere.
Written(c, event) == written' = [written EXCEPT ![c] = Append(@, event)]

HandleDataAgain(s) ==
    /\ Handling(s, "DATA")
    /\ Written(fd[s], up[fd[s]][1][2])
    /\ UNCHANGED <<wire, fd, status, requested, device, undestroyed>>
HandleData(s) ==
    /\ Handling(s, "DATA")
    /\ IF status[s] = "SUCCESS"
       THEN \/ Consumed(s) /\ Written(fd[s], up[fd[s]][1][2])
            \/ Drop(s, <<>>) /\ UNCHANGED <<status, written>>
       ELSE Consumed(s) /\ written' = written
    /\ UNCHANGED <<requested, device, undestroyed>>

\* QUIT: client_close() after cleanup_device(), whose failure it ignores.
HandleQuit(s, destroyed) ==
    /\ Handling(s, "QUIT")
    /\ device' = IF destroyed THEN [device EXCEPT ![s] = NULL] ELSE device
    /\ undestroyed' = undestroyed \cup
          (IF destroyed \/ device[s] = NULL THEN {} ELSE {fd[s]})
    /\ requested' = [requested EXCEPT ![s] = {}]
    /\ status' = [status EXCEPT ![s] = "RESERVED_UNCONN"]
    /\ Drop(s, <<>>) /\ written' = written

\* End of stream: client_close() without it.
HangUp(s) ==
    /\ fd[s] # NULL /\ Hup(fd[s]) /\ up[fd[s]] = <<>>
    /\ fd' = [fd EXCEPT ![s] = NULL] /\ gone' = gone \cup {fd[s]}
    /\ status' = [status EXCEPT ![s] = "RESERVED_UNCONN"]
    /\ requested' = [requested EXCEPT ![s] = {}]
    /\ UNCHANGED <<sock, broken, up, down, running, queue, device, written, undestroyed>>

HangUpWaiting(c) ==
    /\ c \in queue /\ Hup(c) /\ up[c] = <<>>
    /\ queue' = queue \ {c} /\ gone' = gone \cup {c}
    /\ UNCHANGED <<sock, broken, up, down, running, fd, status, requested, device, written,
                   undestroyed>>

\* client_data() and what comes of it, for slot s.
ServesSlot(s) ==
    \/ HandlePassword(s) \/ HandleDescription(s) \/ HandleRequestEvent(s)
    \/ HandleSetupEnd(s) \/ HandleData(s) \/ HangUp(s)
    \/ \E destroyed \in BOOLEAN : HandleQuit(s, destroyed)

ServesSlotsOnly(c) ==
    \/ ClientHello(c)
    \/ \E s \in Slots : fd[s] = c /\ ServesSlot(s)
Serves(c) ==
    \/ ClientHello(c) \/ HangUpWaiting(c)
    \/ \E s \in Slots : fd[s] = c /\ ServesSlot(s)

-----------------------------------------------------------------------------
(* The server process, the network, and the whole.                         *)

Connects(c) ==
    \/ running /\ Connect(c) /\ queue' = queue \cup {c}
    \/ CannotConnect(c) /\ queue' = queue

\* SIGINT, or a crash: the devices and the connections go with the process.
ServerEnds ==
    /\ running /\ running' = FALSE
    /\ queue' = {} /\ gone' = gone \cup Held
    /\ up' = [c \in Client |-> IF c \in Held THEN <<>> ELSE up[c]]
    /\ \E kept \in [Client -> UNION {0..Len(down[c]) : c \in Client}] :
          /\ \A c \in Client : \/ kept[c] = Len(down[c])
                               \/ c \in Held /\ up[c] # <<>> /\ kept[c] < Len(down[c])
          /\ down' = [c \in Client |-> SubSeq(down[c], 1, kept[c])]
    /\ fd' = [s \in Slots |-> NULL] /\ device' = [s \in Slots |-> NULL]
    /\ status' = [s \in Slots |-> "RESERVED_UNCONN"]
    /\ requested' = [s \in Slots |-> {}]
    /\ UNCHANGED <<sock, broken, written, undestroyed>>

ServerStarts ==
    /\ ~running /\ running' = TRUE
    /\ UNCHANGED <<wire, queue, fd, status, requested, device, written, undestroyed>>

\* What is under way may be lost, from some point on.
NetworkFails(c) ==
    /\ sock[c] = "open" /\ c \notin gone
    /\ gone' = gone \cup {c}
    /\ \E q \in Prefixes(up[c]) : up' = [up EXCEPT ![c] = q]
    /\ \E q \in Prefixes(down[c]) : down' = [down EXCEPT ![c] = q]
    /\ UNCHANGED <<sock, broken, serverVars>>

ClientStep(c)  == UNCHANGED serverVars /\ Program(c)
ConnectStep(c) ==
    /\ Connects(c)
    /\ UNCHANGED <<quit_signal, left>>
    /\ UNCHANGED <<running, fd, status, requested, device, written, undestroyed>>
ServerStep(c)  == UNCHANGED <<program, left>> /\ Serves(c)

Surrounds ==
    \/ \E c \in Client : \/ ConnectStep(c)
                         \/ Surroundings(c) /\ UNCHANGED serverVars
                         \/ (TurnAway(c) \/ NetworkFails(c)) /\ UNCHANGED <<program, left>>
    \/ (ServerEnds \/ ServerStarts) /\ UNCHANGED <<program, left>>

Next == Surrounds \/ \E c \in Client : ClientStep(c) \/ ServerStep(c)

\* A program that can take a step takes one, and the server comes to every
\* connection that select() reports.  Users and failures owe nothing.
Fairness == \A c \in Client : /\ WF_vars(ClientStep(c))
                              /\ WF_vars(ServerStep(c))

Spec == Init /\ [][Next]_vars /\ Fairness

-----------------------------------------------------------------------------
(* Properties.                                                             *)

Messages == {<<"DEVICE">>, <<"SETUP_END">>, <<"QUIT">>}
    \cup {<<"HELLO", v, s>> : v \in Version, s \in SlotOption \cup Slots}
    \cup {<<"PASSWORD", p>> : p \in Password}
    \cup {<<t, code>> : t \in {"REQUEST_EVENT", "ABSINFO"}, code \in AnyCode}
    \cup {<<"DATA", n>> : n \in 1..MaxEvents}

TypeOK ==
    /\ pc \in [Client -> {"start", "hello", "password", "setup", "grab", "leave", "exited"}
                         \cup Awaiting \cup Streaming]
    /\ \A c \in Client : /\ slot[c] \in SlotOption \cup Slots
                         /\ ToSet(up[c]) \subseteq Messages
                         /\ ToSet(written[c]) \subseteq 1..reads[c]
                         /\ reads[c] <= MaxEvents /\ next[c] \in DOMAIN SetupMessages(c)
                         /\ tries[c] \in -1..IF reopen_attempts < 0 THEN 0 ELSE reopen_attempts
    /\ fd \in [Slots -> Client \cup {NULL}] /\ queue \subseteq Client
    /\ device \in [Slots -> (SUBSET AnyCode) \cup {NULL}]
    /\ requested \in [Slots -> SUBSET AnyCode] /\ undestroyed \subseteq Client

\* c believes it is connected, and the connection still holds.
Connected(c) == pc[c] \in Streaming \cup {"grab"} /\ c \in Held \ gone

\* Both ends agree: a client that streams owns the slot it was told, and the
\* server takes its DATA (init_connect() returning true against the status
\* that handle_setup_end() and client_hello() leave).
SlotAgreed ==
    \A c \in Client : Connected(c) =>
        /\ slot[c] \in Slots /\ fd[slot[c]] = c /\ status[slot[c]] = "SUCCESS"

\* The device of a client that streams can send every code of the client's own
\* input device that three filters leave: the client does not ask for EV_REP
\* and EV_LED (send_key_info()), the server refuses what its lists forbid
\* (handle_request_event()), and the device gets no code of a type without an
\* ioctl (enable_events()).  Nothing else is lost between the two, whoever had
\* the slot before, and a client with a code out of range does not stream.
DeviceComplete ==
    \A c \in Client : Connected(c) =>
        /\ ToSet(Codes[c]) \subseteq InRange \cup Skipped
        /\ \E s \in Slots : /\ fd[s] = c /\ device[s] # NULL
                            /\ (ToSet(Codes[c]) \ Skipped) \cap Whitelist \cap Known
                                    \subseteq device[s]

\* No event is written twice, out of order or after one that was lost; while
\* the connection holds, every event read is written or on its way, with
\* nothing else between them.
EventsDelivered ==
    \A c \in Client :
        /\ \A i \in DOMAIN written[c] : written[c][i] = i
        /\ Connected(c) =>
              /\ Len(written[c]) + Len(up[c]) = reads[c]
              /\ \A i \in DOMAIN up[c] : up[c][i] = <<"DATA", Len(written[c]) + i>>

\* A client that has said QUIT takes its device with it and leaves no requests
\* behind, unless the network or a write to the device ends the connection
\* before the QUIT is read, or UI_DEV_DESTROY itself fails (run()'s last message
\* against handle_quit(), cleanup_device() and client_close()).
QuitHonoured ==
    [][\A s \in Slots : LET c == fd[s] IN
        (c # NULL /\ c \in left \ gone /\ fd'[s] # c /\ (up[c] = <<>> \/ up[c][1][1] # "DATA"))
            => /\ device'[s] = NULL \/ c \in undestroyed' \ undestroyed
               /\ requested'[s] = {}]_vars

StageOf(st) ==
    CASE st = "PASSWORD_REQUIRED" -> "auth"
      [] st = "INVALID_PASSWORD"  -> "denied"
      [] st = "SETUP_REQUIRED"    -> "setup"
      [] st = "SUCCESS"           -> "live"

Service == INSTANCE SlotService WITH
    Conn <- Client, owner <- fd,
    stage <- [s \in Slots |-> IF fd[s] = NULL THEN "idle" ELSE StageOf(status[s])],
    device <- [s \in Slots |-> device[s] # NULL]

\* With the program of the repository at the other end, the server still keeps
\* the promise SlotService states.
ImplementsService == Service!Spec

\* The client waits for the second byte of a SUCCESS that has only one.
ShortSuccess(c) == buf[c] = <<<<"SUCCESS">>>> /\ down[c] = <<>> /\ c \notin gone

\* Every handshake ends, in streaming or with the program, whatever fails on
\* the way; a SUCCESS of one byte excepted (init_connect(), recv_message()).
Shaking(c) == pc[c] \in {"hello", "password", "setup"} \cup Awaiting
HandshakeEnds == \A c \in Client : Shaking(c) ~> ~Shaking(c) \/ ShortSuccess(c)

\* The same without the exception.
HandshakeEndsAlways == \A c \in Client : Shaking(c) ~> ~Shaking(c)

\* After SIGINT the program ends, unless it blocks in read() or in the recv()
\* it was about to call (run(), device_reopen()).
Blocked(c) == At(c, "read") \/ ShortSuccess(c)
InterruptEnds == \A c \in Client : quit_signal[c] ~> At(c, "exited") \/ Blocked(c)

\* A connection its client has closed is given up: no slot and no waiting entry
\* keeps it, however far it came, a refused password included.
Released == \A c \in Client : sock[c] = "closed" ~> c \notin Held
=============================================================================
