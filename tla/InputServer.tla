---------------------------- MODULE InputServer ----------------------------
(***************************************************************************)
(* The input-server process (server/input-server.c, server/uinput.c): one  *)
(* thread that accepts TCP connections into a waiting queue, negotiates a  *)
(* HELLO there, moves the connection to a client slot, and then obeys the  *)
(* client's messages.  A slot owns a uinput device that outlives its       *)
(* connection.  The kernel's side (sockets, uinput devices) and the peers  *)
(* are part of the model, because the server is only correct about them.   *)
(*                                                                         *)
(* Message contents are chosen when the server decodes a message, so every *)
(* sequence of well-formed or malformed messages is covered.  How bytes    *)
(* become messages is the subject of InputBuffer, what a device is made of *)
(* that of DeviceSetup.                                                    *)
(***************************************************************************)
EXTENDS Naturals, Sequences

CONSTANTS
    MAX_CLIENTS,            \* number of client slots
    MAX_WAITING_CLIENTS,    \* number of entries of the waiting queue
    PROTOCOL_VERSION,
    Conn,                   \* socket descriptors a connection may be given
    Device,                 \* uinput devices the kernel may create
    password,               \* config->password, a sequence of characters
    NUL,                    \* the character that ends a string
    Password,               \* contents of PASSWORD messages, sequences too
    listen_fd,
    NULL,                   \* a descriptor of -1, a message not sent
    MaxBatch,               \* bound: complete messages found after one recv()
    MaxChunks               \* bound: recv()s needed to read what is pending

ASSUME SlotsAssumption == MAX_CLIENTS \in Nat \ {0} /\ MAX_WAITING_CLIENTS \in Nat \ {0}
ASSUME NamesAssumption == listen_fd \notin Conn /\ NULL \notin Conn \cup Device \cup {listen_fd}
ASSUME PasswordAssumption ==
    /\ password \in Seq({password[i] : i \in DOMAIN password})
    /\ \A i \in DOMAIN password : password[i] # NUL
ASSUME BoundsAssumption == MaxBatch \in Nat /\ MaxChunks \in Nat /\ PROTOCOL_VERSION \in Nat \ {0}

VARIABLES
    pc,               \* where the core loop is
    u,                \* its loop index, from 1
    batch,            \* messages left in the slot being served
    readfds,
    shutdown_server,
    fd,               \* clients[s].fd
    ev_fd,            \* clients[s].ev_fd
    status,           \* clients[s].status
    named,            \* slots with meta.name # NULL
    stuck,            \* connections whose unconsumed input starts with a bad type byte
    waiting,          \* waiting_clients[w].fd
    backlog,          \* connections the kernel has, not accepted yet
    open,             \* connections the process has accepted and not closed
    pending,          \* recv()s worth of unread bytes
    hup,              \* connections whose peer has closed or reset them
    devices,          \* uinput devices that exist in the kernel
    authed,           \* history: connections that presented an accepted password
    sent              \* the message sent in the last step, or NULL

loopVars == <<pc, u, batch, readfds, shutdown_server>>
slotVars == <<fd, ev_fd, status, named, devices>>
netVars  == <<backlog, open, pending, hup, stuck, authed>>
vars     == <<loopVars, slotVars, waiting, netVars, sent>>

Slots == 1..MAX_CLIENTS
Waits == 1..MAX_WAITING_CLIENTS
Ended == {"done", "crashed"}

Status == {"RESERVED_UNCONN", "PASSWORD_REQUIRED", "SETUP_REQUIRED", "SUCCESS",
           "INVALID_PASSWORD"}
Reply  == (Status \ {"RESERVED_UNCONN"}) \cup
          {"VERSION_MISMATCH", "INVALID_CLIENT_SLOT", "INVALID",
           "CLIENT_SLOT_IN_USE", "CLIENT_SLOTS_EXHAUSTED"}
Hello  == [hello: BOOLEAN,      \* the first byte is MESSAGE_HELLO
           version: {PROTOCOL_VERSION - 1, PROTOCOL_VERSION},
           slot: 0..(MAX_CLIENTS + 1)]
Message == [to: Conn, type: Reply, len: {1, 2}]

ASSUME MessageAssumption == NULL \notin Message

Init ==
    /\ pc = "top" /\ u = 1 /\ batch = 0 /\ readfds = {} /\ shutdown_server = FALSE
    /\ fd = [s \in Slots |-> NULL] /\ ev_fd = [s \in Slots |-> NULL]
    /\ status = [s \in Slots |-> "RESERVED_UNCONN"]
    /\ named = {} /\ stuck = {} /\ devices = {}
    /\ waiting = [w \in Waits |-> NULL]
    /\ backlog = {} /\ open = {} /\ pending = [c \in Conn |-> 0] /\ hup = {}
    /\ authed = {} /\ sent = NULL

-----------------------------------------------------------------------------
(* The loop's bookkeeping.                                                 *)

NextSlotPastTheEnd ==
    IF u <= MAX_CLIENTS THEN pc' = "slots" /\ u' = u + 1
                        ELSE pc' = "waiting" /\ u' = 1

NextSlot ==
    IF u < MAX_CLIENTS THEN pc' = "slots" /\ u' = u + 1
                       ELSE pc' = "waiting" /\ u' = 1

\* After the last waiting entry the loop starts over and FD_ZEROes readfds.
NextWaiting ==
    IF u < MAX_WAITING_CLIENTS
    THEN pc' = "waiting" /\ u' = u + 1 /\ readfds' = readfds
    ELSE pc' = "top" /\ u' = 1 /\ readfds' = {}

\* client_data() is done with the slot, or goes on with its next message.
EndOfClient == NextSlot /\ batch' = 0
NextMessage == IF batch > 1 THEN pc' = "data" /\ u' = u /\ batch' = batch - 1
                            ELSE EndOfClient

First(i, S) == i \in S /\ \A j \in S : i <= j

-----------------------------------------------------------------------------
(* Sockets.                                                                *)

CloseFd(c) ==
    /\ open' = open \ {c} /\ hup' = hup \ {c}
    /\ stuck' = stuck \ {c} /\ authed' = authed \ {c}
    /\ pending' = [pending EXCEPT ![c] = 0]
    /\ backlog' = backlog

Consume(c) == pending' = [pending EXCEPT ![c] = @ - 1]

Send(c, type, len) == sent' = [to |-> c, type |-> type, len |-> len]

\* send() fails only on a connection its peer has given up; it need not then.
SendFails(c) == c \in hup /\ sent' = NULL

\* A reply whose failure the code does not look at.
TrySend(c, type) == Send(c, type, 1) \/ SendFails(c)

-----------------------------------------------------------------------------
(* uinput devices.                                                         *)

\* cleanup_device(): nothing without a device; UI_DEV_DESTROY may fail.
CleanupDeviceKeepingEvFd(s, ok) ==
    IF ev_fd[s] # NULL /\ ok
    THEN /\ devices' = devices \ {ev_fd[s]}
         /\ ev_fd' = ev_fd
         /\ named' = named \ {s}
    ELSE UNCHANGED <<devices, ev_fd, named>>

CleanupDevice(s, ok) ==
    IF ev_fd[s] # NULL /\ ok
    THEN /\ devices' = devices \ {ev_fd[s]}
         /\ ev_fd' = [ev_fd EXCEPT ![s] = NULL]
         /\ named' = named \ {s}
    ELSE UNCHANGED <<devices, ev_fd, named>>

\* client_close() of a slot with a client.
ClientClose(s, cleanup, destroyed) ==
    /\ CleanupDevice(s, cleanup /\ destroyed)
    /\ CloseFd(fd[s])
    /\ fd' = [fd EXCEPT ![s] = NULL]
    /\ status' = [status EXCEPT ![s] = "RESERVED_UNCONN"]

\* create_device() up to its success: the descriptor replaces the slot's.
CreateDevice(s, d) ==
    /\ devices' = devices \cup {d}
    /\ ev_fd' = [ev_fd EXCEPT ![s] = d]

-----------------------------------------------------------------------------
(* The peers and the operator.  New connections, new bytes and the signal  *)
(* can come at any time, but only select(), what follows from its result,  *)
(* and the loop's condition look for them: what comes later than select()  *)
(* is what comes before the next one, so they come there.  A peer may hang *)
(* up between any two steps, which send() and recv() can notice.           *)

Connect(c) ==
    /\ pc = "select" /\ c \notin open \cup backlog
    /\ backlog' = backlog \cup {c} /\ sent' = NULL
    /\ UNCHANGED <<loopVars, slotVars, waiting, open, pending, hup, stuck, authed>>

PeerSend(c) ==
    /\ pc = "select"
    /\ c \in (open \cup backlog) \ hup /\ pending[c] < MaxChunks
    /\ pending' = [pending EXCEPT ![c] = @ + 1] /\ sent' = NULL
    /\ UNCHANGED <<loopVars, slotVars, waiting, backlog, open, hup, stuck, authed>>

PeerClose(c) ==
    /\ c \in (open \cup backlog) \ hup
    /\ hup' = hup \cup {c} /\ sent' = NULL
    /\ UNCHANGED <<loopVars, slotVars, waiting, backlog, open, pending, stuck, authed>>

\* SIGINT sets the flag; if select() is blocking it fails with EINTR as well.
Interrupt ==
    /\ pc \in {"top", "select"}
    /\ shutdown_server' = TRUE
    /\ \/ UNCHANGED <<pc, readfds>>
       \/ pc' = "top" /\ readfds' = {}
    /\ sent' = NULL
    /\ UNCHANGED <<u, batch, slotVars, waiting, netVars>>

-----------------------------------------------------------------------------
(* The core loop: interest set, select(), accept().                        *)

Held == ({fd[s] : s \in Slots} \cup {waiting[w] : w \in Waits}) \ {NULL}

InterestInSlotsOnly == {listen_fd} \cup ({fd[s] : s \in Slots} \ {NULL})

Interest == {listen_fd} \cup Held

Ready == {c \in open : pending[c] > 0 \/ c \in hup}
           \cup (IF backlog = {} THEN {} ELSE {listen_fd})

LoopTopIgnoringFlag ==
    /\ pc = "top"
    /\ pc' = "select" /\ readfds' = Interest /\ sent' = NULL
    /\ UNCHANGED <<u, batch, shutdown_server, slotVars, waiting, netVars>>

LoopTop ==
    /\ pc = "top" /\ ~shutdown_server
    /\ pc' = "select" /\ readfds' = Interest /\ sent' = NULL
    /\ UNCHANGED <<u, batch, shutdown_server, slotVars, waiting, netVars>>

SelectResultUnused ==
    /\ pc = "select" /\ readfds \cap Ready # {}
    /\ pc' = "accept" /\ readfds' = readfds /\ sent' = NULL
    /\ UNCHANGED <<u, batch, shutdown_server, slotVars, waiting, netVars>>

Select ==
    /\ pc = "select" /\ readfds \cap Ready # {}
    /\ pc' = "accept" /\ readfds' = readfds \cap Ready /\ sent' = NULL
    /\ UNCHANGED <<u, batch, shutdown_server, slotVars, waiting, netVars>>

ToSlots ==
    /\ pc = "accept" /\ pc' = "slots" /\ u' = 1
    /\ UNCHANGED <<batch, readfds, shutdown_server, slotVars>>

\* Nobody is connecting, or accept() fails: the entry it was for stays free.
AcceptNothing ==
    /\ ToSlots /\ sent' = NULL
    /\ UNCHANGED <<waiting, netVars>>

Accept(c) ==
    /\ ToSlots /\ listen_fd \in readfds /\ c \in backlog
    /\ backlog' = backlog \ {c} /\ open' = open \cup {c} /\ sent' = NULL
    /\ \E w \in Waits : /\ First(w, {v \in Waits : waiting[v] = NULL})
                        /\ waiting' = [waiting EXCEPT ![w] = c]
    /\ UNCHANGED <<pending, hup, stuck, authed>>

TurnAway(c) ==
    /\ ToSlots /\ listen_fd \in readfds /\ c \in backlog
    /\ \A w \in Waits : waiting[w] # NULL
    /\ TrySend(c, "CLIENT_SLOTS_EXHAUSTED")
    /\ backlog' = backlog \ {c} /\ hup' = hup \ {c}
    /\ pending' = [pending EXCEPT ![c] = 0]
    /\ UNCHANGED <<waiting, open, stuck, authed>>

-----------------------------------------------------------------------------
(* The loop over the client slots: recv_data() and what becomes of it.     *)

AtSlot(s) == pc = "slots" /\ u = s

SkipSlot(s) ==
    /\ AtSlot(s) /\ fd[s] \notin readfds
    /\ NextSlot /\ sent' = NULL
    /\ UNCHANGED <<batch, readfds, shutdown_server, slotVars, waiting, netVars>>

\* FD_ISSET(-1, ...) is undefined and may hold; recv(-1) then fails and
\* client_close() finds no descriptor to close.
VisitFreeSlot(s) ==
    /\ AtSlot(s) /\ fd[s] = NULL
    /\ status' = [status EXCEPT ![s] = "RESERVED_UNCONN"]
    /\ NextSlot /\ sent' = NULL
    /\ UNCHANGED <<batch, readfds, shutdown_server, fd, ev_fd, named, devices,
                   waiting, netVars>>

\* End of stream, a reset, or no room left in a buffer nothing consumes:
\* client_close() without cleanup, so the device stays with the slot.
RecvFails(s) ==
    /\ AtSlot(s) /\ fd[s] \in readfds
    /\ fd[s] \in hup \/ fd[s] \in stuck
    /\ ClientClose(s, FALSE, TRUE)
    /\ NextSlot /\ sent' = NULL
    /\ UNCHANGED <<batch, readfds, shutdown_server, waiting>>

\* n complete messages are in the buffer; none if it starts with a bad byte.
RecvData(s, n) ==
    /\ AtSlot(s) /\ fd[s] \in readfds /\ pending[fd[s]] > 0
    /\ fd[s] \in stuck => n = 0
    /\ Consume(fd[s])
    /\ IF n = 0 THEN NextSlot ELSE pc' = "data" /\ u' = u
    /\ batch' = n /\ sent' = NULL
    /\ UNCHANGED <<readfds, shutdown_server, slotVars, waiting, backlog, open, hup, stuck, authed>>

-----------------------------------------------------------------------------
(* client_data(): one step per message.  A handler that returns -1 makes   *)
(* client_data() close the socket and forget the descriptor, nothing else. *)

Serving(s) ==
    /\ pc = "data" /\ u = s /\ fd[s] # NULL
    /\ UNCHANGED <<readfds, shutdown_server, waiting>>

Drop(s) ==
    /\ CloseFd(fd[s]) /\ fd' = [fd EXCEPT ![s] = NULL]
    /\ EndOfClient

\* The message is used up and changes nothing the rest of the server sees.
Consumed == NextMessage /\ sent' = NULL /\ UNCHANGED <<slotVars, netVars>>

Rejected(s) == Drop(s) /\ UNCHANGED <<ev_fd, status, named, devices>>

AnnounceNothing(s, st, len, proved) ==
    /\ status' = [status EXCEPT ![s] = st]
    /\ sent' = NULL /\ NextMessage
    /\ UNCHANGED <<fd, backlog, open, pending, hup, stuck>>
    /\ authed' = authed \cup proved

\* Send the slot's new status, or lose the connection over it.
Announce(s, st, len, proved) ==
    /\ status' = [status EXCEPT ![s] = st]
    /\ \/ Send(fd[s], st, len) /\ NextMessage
          /\ UNCHANGED <<fd, backlog, open, pending, hup, stuck>>
          /\ authed' = authed \cup proved
       \/ SendFails(fd[s]) /\ Drop(s)

PasswordSet == password # <<>>

\* strncmp() of the two over the length of the message: it accepts a beginning
\* of the password, the empty one included, and whatever follows a NUL behind
\* the whole of it.
Accepted(msg) ==
    \/ \E n \in 0..Len(password) : msg = SubSeq(password, 1, n)
    \/ \E n \in DOMAIN msg : msg[n] = NUL /\ SubSeq(msg, 1, n - 1) = password

\* What a client that may go on has to do next.
NextStatus(dev) == IF dev = NULL THEN "SETUP_REQUIRED" ELSE "SUCCESS"

PasswordStatus(s, msg) ==
    IF Accepted(msg) THEN NextStatus(ev_fd[s]) ELSE "INVALID_PASSWORD"

HandlePassword(s, msg) ==
    /\ Serving(s)
    /\ IF status[s] = "PASSWORD_REQUIRED"
       THEN /\ Announce(s, PasswordStatus(s, msg), 1,
                        IF Accepted(msg) THEN {fd[s]} ELSE {})
            /\ UNCHANGED <<ev_fd, named, devices>>
       ELSE Consumed

\* ABSINFO: refused outside setup and for an axis out of range.
HandleAbsinfo(s) ==
    /\ Serving(s)
    /\ \/ status[s] = "SETUP_REQUIRED" /\ Consumed
       \/ Rejected(s) /\ sent' = NULL

\* REQUEST_EVENT: the same, but outside setup the client is told.
HandleRequestEvent(s) ==
    /\ Serving(s)
    /\ IF status[s] = "SETUP_REQUIRED"
       THEN Consumed \/ (Rejected(s) /\ sent' = NULL)
       ELSE Rejected(s) /\ TrySend(fd[s], "INVALID")

HandleDevice(s) ==
    /\ Serving(s)
    /\ IF status[s] = "SETUP_REQUIRED"
       THEN /\ named' = named \cup {s}
            /\ NextMessage /\ sent' = NULL
            /\ UNCHANGED <<fd, ev_fd, status, devices, netVars>>
       ELSE Rejected(s) /\ sent' = NULL

HandleSetupRequired(s) ==
    /\ Serving(s)
    /\ IF status[s] = "SUCCESS"
       THEN /\ Announce(s, "SETUP_REQUIRED", 1, {})
            /\ UNCHANGED <<ev_fd, named, devices>>
       ELSE Rejected(s) /\ sent' = NULL

\* SETUP_END: SUCCESS is sent with both its bytes here, and only here.
HandleSetupEnd(s) ==
    /\ Serving(s)
    /\ IF status[s] = "SETUP_REQUIRED"
       THEN \/ \E d \in Device \ devices :
                 /\ s \in named
                 /\ CreateDevice(s, d)
                 /\ Announce(s, "SUCCESS", 2, {})
                 /\ UNCHANGED named
            \/ Rejected(s) /\ sent' = NULL          \* create_device() fails
       ELSE Rejected(s) /\ TrySend(fd[s], "INVALID")

HandleQuit(s, destroyed) ==
    /\ Serving(s)
    /\ ClientClose(s, TRUE, destroyed)
    /\ EndOfClient /\ sent' = NULL

\* DATA outside SUCCESS is used up in silence; writing the event may fail.
HandleData(s) ==
    /\ Serving(s)
    /\ \/ Consumed
       \/ status[s] = "SUCCESS" /\ Rejected(s) /\ sent' = NULL

\* A known type that is no client message: the switch's default.
HandleOther(s) == Serving(s) /\ Rejected(s) /\ sent' = NULL

\* An unknown type byte stays at the head of the buffer for good.
InvalidMessage(s) ==
    /\ Serving(s)
    /\ stuck' = stuck \cup {fd[s]}
    /\ EndOfClient /\ sent' = NULL
    /\ UNCHANGED <<slotVars, backlog, open, pending, hup, authed>>

Handle(s) ==
    \/ \E p \in Password : HandlePassword(s, p)
    \/ HandleAbsinfo(s)
    \/ HandleRequestEvent(s)
    \/ HandleDevice(s)
    \/ HandleSetupRequired(s)
    \/ HandleSetupEnd(s)
    \/ \E destroyed \in BOOLEAN : HandleQuit(s, destroyed)
    \/ HandleData(s)
    \/ HandleOther(s)
    \/ InvalidMessage(s)

-----------------------------------------------------------------------------
(* The loop over the waiting queue: recv_data(), then client_hello().      *)

AtWaiting(w) == pc = "waiting" /\ u = w

\* FD_ISSET(-1, ...) may hold here too: nothing is there to close.
SkipWaiting(w) ==
    /\ AtWaiting(w) /\ waiting[w] \notin readfds
    /\ NextWaiting /\ sent' = NULL
    /\ UNCHANGED <<batch, shutdown_server, slotVars, waiting, netVars>>

\* The entry is served in this step and the loop moves on.
ServeWaiting(w) ==
    /\ AtWaiting(w) /\ waiting[w] \in readfds
    /\ NextWaiting
    /\ UNCHANGED <<batch, shutdown_server>>

DropWaiting(w) ==
    /\ CloseFd(waiting[w])
    /\ waiting' = [waiting EXCEPT ![w] = NULL]

WaitingRecvFails(w) ==
    /\ ServeWaiting(w) /\ waiting[w] \in hup
    /\ DropWaiting(w) /\ sent' = NULL
    /\ UNCHANGED slotVars

ShortHello(w) ==
    /\ ServeWaiting(w) /\ pending[waiting[w]] > 0
    /\ Consume(waiting[w]) /\ sent' = NULL
    /\ UNCHANGED <<slotVars, waiting, backlog, open, hup, stuck, authed>>

InUseOnceSetUp(s) == fd[s] # NULL /\ status[s] = "SUCCESS"
InUse(s) == fd[s] # NULL
Idle == {s \in Slots : ~InUse(s)}
Deviceless == {s \in Idle : ev_fd[s] = NULL}

\* The checks of client_hello(), in its order; "none" lets the client through.
Refusal(h) ==
    CASE ~h.hello                              -> "INVALID"
      [] h.hello /\ h.version # PROTOCOL_VERSION -> "VERSION_MISMATCH"
      [] OTHER ->
           CASE h.slot > MAX_CLIENTS                       -> "INVALID_CLIENT_SLOT"
             [] h.slot \in Slots /\ InUse(h.slot)          -> "CLIENT_SLOT_IN_USE"
             [] h.slot = 0 /\ Idle = {}                    -> "CLIENT_SLOTS_EXHAUSTED"
             [] OTHER                                      -> "none"

RefuseHello(w, h) ==
    /\ ServeWaiting(w) /\ pending[waiting[w]] > 0
    /\ Refusal(h) # "none"
    /\ TrySend(waiting[w], Refusal(h))
    /\ DropWaiting(w)
    /\ UNCHANGED slotVars

\* Slot s is the one asked for, or the first idle slot without a device, or
\* (all idle slots having one) the first idle slot, whose device must go.
Chosen(h, s) ==
    IF h.slot = 0
    THEN First(s, IF Deviceless = {} THEN Idle ELSE Deviceless)
    ELSE s = h.slot
EvictsAlways(h) == TRUE
Evicts(h) == h.slot = 0 /\ Deviceless = {}

FirstStatusDeviceFirst(dev) ==
    IF dev = NULL /\ PasswordSet THEN "PASSWORD_REQUIRED" ELSE NextStatus(dev)
FirstStatus(dev) == IF PasswordSet THEN "PASSWORD_REQUIRED" ELSE NextStatus(dev)

\* The slot takes the connection over and the entry is free again.
MoveToSlot(w, s) ==
    /\ fd' = [fd EXCEPT ![s] = waiting[w]]
    /\ waiting' = [waiting EXCEPT ![w] = NULL]
    /\ Consume(waiting[w])
    /\ UNCHANGED <<backlog, open, hup, stuck, authed>>

\* The reply has one byte, SUCCESS included.  If it cannot be sent the device
\* an eviction destroyed is gone all the same.
AcceptHello(w, h, s, destroyed) ==
    /\ ServeWaiting(w) /\ pending[waiting[w]] > 0
    /\ Refusal(h) = "none" /\ Chosen(h, s)
    /\ IF Evicts(h) THEN CleanupDevice(s, destroyed)
                    ELSE UNCHANGED <<devices, ev_fd, named>>
    /\ \/ /\ Send(waiting[w], FirstStatus(ev_fd'[s]), 1)
          /\ status' = [status EXCEPT ![s] = FirstStatus(ev_fd'[s])]
          /\ MoveToSlot(w, s)
       \/ /\ SendFails(waiting[w])
          /\ DropWaiting(w)
          /\ UNCHANGED <<fd, status>>

-----------------------------------------------------------------------------
(* The process ends: the kernel closes every socket and, with the last     *)
(* descriptor of it, destroys every uinput device.                         *)

ProcessEnds(how) ==
    /\ pc' = how /\ u' = 1 /\ batch' = 0 /\ readfds' = {}
    /\ fd' = [s \in Slots |-> NULL] /\ ev_fd' = [s \in Slots |-> NULL]
    /\ status' = [s \in Slots |-> "RESERVED_UNCONN"]
    /\ named' = {} /\ stuck' = {} /\ devices' = {}
    /\ waiting' = [w \in Waits |-> NULL]
    /\ backlog' = {} /\ open' = {} /\ pending' = [c \in Conn |-> 0] /\ hup' = {}
    /\ authed' = {} /\ sent' = NULL
    /\ UNCHANGED shutdown_server

Exit == pc = "top" /\ shutdown_server /\ ProcessEnds("done")

\* SETUP_END of a client that never sent a DEVICE: create_device() copies the
\* name from a null pointer.
Crash(s) ==
    /\ pc = "data" /\ u = s /\ fd[s] # NULL
    /\ status[s] = "SETUP_REQUIRED" /\ s \notin named
    /\ ProcessEnds("crashed")

Terminated == pc \in Ended /\ UNCHANGED vars

-----------------------------------------------------------------------------
Environment ==
    \/ \E c \in Conn : Connect(c) \/ PeerSend(c) \/ PeerClose(c)
    \/ Interrupt

ServeSlot(s) ==
    \/ SkipSlot(s) \/ VisitFreeSlot(s) \/ RecvFails(s)
    \/ \E n \in 0..MaxBatch : RecvData(s, n)
    \/ Handle(s)
    \/ Crash(s)

ServeEntry(w) ==
    \/ SkipWaiting(w) \/ WaitingRecvFails(w) \/ ShortHello(w)
    \/ \E h \in Hello : \/ RefuseHello(w, h)
                        \/ \E s \in Slots, destroyed \in BOOLEAN :
                                AcceptHello(w, h, s, destroyed)

Server ==
    \/ LoopTop \/ Select \/ AcceptNothing
    \/ \E c \in Conn : Accept(c) \/ TurnAway(c)
    \/ \E s \in Slots : ServeSlot(s)
    \/ \E w \in Waits : ServeEntry(w)
    \/ Exit

Next == Environment \/ Server \/ Terminated

Spec == Init /\ [][Next]_vars

\* The process is scheduled; peers and operator owe it nothing.
FairSpec == Spec /\ WF_vars(Server)

-----------------------------------------------------------------------------
(* Properties.  (NextSlotPastTheEnd, InterestInSlotsOnly and the other     *)
(* variants that stand beside a definition and that nothing uses are bugs  *)
(* one could have made there; README.md says which property each breaks.)  *)

\* Every variable keeps its type; the loop index fits the loop it is in, and
\* only connections that exist can have been hung up.
LoopType ==
    /\ pc \in {"top", "select", "accept", "slots", "data", "waiting"} \cup Ended
    /\ u \in Nat
    /\ pc \in {"slots", "data"} => u \in Slots
    /\ pc = "waiting" => u \in Waits
    /\ batch \in 0..MaxBatch
    /\ readfds \subseteq Conn \cup {listen_fd}
    /\ shutdown_server \in BOOLEAN

SlotType ==
    /\ fd \in [Slots -> Conn \cup {NULL}]
    /\ ev_fd \in [Slots -> Device \cup {NULL}]
    /\ status \in [Slots -> Status]
    /\ named \subseteq Slots
    /\ devices \subseteq Device

NetType ==
    /\ waiting \in [Waits -> Conn \cup {NULL}]
    /\ backlog \subseteq Conn /\ open \subseteq Conn
    /\ pending \in [Conn -> 0..MaxChunks]
    /\ hup \subseteq open \cup backlog
    /\ stuck \subseteq Conn /\ authed \subseteq Conn

SentType == sent \in Message \cup {NULL}

TypeOK == LoopType /\ SlotType /\ NetType /\ SentType

\* A descriptor is in one place: two slots, two waiting entries or a slot and
\* an entry never hold the same connection, and the process holds every
\* connection it has open and no other.  Moving a client from the queue to a
\* slot (client_hello), closing it on any of the error paths and reusing the
\* entry must all keep it so, or a close() would hit another client's socket
\* and a descriptor would leak.
OneOwner ==
    /\ \A s, t \in Slots : fd[s] = fd[t] /\ fd[s] # NULL => s = t
    /\ \A v, w \in Waits : waiting[v] = waiting[w] /\ waiting[v] # NULL => v = w
    /\ \A s \in Slots, w \in Waits : fd[s] = waiting[w] => fd[s] = NULL
    /\ open = Held /\ open \cap backlog = {}

\* A slot's device is one that exists and belongs to no other slot, and a
\* connected client that was told SUCCESS has one: handle_data() writes to
\* ev_fd without looking at it.
SlotDevices ==
    /\ \A s \in Slots : ev_fd[s] # NULL =>
          /\ ev_fd[s] \in devices
          /\ \A t \in Slots : ev_fd[s] = ev_fd[t] => s = t
    /\ \A s \in Slots : InUse(s) /\ status[s] = "SUCCESS" => ev_fd[s] # NULL

\* With a password set, nobody configures a device or sends events over a
\* connection on which handle_password() has not itself accepted a PASSWORD: not
\* the next owner of a slot whose status client_data() left behind, nor one
\* reconnecting to a device somebody else set up.  What it accepts is less than
\* the documents ask for: any beginning of the password will do (Accepted).
Authenticated ==
    PasswordSet =>
        \A s \in Slots : InUse(s) /\ status[s] \in {"SETUP_REQUIRED", "SUCCESS"}
                            => fd[s] \in authed

\* recv() blocks, and with it every client: it is only called on a connection
\* select() reported and nobody has read from or replaced since, although the
\* round accepts, closes and moves connections before it gets there.
RecvNeverBlocks ==
    LET Answers(c) == c \in readfds => pending[c] > 0 \/ c \in hup
    IN  /\ pc = "slots" /\ InUse(u) => Answers(fd[u])
        /\ pc = "waiting" /\ waiting[u] # NULL => Answers(waiting[u])

\* The slot's status and what its client has been told are the same: a step
\* that gives a slot a client or changes a connected client's status sends
\* that status to that client.
StatusAnnounced ==
    [][\A s \in Slots :
          fd'[s] # NULL /\ <<fd'[s], status'[s]>> # <<fd[s], status[s]>> =>
             /\ sent' # NULL
             /\ sent'.to = fd'[s] /\ sent'.type = status'[s]]_vars

\* A device outlives its client's connection (protocol.md: "Reconnecting to a
\* client slot previously occupied keeps the evdev device intact").  While the
\* process runs a slot loses or changes its device only by a message of the
\* client in it (QUIT, a second setup) or, when idle, to an auto-assigned
\* client that found no idle slot without a device.
DeviceKept ==
    [][\A s \in Slots : ev_fd[s] # NULL /\ ev_fd'[s] # ev_fd[s] /\ pc' \notin Ended =>
          \/ pc = "data" /\ u = s /\ InUse(s)
          \/ pc = "waiting" /\ ~InUse(s) /\ Deviceless = {}]_vars

\* A connection its peer has closed or reset does not keep a slot or a waiting
\* entry, whatever state, half message or unusable buffer it left behind.
HangupReleases == \A c \in Conn : c \in open /\ c \in hup ~> c \notin open

\* After SIGINT the process exits, or it is in select() with nothing to read:
\* the flag is tested before select() blocks, so a signal in between is only
\* noticed with the next connection or message.
ShutdownObserved ==
    shutdown_server ~> (pc \in Ended \/ (pc = "select" /\ readfds \cap Ready = {}))

\* protocol.md (399) has SETUP_REQUIRED from a client already set up "prompting
\* the server to destroy the old input device and wait for a new
\* `DEVICE`/`ABSINFO` exchange": no device is left that no slot holds.  The
\* server only waits; the next SETUP_END overwrites the old descriptor.
NoOrphanDevice == devices \subseteq {ev_fd[s] : s \in Slots}

-----------------------------------------------------------------------------
\* The process implements SlotService: a slot's stage is its status while a
\* client is in it.
StageOf == [st \in Status |->
    CASE st = "PASSWORD_REQUIRED" -> "auth"
      [] st = "INVALID_PASSWORD"  -> "denied"
      [] st = "SETUP_REQUIRED"    -> "setup"
      [] st = "SUCCESS"           -> "live"
      [] OTHER                    -> "idle"]

Service == INSTANCE SlotService WITH
    owner  <- fd,
    stage  <- [s \in Slots |-> IF fd[s] = NULL THEN "idle" ELSE StageOf[status[s]]],
    device <- [s \in Slots |-> ev_fd[s] # NULL]

\* Every step of the process is a step of SlotService or leaves the slots as
\* they are: no path, error paths included, skips authentication or setup,
\* loses an idle slot's device or gives a slot away twice.
ImplementsService == Service!Spec
=============================================================================
