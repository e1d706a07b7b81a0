------------------------- MODULE InputServerProofs -------------------------
(***************************************************************************)
(* Theorems about InputServer for every number of slots, waiting entries,  *)
(* connections, devices and passwords, in the order they need each other:  *)
(* types; who holds which descriptor; who owns which device; what a client *)
(* may do; what is left to read in a round of the loop.                    *)
(***************************************************************************)
EXTENDS InputServer, TLAPS

\* The initial state is well typed.
LEMMA InitType == ASSUME Init PROVE TypeOK
<1>1. LoopType
  <2>1. batch \in 0..MaxBatch
    BY BoundsAssumption DEF Init
  <2>2. shutdown_server \in BOOLEAN
    BY DEF Init
  <2>3. readfds \subseteq Conn \cup {listen_fd}
    BY DEF Init
  <2>4. pc = "top" /\ u = 1
    BY DEF Init
  <2>. QED BY <2>1, <2>2, <2>3, <2>4 DEF LoopType
<1>2. SlotType
  BY DEF Init, SlotType, Status
<1>3. NetType
  BY BoundsAssumption DEF Init, NetType
<1>4. SentType
  BY DEF Init, SentType
<1>. QED BY <1>1, <1>2, <1>3, <1>4 DEF TypeOK

\* Nothing a peer or the operator does breaks a type.
LEMMA EnvironmentType == ASSUME TypeOK, Environment PROVE TypeOK'
<1> USE DEF TypeOK, loopVars, slotVars, netVars
<1>1. ASSUME NEW c \in Conn, Connect(c) PROVE TypeOK'
  BY <1>1 DEF Connect, LoopType, SlotType, NetType, SentType
<1>2. ASSUME NEW c \in Conn, PeerSend(c) PROVE TypeOK'
  BY <1>2, BoundsAssumption DEF PeerSend, LoopType, SlotType, NetType, SentType
<1>3. ASSUME NEW c \in Conn, PeerClose(c) PROVE TypeOK'
  BY <1>3 DEF PeerClose, LoopType, SlotType, NetType, SentType
<1>4. CASE Interrupt
  BY <1>4 DEF Interrupt, LoopType, SlotType, NetType, SentType
<1>. QED BY <1>1, <1>2, <1>3, <1>4 DEF Environment

\* What the loop's bookkeeping does to its index.
LEMMA NextSlotType ==
    ASSUME LoopType, pc \in {"slots", "data"}, NextSlot, batch' \in 0..MaxBatch,
           UNCHANGED <<readfds, shutdown_server>>
    PROVE  LoopType'
<1>1. u \in Slots
  BY DEF LoopType
<1>2. CASE u < MAX_CLIENTS
  <2>1. pc' = "slots" /\ u' \in Slots
    BY <1>1, <1>2, SlotsAssumption DEF NextSlot, Slots
  <2>. QED BY <2>1 DEF LoopType, Slots
<1>3. CASE ~(u < MAX_CLIENTS)
  <2>1. pc' = "waiting" /\ u' \in Waits
    BY <1>3, SlotsAssumption DEF NextSlot, Waits
  <2>. QED BY <2>1 DEF LoopType, Waits
<1>. QED BY <1>2, <1>3

\* Leaving client_data() keeps the loop's types.
LEMMA EndOfClientType ==
    ASSUME LoopType, pc \in {"slots", "data"}, EndOfClient,
           UNCHANGED <<readfds, shutdown_server>>
    PROVE  LoopType'
<1>1. batch' \in 0..MaxBatch
  BY BoundsAssumption DEF EndOfClient
<1>. QED BY <1>1, NextSlotType DEF EndOfClient

\* Going on to the next message of a batch does, too.
LEMMA NextMessageType ==
    ASSUME LoopType, pc = "data", NextMessage, UNCHANGED <<readfds, shutdown_server>>
    PROVE  LoopType'
<1>1. CASE batch > 1
  BY <1>1, BoundsAssumption DEF NextMessage, LoopType
<1>2. CASE ~(batch > 1)
  BY <1>2, EndOfClientType DEF NextMessage
<1>. QED BY <1>1, <1>2

\* Nor does the loop over the waiting entries overrun.
LEMMA NextWaitingType ==
    ASSUME LoopType, pc = "waiting", NextWaiting, UNCHANGED <<batch, shutdown_server>>
    PROVE  LoopType'
<1>1. u \in Waits
  BY DEF LoopType
<1>2. CASE u < MAX_WAITING_CLIENTS
  <2>1. pc' = "waiting" /\ u' \in Waits /\ readfds' = readfds
    BY <1>1, <1>2, SlotsAssumption DEF NextWaiting, Waits
  <2>. QED BY <2>1 DEF LoopType, Waits
<1>3. CASE ~(u < MAX_WAITING_CLIENTS)
  <2>1. pc' = "top" /\ u' = 1 /\ readfds' = {}
    BY <1>3 DEF NextWaiting
  <2>. QED BY <2>1 DEF LoopType
<1>. QED BY <1>2, <1>3

\* Closing, reading from and writing to a connection.
LEMMA CloseFdType ==
    ASSUME NetType, NEW c \in Conn, CloseFd(c), waiting' \in [Waits -> Conn \cup {NULL}]
    PROVE  NetType'
  BY BoundsAssumption DEF NetType, CloseFd

\* A reply that is sent is a well-typed message,
LEMMA SendType ==
    ASSUME NEW c \in Conn, NEW t \in Reply, NEW n \in {1, 2}, Send(c, t, n)
    PROVE  SentType'
  BY DEF Send, SentType, Message

\* and so is one that may fail to be sent.
LEMMA TrySendType ==
    ASSUME NEW c \in Conn, NEW t \in Reply, TrySend(c, t)
    PROVE  SentType'
  BY SendType DEF TrySend, SendFails, SentType

\* cleanup_device() leaves well-typed slots, whether it destroys a device or not.
LEMMA CleanupDeviceType ==
    ASSUME SlotType, NEW s \in Slots, NEW ok, CleanupDevice(s, ok)
    PROVE  /\ ev_fd' \in [Slots -> Device \cup {NULL}]
           /\ named' \subseteq Slots /\ devices' \subseteq Device
  BY DEF SlotType, CleanupDevice

\* client_close() keeps the types of slots and network.
LEMMA ClientCloseType ==
    ASSUME SlotType, NetType, NEW s \in Slots, NEW cleanup, NEW ok,
           fd[s] # NULL, ClientClose(s, cleanup, ok), UNCHANGED waiting
    PROVE  SlotType' /\ NetType'
<1>1. fd[s] \in Conn
  BY DEF SlotType
<1>2. NetType'
  BY <1>1, CloseFdType DEF ClientClose, NetType
<1>3. SlotType'
  BY CleanupDeviceType DEF ClientClose, SlotType, Status
<1>. QED BY <1>2, <1>3

\* The core loop up to accept().
LEMMA CoreLoopType ==
    ASSUME TypeOK,
           LoopTop \/ Select \/ AcceptNothing \/ \E c \in Conn : Accept(c) \/ TurnAway(c)
    PROVE  TypeOK'
<1> USE DEF TypeOK, slotVars, netVars
<1>1. ASSUME ToSlots PROVE LoopType' /\ SlotType'
  BY <1>1, SlotsAssumption DEF ToSlots, LoopType, SlotType, Slots
<1>2. CASE LoopTop
  <2>1. Interest \subseteq Conn \cup {listen_fd}
    BY DEF Interest, Held, SlotType, NetType
  <2>. QED BY <1>2, <2>1 DEF LoopTop, LoopType, SlotType, NetType, SentType
<1>3. CASE Select
  BY <1>3 DEF Select, LoopType, SlotType, NetType, SentType
<1>4. CASE AcceptNothing
  BY <1>1, <1>4 DEF AcceptNothing, NetType, SentType
<1>5. ASSUME NEW c \in Conn, Accept(c) PROVE TypeOK'
  BY <1>1, <1>5 DEF Accept, NetType, SentType
<1>6. ASSUME NEW c \in Conn, TurnAway(c) PROVE TypeOK'
  <2>1. SentType'
    BY <1>6, TrySendType DEF TurnAway, Reply
  <2>2. NetType'
    BY <1>6, BoundsAssumption DEF TurnAway, NetType
  <2>. QED BY <1>1, <1>6, <2>1, <2>2 DEF TurnAway
<1>. QED BY <1>2, <1>3, <1>4, <1>5, <1>6

\* recv() on a slot.
LEMMA RecvType ==
    ASSUME TypeOK, NEW s \in Slots,
           \/ SkipSlot(s) \/ VisitFreeSlot(s) \/ RecvFails(s)
           \/ \E n \in 0..MaxBatch : RecvData(s, n)
    PROVE  TypeOK'
<1> USE DEF TypeOK, slotVars, netVars
<1>1. CASE SkipSlot(s)
  BY <1>1, NextSlotType DEF SkipSlot, AtSlot, LoopType, SlotType, NetType, SentType
<1>2. CASE VisitFreeSlot(s)
  <2>1. LoopType'
    BY <1>2, NextSlotType DEF VisitFreeSlot, AtSlot, LoopType
  <2>. QED BY <1>2, <2>1 DEF VisitFreeSlot, SlotType, NetType, SentType, Status
<1>3. CASE RecvFails(s)
  <2>1. LoopType'
    BY <1>3, NextSlotType DEF RecvFails, AtSlot, LoopType
  <2>2. fd[s] # NULL
    BY <1>3, NamesAssumption DEF RecvFails, LoopType
  <2>. QED BY <1>3, <2>1, <2>2, ClientCloseType DEF RecvFails, SentType
<1>4. ASSUME NEW n \in 0..MaxBatch, RecvData(s, n) PROVE TypeOK'
  <2>1. LoopType'
    <3>1. CASE n = 0
      BY <1>4, <3>1, NextSlotType DEF RecvData, AtSlot
    <3>2. CASE n # 0
      BY <1>4, <3>2 DEF RecvData, AtSlot, LoopType
    <3>. QED BY <3>1, <3>2
  <2>2. fd[s] \in Conn
    BY <1>4, NamesAssumption DEF RecvData, LoopType, SlotType
  <2>3. pending' \in [Conn -> 0..MaxChunks]
    BY <1>4, <2>2, BoundsAssumption DEF RecvData, Consume, NetType
  <2>. QED BY <1>4, <2>1, <2>3 DEF RecvData, SlotType, NetType, SentType
<1>. QED BY <1>1, <1>2, <1>3, <1>4

\* What the handlers have in common.
LEMMA ConsumedType ==
    ASSUME TypeOK, NEW s \in Slots, Serving(s), Consumed
    PROVE  TypeOK'
  BY NextMessageType DEF TypeOK, Serving, Consumed, slotVars, netVars, SlotType, NetType, SentType

\* client_data()'s error path does the same for the descriptor it forgets.
LEMMA DropType ==
    ASSUME TypeOK, NEW s \in Slots, Serving(s), Drop(s)
    PROVE  /\ LoopType' /\ NetType'
           /\ fd' \in [Slots -> Conn \cup {NULL}]
<1>1. fd[s] \in Conn
  BY DEF Serving, TypeOK, SlotType
<1>2. LoopType'
  BY EndOfClientType DEF Serving, Drop, TypeOK
<1>3. NetType'
  BY <1>1, CloseFdType DEF Serving, Drop, TypeOK, NetType
<1>. QED BY <1>2, <1>3 DEF Drop, TypeOK, SlotType

\* A handler's error keeps every type,
LEMMA RejectedType ==
    ASSUME TypeOK, NEW s \in Slots, Serving(s), Rejected(s), SentType'
    PROVE  TypeOK'
  BY DropType DEF Rejected, TypeOK, SlotType

\* also when it tries to tell the client.
LEMMA RefusedType ==
    ASSUME TypeOK, NEW s \in Slots, Serving(s), Rejected(s),
           sent' = NULL \/ TrySend(fd[s], "INVALID")
    PROVE  TypeOK'
<1>1. fd[s] \in Conn
  BY DEF Serving, TypeOK, SlotType
<1>2. SentType'
  BY <1>1, TrySendType DEF SentType, Reply
<1>. QED BY <1>2, RejectedType

\* A new status, announced or lost, is well typed.
LEMMA AnnounceType ==
    ASSUME TypeOK, NEW s \in Slots, Serving(s), NEW st \in Status \ {"RESERVED_UNCONN"},
           NEW len \in {1, 2}, NEW proved \in SUBSET Conn, Announce(s, st, len, proved)
    PROVE  /\ LoopType' /\ NetType' /\ SentType'
           /\ fd' \in [Slots -> Conn \cup {NULL}] /\ status' \in [Slots -> Status]
<1>1. fd[s] \in Conn
  BY DEF Serving, TypeOK, SlotType
<1>2. status' \in [Slots -> Status]
  BY DEF Announce, TypeOK, SlotType
<1>3. CASE Send(fd[s], st, len) /\ NextMessage
           /\ UNCHANGED <<fd, backlog, open, pending, hup, stuck>>
           /\ authed' = authed \cup proved
  <2>1. SentType'
    BY <1>1, <1>3, SendType DEF Reply
  <2>2. LoopType'
    BY <1>3, NextMessageType DEF Serving, TypeOK
  <2>3. NetType'
    BY <1>3 DEF Serving, TypeOK, NetType
  <2>. QED BY <1>2, <1>3, <2>1, <2>2, <2>3 DEF TypeOK, SlotType
<1>4. CASE SendFails(fd[s]) /\ Drop(s)
  BY <1>2, <1>4, DropType DEF SendFails, SentType
<1>. QED BY <1>3, <1>4 DEF Announce

\* Every message handler keeps every type.
LEMMA HandleType == ASSUME TypeOK, NEW s \in Slots, Handle(s) PROVE TypeOK'
<1> USE DEF slotVars
<1>1. ASSUME NEW p \in Password, HandlePassword(s, p) PROVE TypeOK'
  <2>1. CASE status[s] = "PASSWORD_REQUIRED"
    <3> DEFINE st == PasswordStatus(s, p)
               proved == IF Accepted(p) THEN {fd[s]} ELSE {}
    <3>1. st \in Status \ {"RESERVED_UNCONN"}
      BY DEF PasswordStatus, NextStatus, Status
    <3>2. Serving(s) /\ Announce(s, st, 1, proved) /\ UNCHANGED <<ev_fd, named, devices>>
      BY <1>1, <2>1 DEF HandlePassword
    <3>3. proved \in SUBSET Conn
      BY <3>2 DEF Serving, TypeOK, SlotType
    <3>. HIDE DEF st, proved
    <3>. QED BY <3>1, <3>2, <3>3, AnnounceType DEF TypeOK, SlotType
  <2>2. CASE status[s] # "PASSWORD_REQUIRED"
    BY <1>1, <2>2, ConsumedType DEF HandlePassword
  <2>. QED BY <2>1, <2>2
<1>2. CASE HandleAbsinfo(s)
  BY <1>2, ConsumedType, RefusedType DEF HandleAbsinfo
<1>3. CASE HandleRequestEvent(s)
  BY <1>3, ConsumedType, RefusedType DEF HandleRequestEvent
<1>4. CASE HandleDevice(s)
  <2>1. CASE status[s] = "SETUP_REQUIRED"
    BY <1>4, <2>1, NextMessageType
    DEF HandleDevice, Serving, TypeOK, SlotType, NetType, SentType, netVars
  <2>2. CASE status[s] # "SETUP_REQUIRED"
    BY <1>4, <2>2, RefusedType DEF HandleDevice
  <2>. QED BY <2>1, <2>2
<1>5. CASE HandleSetupRequired(s)
  <2>1. CASE status[s] = "SUCCESS"
    BY <1>5, <2>1, AnnounceType DEF HandleSetupRequired, TypeOK, SlotType, Status
  <2>2. CASE status[s] # "SUCCESS"
    BY <1>5, <2>2, RefusedType DEF HandleSetupRequired
  <2>. QED BY <2>1, <2>2
<1>6. CASE HandleSetupEnd(s)
  <2>1. ASSUME status[s] = "SETUP_REQUIRED", NEW d \in Device \ devices,
               CreateDevice(s, d), Announce(s, "SUCCESS", 2, {}), UNCHANGED named
        PROVE  TypeOK'
    <3>1. ev_fd' \in [Slots -> Device \cup {NULL}] /\ devices' \subseteq Device
      BY <2>1 DEF CreateDevice, TypeOK, SlotType
    <3>2. Serving(s)
      BY <1>6 DEF HandleSetupEnd
    <3>. QED BY <2>1, <3>1, <3>2, AnnounceType DEF TypeOK, SlotType, Status
  <2>2. ASSUME Rejected(s), sent' = NULL \/ TrySend(fd[s], "INVALID") PROVE TypeOK'
    BY <1>6, <2>2, RefusedType DEF HandleSetupEnd
  <2>. QED BY <1>6, <2>1, <2>2 DEF HandleSetupEnd
<1>7. ASSUME NEW destroyed \in BOOLEAN, HandleQuit(s, destroyed) PROVE TypeOK'
  <2>1. Serving(s) /\ ClientClose(s, TRUE, destroyed) /\ EndOfClient /\ sent' = NULL
    BY <1>7 DEF HandleQuit
  <2>2. LoopType'
    BY <2>1, EndOfClientType DEF Serving, TypeOK
  <2>. QED BY <2>1, <2>2, ClientCloseType DEF Serving, TypeOK, SentType
<1>8. CASE HandleData(s)
  BY <1>8, ConsumedType, RefusedType DEF HandleData
<1>9. CASE HandleOther(s)
  BY <1>9, RefusedType DEF HandleOther
<1>10. CASE InvalidMessage(s)
  BY <1>10, EndOfClientType
  DEF InvalidMessage, Serving, TypeOK, SlotType, NetType, SentType
<1>. QED
  BY <1>1, <1>2, <1>3, <1>4, <1>5, <1>6, <1>7, <1>8, <1>9, <1>10 DEF Handle

\* The waiting queue.
LEMMA ServeEntryType == ASSUME TypeOK, NEW w \in Waits, ServeEntry(w) PROVE TypeOK'
<1> USE DEF slotVars, netVars
<1>1. CASE SkipWaiting(w)
  BY <1>1, NextWaitingType DEF SkipWaiting, AtWaiting, TypeOK, SlotType, NetType, SentType
<1>2. ASSUME ServeWaiting(w) PROVE LoopType' /\ waiting[w] \in Conn
  BY <1>2, NextWaitingType, NamesAssumption
  DEF ServeWaiting, AtWaiting, TypeOK, LoopType, NetType
<1>3. ASSUME ServeWaiting(w), DropWaiting(w) PROVE NetType'
  BY <1>2, <1>3, CloseFdType DEF DropWaiting, TypeOK, NetType
<1>4. ASSUME ServeWaiting(w), pending[waiting[w]] > 0, Consume(waiting[w])
      PROVE  pending' \in [Conn -> 0..MaxChunks]
  BY <1>2, <1>4, BoundsAssumption DEF Consume, TypeOK, NetType
<1>5. CASE WaitingRecvFails(w)
  BY <1>2, <1>3, <1>5 DEF WaitingRecvFails, TypeOK, SlotType, SentType
<1>6. CASE ShortHello(w)
  BY <1>2, <1>4, <1>6 DEF ShortHello, TypeOK, SlotType, NetType, SentType
<1>7. ASSUME NEW h \in Hello, RefuseHello(w, h) PROVE TypeOK'
  <2>1. Refusal(h) \in Reply
    BY <1>7 DEF RefuseHello, Refusal, Reply
  <2>2. SentType'
    BY <1>2, <1>7, <2>1, TrySendType DEF RefuseHello
  <2>. QED BY <1>2, <1>3, <1>7, <2>2 DEF RefuseHello, TypeOK, SlotType
<1>8. ASSUME NEW h \in Hello, NEW s \in Slots, NEW destroyed \in BOOLEAN,
             AcceptHello(w, h, s, destroyed)
      PROVE  TypeOK'
  <2>1. ev_fd' \in [Slots -> Device \cup {NULL}] /\ named' \subseteq Slots /\ devices' \subseteq Device
    BY <1>8, CleanupDeviceType DEF AcceptHello, TypeOK, SlotType
  <2>2. FirstStatus(ev_fd'[s]) \in Status \cap Reply
    BY DEF FirstStatus, NextStatus, Status, Reply
  <2>3. ASSUME Send(waiting[w], FirstStatus(ev_fd'[s]), 1), MoveToSlot(w, s),
               status' = [status EXCEPT ![s] = FirstStatus(ev_fd'[s])]
        PROVE  TypeOK'
    <3>1. SentType'
      BY <1>2, <1>8, <2>2, <2>3, SendType DEF AcceptHello
    <3>2. NetType'
      BY <1>2, <1>4, <1>8, <2>3 DEF AcceptHello, MoveToSlot, TypeOK, NetType
    <3>3. SlotType'
      BY <1>2, <1>8, <2>1, <2>2, <2>3 DEF AcceptHello, MoveToSlot, TypeOK, SlotType
    <3>. QED BY <1>2, <1>8, <3>1, <3>2, <3>3 DEF AcceptHello, TypeOK
  <2>4. ASSUME SendFails(waiting[w]), DropWaiting(w), UNCHANGED <<fd, status>>
        PROVE  TypeOK'
    BY <1>2, <1>3, <1>8, <2>1, <2>4 DEF AcceptHello, SendFails, TypeOK, SlotType, SentType
  <2>. QED BY <1>8, <2>3, <2>4 DEF AcceptHello
<1>. QED BY <1>1, <1>5, <1>6, <1>7, <1>8 DEF ServeEntry

\* The end of the process leaves everything empty, and well typed.
LEMMA ProcessEndsType == ASSUME TypeOK, NEW how \in Ended, ProcessEnds(how) PROVE TypeOK'
<1>1. LoopType'
  BY BoundsAssumption DEF ProcessEnds, TypeOK, LoopType, Ended
<1>2. SlotType'
  BY DEF ProcessEnds, SlotType, Status
<1>3. NetType'
  BY BoundsAssumption DEF ProcessEnds, NetType
<1>. QED BY <1>1, <1>2, <1>3 DEF ProcessEnds, SentType, TypeOK

\* Whatever the peers send and in whatever order the server's steps and
\* theirs interleave, every variable keeps its type (server/input-server.c).
THEOREM TypeCorrect == Spec => []TypeOK
<1>1. Init => TypeOK
  BY InitType
<1>2. TypeOK /\ [Next]_vars => TypeOK'
  <2> SUFFICES ASSUME TypeOK, [Next]_vars PROVE TypeOK'
    OBVIOUS
  <2>1. CASE Environment
    BY <2>1, EnvironmentType
  <2>2. ASSUME NEW s \in Slots, ServeSlot(s) PROVE TypeOK'
    BY <2>2, RecvType, HandleType, ProcessEndsType DEF ServeSlot, Crash, Ended
  <2>3. ASSUME NEW w \in Waits, ServeEntry(w) PROVE TypeOK'
    BY <2>3, ServeEntryType
  <2>4. CASE Exit
    BY <2>4, ProcessEndsType DEF Exit, Ended
  <2>5. CASE UNCHANGED vars
    BY <2>5 DEF vars, loopVars, slotVars, netVars, TypeOK, LoopType, SlotType, NetType, SentType
  <2>. QED
    BY <2>1, <2>2, <2>3, <2>4, <2>5, CoreLoopType DEF Next, Server, Terminated
<1>. QED BY <1>1, <1>2, PTL DEF Spec

-----------------------------------------------------------------------------
(* Who holds which descriptor.  Five things can happen to the tables and   *)
(* the sockets; each keeps OneOwner, and every step does one of them.      *)

TablesKept ==
    /\ UNCHANGED <<fd, waiting, open>>
    /\ \A c \in backlog' : c \in backlog \/ c \notin open

SlotClosed(s) ==
    /\ fd[s] # NULL /\ fd' = [fd EXCEPT ![s] = NULL]
    /\ open' = open \ {fd[s]} /\ UNCHANGED <<waiting, backlog>>

EntryClosed(w) ==
    /\ waiting[w] # NULL /\ waiting' = [waiting EXCEPT ![w] = NULL]
    /\ open' = open \ {waiting[w]} /\ UNCHANGED <<fd, backlog>>

EntryFilled(w, c) ==
    /\ waiting[w] = NULL /\ waiting' = [waiting EXCEPT ![w] = c]
    /\ c \in backlog /\ backlog' = backlog \ {c}
    /\ open' = open \cup {c} /\ UNCHANGED fd

EntryMoved(w, s) ==
    /\ waiting[w] # NULL /\ fd[s] = NULL
    /\ fd' = [fd EXCEPT ![s] = waiting[w]]
    /\ waiting' = [waiting EXCEPT ![w] = NULL]
    /\ UNCHANGED <<open, backlog>>

TableStep ==
    \/ TablesKept
    \/ \E s \in Slots : SlotClosed(s)
    \/ \E w \in Waits : EntryClosed(w)
    \/ \E w \in Waits, c \in Conn : EntryFilled(w, c)
    \/ \E w \in Waits, s \in Slots : EntryMoved(w, s)
    \/ \E how \in Ended : ProcessEnds(how)

\* A descriptor is held if some slot or some entry has it.
LEMMA HeldMembers ==
    ASSUME NEW c, c # NULL
    PROVE  c \in Held <=> (\E s \in Slots : fd[s] = c) \/ (\E w \in Waits : waiting[w] = c)
  BY DEF Held

\* Closing a slot's descriptor takes it from its one holder.
LEMMA SlotClosedOwner ==
    ASSUME SlotType, NetType, OneOwner, NEW s \in Slots, SlotClosed(s)
    PROVE  OneOwner'
<1> USE DEF SlotClosed, OneOwner, SlotType, NetType
<1>1. \A t \in Slots : fd'[t] = IF t = s THEN NULL ELSE fd[t]
  OBVIOUS
<1>2. \A t \in Slots : fd'[t] # NULL => fd'[t] = fd[t] /\ fd[t] # fd[s]
  BY <1>1
<1>3. Held' = Held \ {fd[s]}
  BY <1>1 DEF Held
<1>. QED BY <1>1, <1>3

\* Closing an entry's descriptor does, too.
LEMMA EntryClosedOwner ==
    ASSUME SlotType, NetType, OneOwner, NEW w \in Waits, EntryClosed(w)
    PROVE  OneOwner'
<1> USE DEF EntryClosed, OneOwner, SlotType, NetType
<1>1. \A v \in Waits : waiting'[v] = IF v = w THEN NULL ELSE waiting[v]
  OBVIOUS
<1>2. Held' = Held \ {waiting[w]}
  BY <1>1 DEF Held
<1>. QED BY <1>1, <1>2

\* A descriptor from the backlog is new to every holder.
LEMMA EntryFilledOwner ==
    ASSUME SlotType, NetType, OneOwner, NEW w \in Waits, NEW c \in Conn, EntryFilled(w, c)
    PROVE  OneOwner'
<1> USE DEF EntryFilled, OneOwner, SlotType, NetType
<1>1. \A v \in Waits : waiting'[v] = IF v = w THEN c ELSE waiting[v]
  OBVIOUS
<1>2. c # NULL /\ c \notin Held
  BY NamesAssumption
<1>3. (\A s \in Slots : fd[s] # c) /\ (\A v \in Waits : waiting[v] # c)
  BY <1>2 DEF Held
<1>4. Held' = Held \cup {c}
  BY <1>1, <1>2 DEF Held
<1>. QED BY <1>1, <1>3, <1>4

\* client_hello()'s move gives the descriptor to one holder and takes it from the other.
LEMMA EntryMovedOwner ==
    ASSUME SlotType, NetType, OneOwner, NEW w \in Waits, NEW s \in Slots, EntryMoved(w, s)
    PROVE  OneOwner'
<1> USE DEF EntryMoved, OneOwner, SlotType, NetType
<1>1. /\ \A v \in Waits : waiting'[v] = IF v = w THEN NULL ELSE waiting[v]
      /\ \A t \in Slots : fd'[t] = IF t = s THEN waiting[w] ELSE fd[t]
  OBVIOUS
<1>2. Held' = Held
  BY <1>1 DEF Held
<1>. QED BY <1>1, <1>2

\* Each kind of table step keeps OneOwner.
LEMMA TableStepOwner == ASSUME SlotType, NetType, OneOwner, TableStep PROVE OneOwner'
<1>1. CASE TablesKept
  BY <1>1 DEF TablesKept, OneOwner, Held
<1>2. ASSUME NEW how \in Ended, ProcessEnds(how) PROVE OneOwner'
  BY <1>2 DEF ProcessEnds, OneOwner, Held
<1>. QED
  BY <1>1, <1>2, SlotClosedOwner, EntryClosedOwner, EntryFilledOwner, EntryMovedOwner
  DEF TableStep

\* The error path of client_data() closes one slot's descriptor.
LEMMA DropTable ==
    ASSUME NEW s \in Slots, Serving(s), Drop(s)
    PROVE  SlotClosed(s)
  BY DEF Serving, Drop, CloseFd, SlotClosed

\* A handler leaves the tables alone or closes its own slot's descriptor.
LEMMA HandleTable == ASSUME NEW s \in Slots, Handle(s) PROVE TableStep
<1>1. ASSUME Serving(s), Rejected(s) PROVE TableStep
  BY <1>1, DropTable DEF Rejected, TableStep
<1>2. ASSUME Serving(s), Consumed PROVE TableStep
  BY <1>2 DEF Serving, Consumed, slotVars, netVars, TablesKept, TableStep
<1>3. ASSUME Serving(s), NEW st, NEW len, NEW proved, Announce(s, st, len, proved)
      PROVE  TableStep
  BY <1>3, DropTable DEF Announce, Serving, TablesKept, TableStep
<1>4. ASSUME NEW p \in Password, HandlePassword(s, p) PROVE TableStep
  BY <1>2, <1>3, <1>4 DEF HandlePassword
<1>5. CASE HandleAbsinfo(s)
  BY <1>1, <1>2, <1>5 DEF HandleAbsinfo
<1>6. CASE HandleRequestEvent(s)
  BY <1>1, <1>2, <1>6 DEF HandleRequestEvent
<1>7. CASE HandleDevice(s)
  BY <1>1, <1>7 DEF HandleDevice, Serving, netVars, TablesKept, TableStep
<1>8. CASE HandleSetupRequired(s)
  BY <1>1, <1>3, <1>8 DEF HandleSetupRequired
<1>9. CASE HandleSetupEnd(s)
  BY <1>1, <1>3, <1>9 DEF HandleSetupEnd
<1>10. ASSUME NEW destroyed \in BOOLEAN, HandleQuit(s, destroyed) PROVE TableStep
  BY <1>10 DEF HandleQuit, Serving, ClientClose, CloseFd, SlotClosed, TableStep
<1>11. CASE HandleData(s)
  BY <1>1, <1>2, <1>11 DEF HandleData
<1>12. CASE HandleOther(s)
  BY <1>1, <1>12 DEF HandleOther
<1>13. CASE InvalidMessage(s)
  BY <1>13 DEF InvalidMessage, Serving, slotVars, TablesKept, TableStep
<1>. QED
  BY <1>4, <1>5, <1>6, <1>7, <1>8, <1>9, <1>10, <1>11, <1>12, <1>13 DEF Handle

\* So does whatever else the loop does at a slot.
LEMMA ServeSlotTable ==
    ASSUME TypeOK, NEW s \in Slots, ServeSlot(s)
    PROVE  TableStep
<1> USE DEF slotVars, netVars, TablesKept, TableStep
<1>1. CASE SkipSlot(s)
  BY <1>1 DEF SkipSlot
<1>2. CASE VisitFreeSlot(s)
  BY <1>2 DEF VisitFreeSlot
<1>3. CASE RecvFails(s)
  <2>1. fd[s] # NULL
    BY <1>3, NamesAssumption DEF RecvFails, TypeOK, LoopType
  <2>. QED BY <1>3, <2>1 DEF RecvFails, ClientClose, CloseFd, SlotClosed
<1>4. ASSUME NEW n \in 0..MaxBatch, RecvData(s, n) PROVE TableStep
  BY <1>4 DEF RecvData
<1>. QED
  BY <1>1, <1>2, <1>3, <1>4, HandleTable DEF ServeSlot, Crash, Ended

\* The slot a client is let into is idle.
LEMMA ChosenIdle ==
    ASSUME NEW h \in Hello, NEW s \in Slots, Refusal(h) = "none", Chosen(h, s)
    PROVE  ~InUse(s)
<1>1. CASE h.slot = 0
  BY <1>1 DEF Chosen, First, Idle, Deviceless
<1>2. CASE h.slot # 0
  <2>1. h.slot = s
    BY <1>2 DEF Chosen
  <2>2. h.hello /\ h.version = PROTOCOL_VERSION
    BY DEF Refusal
  <2>3. ~(s > MAX_CLIENTS) /\ s \in Slots
    BY SlotsAssumption DEF Slots
  <2>. QED BY <1>2, <2>1, <2>2, <2>3 DEF Refusal
<1>. QED BY <1>1, <1>2

\* The loop at a waiting entry closes it, moves it or leaves it.
LEMMA ServeEntryTable ==
    ASSUME TypeOK, NEW w \in Waits, ServeEntry(w)
    PROVE  TableStep
<1> USE DEF slotVars, netVars, TablesKept, TableStep
<1>1. CASE SkipWaiting(w)
  BY <1>1 DEF SkipWaiting
<1>2. ASSUME ServeWaiting(w) PROVE waiting[w] # NULL
  BY <1>2, NamesAssumption DEF ServeWaiting, TypeOK, LoopType
<1>3. ASSUME ServeWaiting(w), DropWaiting(w), UNCHANGED fd PROVE TableStep
  BY <1>2, <1>3 DEF DropWaiting, CloseFd, EntryClosed
<1>4. CASE WaitingRecvFails(w)
  BY <1>3, <1>4 DEF WaitingRecvFails
<1>5. CASE ShortHello(w)
  BY <1>5 DEF ShortHello
<1>6. ASSUME NEW h \in Hello, RefuseHello(w, h) PROVE TableStep
  BY <1>3, <1>6 DEF RefuseHello
<1>7. ASSUME NEW h \in Hello, NEW s \in Slots, NEW destroyed \in BOOLEAN,
             AcceptHello(w, h, s, destroyed)
      PROVE  TableStep
  <2>1. fd[s] = NULL
    BY <1>7, ChosenIdle DEF AcceptHello, InUse
  <2>. QED
    BY <1>2, <1>3, <1>7, <2>1 DEF AcceptHello, MoveToSlot, EntryMoved
<1>. QED BY <1>1, <1>4, <1>5, <1>6, <1>7 DEF ServeEntry

\* Every step of the server is a table step.
LEMMA StepTable == ASSUME TypeOK, [Next]_vars PROVE TableStep
<1> USE DEF slotVars, netVars, TablesKept, TableStep
<1>1. CASE Environment
  BY <1>1 DEF Environment, Connect, PeerSend, PeerClose, Interrupt
<1>2. CASE LoopTop \/ Select \/ AcceptNothing
  BY <1>2 DEF LoopTop, Select, AcceptNothing, ToSlots
<1>3. ASSUME NEW c \in Conn, Accept(c) PROVE TableStep
  BY <1>3 DEF Accept, ToSlots, First, EntryFilled
<1>4. ASSUME NEW c \in Conn, TurnAway(c) PROVE TableStep
  BY <1>4 DEF TurnAway, ToSlots
<1>5. CASE Exit
  BY <1>5 DEF Exit, Ended
<1>6. CASE UNCHANGED vars
  BY <1>6 DEF vars
<1>. QED
  BY <1>1, <1>2, <1>3, <1>4, <1>5, <1>6, ServeSlotTable, ServeEntryTable
  DEF Next, Server, Terminated

\* No descriptor is ever held twice or lost: client_hello's hand-over from the
\* queue to a slot and every error path of the handlers keep the tables and
\* the open sockets in step.
THEOREM DescriptorsOwned == Spec => []OneOwner
<1>1. Init => OneOwner
  BY DEF Init, OneOwner, Held
<1>2. TypeOK /\ OneOwner /\ [Next]_vars => OneOwner'
  BY StepTable, TableStepOwner DEF TypeOK
<1>. QED BY <1>1, <1>2, TypeCorrect, PTL DEF Spec

-----------------------------------------------------------------------------
(* The devices.  A step leaves them alone, destroys a slot's, or gives a   *)
(* slot one that did not exist; each keeps the first half of SlotDevices.  *)

DevicesOwned ==
    \A s \in Slots : ev_fd[s] # NULL =>
        /\ ev_fd[s] \in devices
        /\ \A t \in Slots : ev_fd[s] = ev_fd[t] => s = t

LiveHasDevice == \A s \in Slots : InUse(s) /\ status[s] = "SUCCESS" => ev_fd[s] # NULL

DeviceDestroyed(s) ==
    /\ ev_fd[s] # NULL /\ ev_fd' = [ev_fd EXCEPT ![s] = NULL]
    /\ devices' = devices \ {ev_fd[s]}

DeviceStep ==
    \/ UNCHANGED <<ev_fd, devices>>
    \/ \E s \in Slots : DeviceDestroyed(s)
    \/ \E s \in Slots : \E d \in Device \ devices : CreateDevice(s, d)
    \/ \E how \in Ended : ProcessEnds(how)

\* Each kind of device step keeps every device with one slot.
LEMMA DeviceStepOwned ==
    ASSUME SlotType, DevicesOwned, DeviceStep
    PROVE  DevicesOwned'
<1> USE DEF DevicesOwned, SlotType
<1>1. CASE UNCHANGED <<ev_fd, devices>>
  BY <1>1
<1>2. ASSUME NEW s \in Slots, DeviceDestroyed(s) PROVE DevicesOwned'
  <2>1. \A t \in Slots : ev_fd'[t] = IF t = s THEN NULL ELSE ev_fd[t]
    BY <1>2 DEF DeviceDestroyed
  <2>. QED BY <1>2, <2>1 DEF DeviceDestroyed
<1>3. ASSUME NEW s \in Slots, NEW d \in Device \ devices, CreateDevice(s, d)
      PROVE  DevicesOwned'
  <2>1. \A t \in Slots : ev_fd'[t] = IF t = s THEN d ELSE ev_fd[t]
    BY <1>3 DEF CreateDevice
  <2>. QED BY <1>3, <2>1 DEF CreateDevice
<1>4. ASSUME NEW how \in Ended, ProcessEnds(how) PROVE DevicesOwned'
  BY <1>4 DEF ProcessEnds
<1>. QED BY <1>1, <1>2, <1>3, <1>4 DEF DeviceStep

\* cleanup_device() is a device step.
LEMMA CleanupDeviceStep ==
    ASSUME NEW s \in Slots, NEW ok, CleanupDevice(s, ok)
    PROVE  /\ DeviceStep
           /\ ev_fd' = ev_fd \/ ev_fd' = [ev_fd EXCEPT ![s] = NULL]
  BY DEF CleanupDevice, DeviceStep, DeviceDestroyed

\* Every step of the server is a device step.
LEMMA StepDevices == ASSUME TypeOK, [Next]_vars PROVE DeviceStep
<1> USE DEF slotVars
<1>1. CASE Environment
  BY <1>1 DEF Environment, Connect, PeerSend, PeerClose, Interrupt, DeviceStep
<1>2. ASSUME LoopTop \/ Select \/ AcceptNothing \/ \E c \in Conn : Accept(c) \/ TurnAway(c)
      PROVE  DeviceStep
  BY <1>2 DEF LoopTop, Select, AcceptNothing, Accept, TurnAway, ToSlots, DeviceStep
<1>3. ASSUME NEW s \in Slots, ServeSlot(s) PROVE DeviceStep
  <2>1. ASSUME Rejected(s) \/ Consumed PROVE DeviceStep
    BY <2>1 DEF Rejected, Consumed, DeviceStep
  <2>2. CASE SkipSlot(s) \/ VisitFreeSlot(s) \/ \E n \in 0..MaxBatch : RecvData(s, n)
    BY <2>2 DEF SkipSlot, VisitFreeSlot, RecvData, DeviceStep
  <2>3. CASE RecvFails(s) \/ \E destroyed \in BOOLEAN : HandleQuit(s, destroyed)
    BY <2>3, CleanupDeviceStep DEF RecvFails, HandleQuit, ClientClose
  <2>4. ASSUME NEW p \in Password, HandlePassword(s, p) PROVE DeviceStep
    BY <2>1, <2>4 DEF HandlePassword, DeviceStep
  <2>5. CASE HandleAbsinfo(s) \/ HandleRequestEvent(s) \/ HandleData(s) \/ HandleOther(s)
    BY <2>1, <2>5 DEF HandleAbsinfo, HandleRequestEvent, HandleData, HandleOther
  <2>6. CASE HandleDevice(s) \/ HandleSetupRequired(s) \/ InvalidMessage(s)
    BY <2>1, <2>6 DEF HandleDevice, HandleSetupRequired, InvalidMessage, DeviceStep
  <2>7. CASE HandleSetupEnd(s)
    BY <2>1, <2>7 DEF HandleSetupEnd, DeviceStep
  <2>8. CASE Crash(s)
    BY <2>8 DEF Crash, DeviceStep, Ended
  <2>. QED
    BY <1>3, <2>2, <2>3, <2>4, <2>5, <2>6, <2>7, <2>8 DEF ServeSlot, Handle
<1>4. ASSUME NEW w \in Waits, ServeEntry(w) PROVE DeviceStep
  <2>1. CASE SkipWaiting(w) \/ WaitingRecvFails(w) \/ ShortHello(w)
             \/ \E h \in Hello : RefuseHello(w, h)
    BY <2>1 DEF SkipWaiting, WaitingRecvFails, ShortHello, RefuseHello, DeviceStep
  <2>2. ASSUME NEW h \in Hello, NEW s \in Slots, NEW destroyed \in BOOLEAN,
               AcceptHello(w, h, s, destroyed)
        PROVE  DeviceStep
    BY <2>2, CleanupDeviceStep DEF AcceptHello, DeviceStep
  <2>. QED BY <1>4, <2>1, <2>2 DEF ServeEntry
<1>5. CASE Exit
  BY <1>5 DEF Exit, DeviceStep, Ended
<1>6. CASE UNCHANGED vars
  BY <1>6 DEF vars, DeviceStep
<1>. QED BY <1>1, <1>2, <1>3, <1>4, <1>5, <1>6 DEF Next, Server, Terminated

-----------------------------------------------------------------------------
(* What a client may do.  A step spares a slot or leaves it in good        *)
(* standing: without a client, or with one whose status it is entitled to. *)

Spared(t) ==
    /\ fd'[t] = fd[t] /\ status'[t] = status[t]
    /\ ev_fd'[t] = ev_fd[t]
    /\ fd[t] # NULL /\ fd[t] \in authed => fd[t] \in authed'

GoodStanding(t) ==
    fd'[t] # NULL =>
        /\ status'[t] = "SUCCESS" => ev_fd'[t] # NULL
        /\ PasswordSet /\ status'[t] \in {"SETUP_REQUIRED", "SUCCESS"} => fd'[t] \in authed'

Standing == \A t \in Slots : Spared(t) \/ GoodStanding(t)

\* A slot that keeps client, status and device keeps its client's standing.
LEMMA StandingKept ==
    ASSUME LiveHasDevice, Authenticated, Standing
    PROVE  LiveHasDevice' /\ Authenticated'
  BY DEF LiveHasDevice, Authenticated, Standing, Spared, GoodStanding, InUse

\* Closing the connection of one slot spares the others.
LEMMA ClosedStanding ==
    ASSUME SlotType, OneOwner, NEW s \in Slots, fd[s] # NULL, CloseFd(fd[s]),
           fd' = [fd EXCEPT ![s] = NULL],
           \A t \in Slots : t # s => status'[t] = status[t] /\ ev_fd'[t] = ev_fd[t]
    PROVE  Standing
<1>1. \A t \in Slots : fd'[t] = IF t = s THEN NULL ELSE fd[t]
  BY DEF SlotType
<1>2. \A t \in Slots : t # s /\ fd[t] # NULL => fd[t] # fd[s]
  BY DEF OneOwner
<1>. QED BY <1>1, <1>2 DEF CloseFd, Standing, Spared, GoodStanding

\* A handler's error takes a client away and gives no rights.
LEMMA RejectedStanding ==
    ASSUME TypeOK, OneOwner, NEW s \in Slots, Serving(s), Rejected(s)
    PROVE  Standing
  BY ClosedStanding DEF Serving, Rejected, Drop, TypeOK

\* A step that touches no slot keeps every client's standing.
LEMMA UntouchedStanding ==
    ASSUME UNCHANGED <<fd, status, ev_fd, authed>>
    PROVE  Standing
  BY DEF Standing, Spared

\* A new status is announced to whoever is entitled to it.
LEMMA AnnounceStanding ==
    ASSUME TypeOK, OneOwner, NEW s \in Slots, Serving(s), NEW st \in Status, NEW len,
           NEW proved \in SUBSET Conn, Announce(s, st, len, proved),
           \A t \in Slots : t # s => ev_fd'[t] = ev_fd[t],
           st = "SUCCESS" => ev_fd'[s] # NULL,
           PasswordSet /\ st \in {"SETUP_REQUIRED", "SUCCESS"} => fd[s] \in authed \cup proved
    PROVE  Standing
<1>1. /\ status'[s] = st
      /\ \A t \in Slots : t # s => status'[t] = status[t]
  BY DEF Announce, TypeOK, SlotType
<1>2. CASE /\ UNCHANGED fd
           /\ authed' = authed \cup proved
  <2>1. GoodStanding(s)
    BY <1>1, <1>2 DEF GoodStanding
  <2>2. \A t \in Slots : t # s => Spared(t)
    BY <1>1, <1>2 DEF Spared
  <2>. QED BY <2>1, <2>2 DEF Standing
<1>3. CASE Drop(s)
  BY <1>1, <1>3, ClosedStanding DEF Drop, Serving, TypeOK
<1>. QED BY <1>2, <1>3 DEF Announce

\* No message gives a client more than it has shown it may have.
LEMMA HandleStanding ==
    ASSUME TypeOK, OneOwner, LiveHasDevice, Authenticated, NEW s \in Slots, Handle(s)
    PROVE  Standing
<1> USE DEF slotVars, netVars
<1>1. ASSUME Serving(s), Consumed PROVE Standing
  BY <1>1, UntouchedStanding DEF Consumed
<1>2. ASSUME NEW p \in Password, HandlePassword(s, p) PROVE Standing
  <2>1. CASE status[s] = "PASSWORD_REQUIRED"
    <3> DEFINE st == PasswordStatus(s, p)
               proved == IF Accepted(p) THEN {fd[s]} ELSE {}
    <3>1. Serving(s) /\ Announce(s, st, 1, proved) /\ UNCHANGED <<ev_fd, named, devices>>
      BY <1>2, <2>1 DEF HandlePassword
    <3>2. st \in Status /\ proved \in SUBSET Conn
      BY <3>1 DEF PasswordStatus, NextStatus, Status, Serving, TypeOK, SlotType
    <3>3. st = "SUCCESS" => ev_fd[s] # NULL
      BY DEF PasswordStatus, NextStatus
    <3>4. st \in {"SETUP_REQUIRED", "SUCCESS"} => fd[s] \in proved
      BY DEF PasswordStatus
    <3>. HIDE DEF st, proved
    <3>. QED BY <3>1, <3>2, <3>3, <3>4, AnnounceStanding
  <2>2. CASE status[s] # "PASSWORD_REQUIRED"
    BY <1>1, <1>2, <2>2 DEF HandlePassword
  <2>. QED BY <2>1, <2>2
<1>3. ASSUME HandleAbsinfo(s) \/ HandleRequestEvent(s) \/ HandleData(s) \/ HandleOther(s)
      PROVE  Standing
  BY <1>1, <1>3, RejectedStanding
  DEF HandleAbsinfo, HandleRequestEvent, HandleData, HandleOther
<1>4. CASE HandleDevice(s)
  BY <1>4, RejectedStanding, UntouchedStanding DEF HandleDevice
<1>5. CASE HandleSetupRequired(s)
  <2>1. CASE status[s] = "SUCCESS"
    <3>1. Serving(s) /\ Announce(s, "SETUP_REQUIRED", 1, {}) /\ UNCHANGED ev_fd
      BY <1>5, <2>1 DEF HandleSetupRequired
    <3>2. PasswordSet => fd[s] \in authed
      BY <2>1, <3>1 DEF Authenticated, InUse, Serving
    <3>. QED BY <3>1, <3>2, AnnounceStanding DEF Status
  <2>2. CASE status[s] # "SUCCESS"
    BY <1>5, <2>2, RejectedStanding DEF HandleSetupRequired
  <2>. QED BY <2>1, <2>2
<1>6. CASE HandleSetupEnd(s)
  <2>1. ASSUME status[s] = "SETUP_REQUIRED", NEW d \in Device \ devices,
               CreateDevice(s, d), Announce(s, "SUCCESS", 2, {})
        PROVE  Standing
    <3>1. Serving(s)
      BY <1>6 DEF HandleSetupEnd
    <3>2. ev_fd'[s] # NULL /\ \A t \in Slots : t # s => ev_fd'[t] = ev_fd[t]
      BY <2>1, NamesAssumption DEF CreateDevice, TypeOK, SlotType
    <3>3. PasswordSet => fd[s] \in authed
      BY <2>1, <3>1 DEF Authenticated, InUse, Serving
    <3>. QED BY <2>1, <3>1, <3>2, <3>3, AnnounceStanding DEF Status
  <2>. QED BY <1>6, <2>1, RejectedStanding DEF HandleSetupEnd
<1>7. ASSUME NEW destroyed \in BOOLEAN, HandleQuit(s, destroyed) PROVE Standing
  <2>1. ev_fd' = ev_fd \/ ev_fd' = [ev_fd EXCEPT ![s] = NULL]
    BY <1>7, CleanupDeviceStep DEF HandleQuit, ClientClose
  <2>. QED
    BY <1>7, <2>1, ClosedStanding DEF HandleQuit, ClientClose, Serving, TypeOK, SlotType
<1>8. CASE InvalidMessage(s)
  BY <1>8, UntouchedStanding DEF InvalidMessage
<1>. QED
  BY <1>2, <1>3, <1>4, <1>5, <1>6, <1>7, <1>8 DEF Handle

\* An ended process has no clients.
LEMMA EndedStanding == ASSUME NEW how \in Ended, ProcessEnds(how) PROVE Standing
  BY DEF ProcessEnds, Standing, GoodStanding

\* Nothing the loop does at a slot gives a client rights,
LEMMA ServeSlotStanding ==
    ASSUME TypeOK, OneOwner, LiveHasDevice, Authenticated, NEW s \in Slots, ServeSlot(s)
    PROVE  Standing
<1> USE DEF slotVars, netVars
<1>1. CASE SkipSlot(s) \/ \E n \in 0..MaxBatch : RecvData(s, n)
  BY <1>1, UntouchedStanding DEF SkipSlot, RecvData
<1>2. CASE VisitFreeSlot(s)
  <2>1. GoodStanding(s) /\ \A t \in Slots : t # s => Spared(t)
    BY <1>2 DEF VisitFreeSlot, GoodStanding, Spared, TypeOK, SlotType
  <2>. QED BY <2>1 DEF Standing
<1>3. CASE RecvFails(s)
  <2>1. fd[s] # NULL
    BY <1>3, NamesAssumption DEF RecvFails, TypeOK, LoopType
  <2>2. ev_fd' = ev_fd \/ ev_fd' = [ev_fd EXCEPT ![s] = NULL]
    BY <1>3, CleanupDeviceStep DEF RecvFails, ClientClose
  <2>. QED
    BY <1>3, <2>1, <2>2, ClosedStanding DEF RecvFails, ClientClose, TypeOK, SlotType
<1>. QED
  BY <1>1, <1>2, <1>3, HandleStanding, EndedStanding DEF ServeSlot, Crash, Ended

\* and a HELLO gives only what needs no password, or asks for it.
LEMMA ServeEntryStanding ==
    ASSUME TypeOK, OneOwner, NEW w \in Waits, ServeEntry(w)
    PROVE  Standing
<1> USE DEF slotVars, netVars
<1>1. CASE SkipWaiting(w) \/ ShortHello(w)
  BY <1>1, UntouchedStanding DEF SkipWaiting, ShortHello
<1>2. ASSUME ServeWaiting(w), DropWaiting(w), UNCHANGED <<fd, status>>,
             \A t \in Slots : ev_fd'[t] = ev_fd[t] \/ fd[t] = NULL
      PROVE  Standing
  <2>1. waiting[w] # NULL
    BY <1>2, NamesAssumption DEF ServeWaiting, TypeOK, LoopType
  <2>2. \A t \in Slots : fd[t] # NULL => fd[t] # waiting[w]
    BY <2>1 DEF OneOwner
  <2>3. \A t \in Slots : Spared(t) \/ GoodStanding(t)
    BY <1>2, <2>2 DEF DropWaiting, CloseFd, Spared, GoodStanding
  <2>. QED BY <2>3 DEF Standing
<1>3. CASE WaitingRecvFails(w) \/ \E h \in Hello : RefuseHello(w, h)
  BY <1>2, <1>3 DEF WaitingRecvFails, RefuseHello
<1>4. ASSUME NEW h \in Hello, NEW s \in Slots, NEW destroyed \in BOOLEAN,
             AcceptHello(w, h, s, destroyed)
      PROVE  Standing
  <2>1. fd[s] = NULL
    BY <1>4, ChosenIdle DEF AcceptHello, InUse
  <2>2. ev_fd' = ev_fd \/ ev_fd' = [ev_fd EXCEPT ![s] = NULL]
    BY <1>4, CleanupDeviceStep DEF AcceptHello
  <2>3. \A t \in Slots : t # s => ev_fd'[t] = ev_fd[t]
    BY <2>2 DEF TypeOK, SlotType
  <2>4. CASE MoveToSlot(w, s) /\ status' = [status EXCEPT ![s] = FirstStatus(ev_fd'[s])]
    <3>1. /\ status'[s] = FirstStatus(ev_fd'[s])
          /\ \A t \in Slots : t # s => fd'[t] = fd[t] /\ status'[t] = status[t]
          /\ authed' = authed
      BY <2>4 DEF MoveToSlot, TypeOK, SlotType
    <3>2. GoodStanding(s)
      BY <3>1 DEF GoodStanding, FirstStatus, NextStatus
    <3>3. \A t \in Slots : t # s => Spared(t)
      BY <2>3, <3>1 DEF Spared
    <3>. QED BY <3>2, <3>3 DEF Standing
  <2>5. CASE DropWaiting(w) /\ UNCHANGED <<fd, status>>
    BY <1>2, <1>4, <2>1, <2>3, <2>5 DEF AcceptHello
  <2>. QED BY <1>4, <2>4, <2>5 DEF AcceptHello
<1>. QED BY <1>1, <1>3, <1>4 DEF ServeEntry

\* Every step keeps every client's standing.
LEMMA StepStanding ==
    ASSUME TypeOK, OneOwner, LiveHasDevice, Authenticated, [Next]_vars
    PROVE  Standing
<1> USE DEF slotVars, netVars
<1>1. CASE Environment
  BY <1>1, UntouchedStanding DEF Environment, Connect, PeerSend, PeerClose, Interrupt
<1>2. ASSUME LoopTop \/ Select \/ AcceptNothing \/ \E c \in Conn : Accept(c) \/ TurnAway(c)
      PROVE  Standing
  BY <1>2, UntouchedStanding DEF LoopTop, Select, AcceptNothing, Accept, TurnAway, ToSlots
<1>3. CASE Exit
  BY <1>3, EndedStanding DEF Exit, Ended
<1>4. CASE UNCHANGED vars
  BY <1>4, UntouchedStanding DEF vars
<1>. QED
  BY <1>1, <1>2, <1>3, <1>4, ServeSlotStanding, ServeEntryStanding DEF Next, Server, Terminated

\* The inductive invariant: authentication and the devices of live clients
\* depend on no two slots sharing a connection, or closing one would take the
\* other's rights and data with it.
IInv == TypeOK /\ OneOwner /\ DevicesOwned /\ LiveHasDevice /\ Authenticated

\* The invariant behind the next two theorems: types, one owner per descriptor
\* and per device, a device for each live client, and authenticated clients.
THEOREM Inductive == Spec => []IInv
<1>1. Init => IInv
  <2> SUFFICES ASSUME Init PROVE IInv
    OBVIOUS
  <2>1. OneOwner
    BY DEF Init, OneOwner, Held
  <2>2. DevicesOwned
    BY DEF Init, DevicesOwned
  <2>3. LiveHasDevice /\ Authenticated
    BY DEF Init, LiveHasDevice, Authenticated, InUse
  <2>. QED BY <2>1, <2>2, <2>3, InitType DEF IInv
<1>2. TypeOK /\ TypeOK' /\ IInv /\ [Next]_vars => IInv'
  <2> SUFFICES ASSUME TypeOK', IInv, [Next]_vars PROVE IInv'
    OBVIOUS
  <2>1. OneOwner'
    BY StepTable, TableStepOwner DEF IInv, TypeOK
  <2>2. DevicesOwned'
    BY StepDevices, DeviceStepOwned DEF IInv, TypeOK
  <2>3. LiveHasDevice' /\ Authenticated'
    BY StepStanding, StandingKept DEF IInv
  <2>. QED BY <2>1, <2>2, <2>3 DEF IInv
<1>. QED BY <1>1, <1>2, TypeCorrect, PTL DEF Spec

\* handle_data() writes to ev_fd without looking at it: every live client's
\* slot has a device, one that exists and that no other slot writes to.
THEOREM DevicesSafe == Spec => []SlotDevices
<1>1. IInv => SlotDevices
  BY DEF IInv, DevicesOwned, LiveHasDevice, SlotDevices
<1>. QED BY <1>1, Inductive, PTL

\* With a password set, only a connection on which handle_password() accepted
\* a PASSWORD sets up a device or sends events, whatever state its slot was
\* left in by earlier clients.  (Accepted says what it accepts.)
THEOREM AuthenticationSafe == Spec => []Authenticated
<1>1. IInv => Authenticated
  BY DEF IInv
<1>. QED BY <1>1, Inductive, PTL
=============================================================================
