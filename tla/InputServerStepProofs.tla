----------------------- MODULE InputServerStepProofs -----------------------
(***************************************************************************)
(* What a step of InputServer may never do: call recv() where nothing is   *)
(* to be read, change a client's status without telling it, or take a      *)
(* device from a slot behind its client's back; and that each step is one  *)
(* that SlotService allows.                                                *)
(***************************************************************************)
EXTENDS InputServerProofs

-----------------------------------------------------------------------------
(* One round of the core loop reads only what select() reported.  The      *)
(* argument: from select() on, whoever has its turn still to come is       *)
(* either not in readfds or has something to read, because a step serves   *)
(* one descriptor, and (OneOwner) nobody else holds that one.              *)

\* The slots and the waiting entries this round has still to look at.
UnreadSlots == CASE pc = "accept" -> Slots
                 [] pc = "slots"  -> {t \in Slots : t >= u}
                 [] pc = "data"   -> {t \in Slots : t > u}
                 [] OTHER         -> {}
UnreadWaits == CASE pc \in {"accept", "slots", "data"} -> Waits
                 [] pc = "waiting" -> {w \in Waits : w >= u}
                 [] OTHER          -> {}

Answers(c) == c = NULL \/ c \notin readfds \/ pending[c] > 0 \/ c \in hup

Unread ==
    /\ \A t \in UnreadSlots : Answers(fd[t])
    /\ \A w \in UnreadWaits : Answers(waiting[w])

\* Before the round begins, readfds holds no connection still to be accepted.
Reported ==
    /\ pc = "select" => readfds \subseteq open \cup {listen_fd}
    /\ pc = "accept" => readfds \cap backlog = {}

\* A step that serves x: the rest of the round is left as it was.
Served(x) ==
    /\ pc' \notin {"select", "accept"}
    /\ readfds' \subseteq readfds
    /\ \A t \in UnreadSlots' : t \in UnreadSlots /\ fd'[t] = fd[t] /\ (fd[t] = NULL \/ fd[t] # x)
    /\ \A w \in UnreadWaits' : /\ w \in UnreadWaits /\ waiting'[w] = waiting[w]
                               /\ waiting[w] = NULL \/ waiting[w] # x
    /\ \A c \in Conn : c # x => pending'[c] = pending[c] /\ (c \in hup => c \in hup')

\* Serving one descriptor keeps an answer waiting for everyone else.
LEMMA ServedUnread ==
    ASSUME TypeOK, Unread, NEW x, Served(x)
    PROVE  Unread' /\ Reported'
<1>1. Reported'
  BY DEF Served, Reported
<1>2. \A c \in Conn \cup {NULL} : Answers(c) /\ (c = NULL \/ c # x) => Answers(c)'
  BY DEF Served, Answers
<1>3. ASSUME NEW t \in UnreadSlots' PROVE Answers(fd[t])'
  <2>1. t \in UnreadSlots /\ fd'[t] = fd[t] /\ (fd[t] = NULL \/ fd[t] # x)
    BY <1>3 DEF Served
  <2>2. t \in Slots
    BY <2>1 DEF UnreadSlots
  <2>3. fd[t] \in Conn \cup {NULL} /\ Answers(fd[t])
    BY <2>1, <2>2 DEF Unread, TypeOK, SlotType
  <2>. QED BY <1>2, <2>1, <2>3 DEF Answers
<1>4. ASSUME NEW w \in UnreadWaits' PROVE Answers(waiting[w])'
  <2>1. w \in UnreadWaits /\ waiting'[w] = waiting[w] /\ (waiting[w] = NULL \/ waiting[w] # x)
    BY <1>4 DEF Served
  <2>2. w \in Waits
    BY <2>1 DEF UnreadWaits
  <2>3. waiting[w] \in Conn \cup {NULL} /\ Answers(waiting[w])
    BY <2>1, <2>2 DEF Unread, TypeOK, NetType
  <2>. QED BY <1>2, <2>1, <2>3 DEF Answers
<1>. QED BY <1>1, <1>3, <1>4 DEF Unread

-----------------------------------------------------------------------------
(* The loop over the slots.                                                *)

\* While slot s has its turn: either it keeps it, or the next slot, or the
\* waiting entries, are next.
TurnTaken == NextSlot \/ (pc' = "data" /\ u' = u)

\* Whatever is done to slot s and its connection serves that connection only.
LEMMA SlotServed ==
    ASSUME TypeOK, OneOwner, NEW s \in Slots, pc \in {"slots", "data"}, u = s, TurnTaken,
           fd' = fd \/ fd' = [fd EXCEPT ![s] = NULL],
           UNCHANGED <<waiting, readfds>>,
           \A c \in Conn : c # fd[s] => pending'[c] = pending[c] /\ (c \in hup => c \in hup')
    PROVE  Served(fd[s])
<1>1. /\ pc' \in {"slots", "data", "waiting"}
      /\ UnreadSlots' \subseteq {t \in Slots : t > s}
      /\ UnreadWaits' \subseteq Waits
  <2>1. s \in Nat /\ \A t \in Slots : t \in Nat
    BY SlotsAssumption DEF Slots
  <2>2. CASE NextSlot
    BY <2>1, <2>2 DEF NextSlot, UnreadSlots, UnreadWaits, Slots
  <2>3. CASE pc' = "data" /\ u' = u
    BY <2>1, <2>3 DEF UnreadSlots, UnreadWaits, Slots
  <2>. QED BY <2>2, <2>3 DEF TurnTaken
<1>2. \A t \in Slots : t > s => t \in UnreadSlots /\ t # s
  BY SlotsAssumption DEF UnreadSlots, Slots
<1>3. UnreadWaits = Waits
  BY DEF UnreadWaits
<1>4. \A t \in Slots : t # s => fd'[t] = fd[t] /\ (fd[t] = NULL \/ fd[t] # fd[s])
  BY DEF OneOwner, TypeOK, SlotType
<1>5. \A w \in Waits : waiting'[w] = waiting[w] /\ (waiting[w] = NULL \/ waiting[w] # fd[s])
  BY DEF OneOwner
<1>. QED BY <1>1, <1>2, <1>3, <1>4, <1>5 DEF Served

\* Every handler serves the client it runs for.
LEMMA HandleServed ==
    ASSUME TypeOK, OneOwner, NEW s \in Slots, Handle(s)
    PROVE  Served(fd[s])
<1> DEFINE Others == \A c \in Conn : c # fd[s] => pending'[c] = pending[c] /\ (c \in hup => c \in hup')
           Turn == TurnTaken /\ (fd' = fd \/ fd' = [fd EXCEPT ![s] = NULL]) /\ Others
<1>1. ASSUME NextMessage PROVE TurnTaken
  BY <1>1 DEF NextMessage, EndOfClient, TurnTaken
<1>2. ASSUME CloseFd(fd[s]) PROVE Others
  BY <1>2 DEF CloseFd, TypeOK, NetType
<1>3. ASSUME Rejected(s) PROVE Turn
  BY <1>2, <1>3 DEF Rejected, Drop, EndOfClient, TurnTaken
<1>4. ASSUME Consumed PROVE Turn
  BY <1>1, <1>4 DEF Consumed, slotVars, netVars
<1>5. ASSUME NEW st, NEW len, NEW proved, Announce(s, st, len, proved) PROVE Turn
  BY <1>1, <1>2, <1>5 DEF Announce, Drop, EndOfClient, TurnTaken
<1>6. Serving(s) /\ Turn
  <2>1. ASSUME NEW p \in Password, HandlePassword(s, p) PROVE Serving(s) /\ Turn
    BY <1>4, <1>5, <2>1 DEF HandlePassword
  <2>2. CASE HandleAbsinfo(s)
    BY <1>3, <1>4, <2>2 DEF HandleAbsinfo
  <2>3. CASE HandleRequestEvent(s)
    BY <1>3, <1>4, <2>3 DEF HandleRequestEvent
  <2>4. CASE HandleDevice(s)
    BY <1>1, <1>3, <2>4 DEF HandleDevice, netVars
  <2>5. CASE HandleSetupRequired(s)
    BY <1>3, <1>5, <2>5 DEF HandleSetupRequired
  <2>6. CASE HandleSetupEnd(s)
    BY <1>3, <1>5, <2>6 DEF HandleSetupEnd
  <2>7. ASSUME NEW destroyed \in BOOLEAN, HandleQuit(s, destroyed) PROVE Serving(s) /\ Turn
    BY <1>2, <2>7 DEF HandleQuit, ClientClose, EndOfClient, TurnTaken
  <2>8. CASE HandleData(s)
    BY <1>3, <1>4, <2>8 DEF HandleData
  <2>9. CASE HandleOther(s)
    BY <1>3, <2>9 DEF HandleOther
  <2>10. CASE InvalidMessage(s)
    BY <2>10 DEF InvalidMessage, EndOfClient, TurnTaken, slotVars
  <2>. QED
    BY <2>1, <2>2, <2>3, <2>4, <2>5, <2>6, <2>7, <2>8, <2>9, <2>10 DEF Handle
<1>. QED BY <1>6, SlotServed DEF Serving

\* So does everything else that happens at a slot, short of the process's end.
LEMMA ServeSlotServed ==
    ASSUME TypeOK, OneOwner, NEW s \in Slots, ServeSlot(s), ~Crash(s)
    PROVE  Served(fd[s])
<1> USE DEF AtSlot, TurnTaken
<1>1. CASE SkipSlot(s)
  BY <1>1, SlotServed DEF SkipSlot, slotVars, netVars
<1>2. CASE VisitFreeSlot(s)
  BY <1>2, SlotServed DEF VisitFreeSlot, netVars
<1>3. CASE RecvFails(s)
  <2>1. \A c \in Conn : c # fd[s] => pending'[c] = pending[c] /\ (c \in hup => c \in hup')
    BY <1>3 DEF RecvFails, ClientClose, CloseFd, TypeOK, NetType
  <2>. QED BY <1>3, <2>1, SlotServed DEF RecvFails, ClientClose
<1>4. ASSUME NEW n \in 0..MaxBatch, RecvData(s, n) PROVE Served(fd[s])
  <2>1. \A c \in Conn : c # fd[s] => pending'[c] = pending[c] /\ (c \in hup => c \in hup')
    BY <1>4 DEF RecvData, Consume, TypeOK, NetType
  <2>2. TurnTaken
    BY <1>4 DEF RecvData
  <2>. QED BY <1>4, <2>1, <2>2, SlotServed DEF RecvData, slotVars
<1>. QED BY <1>1, <1>2, <1>3, <1>4, HandleServed DEF ServeSlot

-----------------------------------------------------------------------------
(* The loop over the waiting entries.                                      *)

\* Whatever is done to entry w and its connection serves that connection only.
LEMMA EntryServed ==
    ASSUME TypeOK, OneOwner, NEW w \in Waits, pc = "waiting", u = w, NextWaiting,
           \A v \in Waits : v # w => waiting'[v] = waiting[v],
           \A c \in Conn : c # waiting[w] => pending'[c] = pending[c] /\ (c \in hup => c \in hup')
    PROVE  Served(waiting[w])
<1>1. /\ pc' \in {"waiting", "top"} /\ readfds' \subseteq readfds
      /\ UnreadSlots' = {}
      /\ UnreadWaits' \subseteq {v \in Waits : v > w}
  BY DEF NextWaiting, UnreadSlots, UnreadWaits, Waits
<1>2. \A v \in Waits : v > w => v \in UnreadWaits /\ v # w
  BY DEF UnreadWaits, Waits
<1>3. \A v \in Waits : v # w => waiting[v] = NULL \/ waiting[v] # waiting[w]
  BY DEF OneOwner
<1>. QED BY <1>1, <1>2, <1>3 DEF Served

\* Whether it is skipped, dropped, refused or let in.
LEMMA ServeEntryServed ==
    ASSUME TypeOK, OneOwner, NEW w \in Waits, ServeEntry(w)
    PROVE  Served(waiting[w])
<1> DEFINE Others == \A c \in Conn : c # waiting[w] =>
                        pending'[c] = pending[c] /\ (c \in hup => c \in hup')
           Kept == \A v \in Waits : v # w => waiting'[v] = waiting[v]
<1>1. ASSUME Consume(waiting[w]), UNCHANGED hup PROVE Others
  BY <1>1 DEF Consume, TypeOK, NetType
<1>2. ASSUME DropWaiting(w) PROVE Others /\ Kept
  BY <1>2 DEF DropWaiting, CloseFd, TypeOK, NetType
<1>3. ASSUME ServeWaiting(w), Others, Kept PROVE Served(waiting[w])
  BY <1>3, EntryServed DEF ServeWaiting, AtWaiting
<1>4. CASE SkipWaiting(w)
  BY <1>4, EntryServed DEF SkipWaiting, AtWaiting, netVars
<1>5. CASE WaitingRecvFails(w)
  BY <1>2, <1>3, <1>5 DEF WaitingRecvFails
<1>6. CASE ShortHello(w)
  BY <1>1, <1>3, <1>6 DEF ShortHello
<1>7. ASSUME NEW h \in Hello, RefuseHello(w, h) PROVE Served(waiting[w])
  BY <1>2, <1>3, <1>7 DEF RefuseHello
<1>8. ASSUME NEW h \in Hello, NEW s \in Slots, NEW destroyed \in BOOLEAN,
             AcceptHello(w, h, s, destroyed)
      PROVE  Served(waiting[w])
  <2>1. ASSUME MoveToSlot(w, s) PROVE Others /\ Kept
    BY <1>1, <2>1 DEF MoveToSlot, TypeOK, NetType
  <2>. QED BY <1>2, <1>3, <1>8, <2>1 DEF AcceptHello
<1>. QED BY <1>4, <1>5, <1>6, <1>7, <1>8 DEF ServeEntry

-----------------------------------------------------------------------------
(* The rest of the loop, and the environment.                              *)

\* select() reports only what has an answer, and accept() brings a connection
\* it did not report.
LEMMA CoreLoopUnread ==
    ASSUME TypeOK, OneOwner, Unread, Reported,
           LoopTop \/ Select \/ AcceptNothing \/ \E c \in Conn : Accept(c) \/ TurnAway(c)
    PROVE  Unread' /\ Reported'
<1> USE DEF TypeOK, SlotType, NetType, slotVars, netVars
<1>1. CASE LoopTop
  BY <1>1 DEF LoopTop, Interest, OneOwner, Unread, Reported, UnreadSlots, UnreadWaits
<1>2. CASE Select
  <2>1. \A c \in Conn : Answers(c)'
    BY <1>2, NamesAssumption DEF Select, Ready, Answers
  <2>2. Answers(NULL)'
    BY DEF Answers
  <2>3. Reported'
    BY <1>2, NamesAssumption DEF Select, Reported, OneOwner
  <2>. QED BY <1>2, <2>1, <2>2, <2>3 DEF Select, Unread, UnreadSlots, UnreadWaits, Answers
<1>3. ASSUME ToSlots PROVE /\ Reported' /\ pc = "accept" /\ UNCHANGED <<fd, readfds>>
                           /\ UnreadSlots' \subseteq Slots /\ UnreadWaits' = Waits
                           /\ UnreadSlots = Slots /\ UnreadWaits = Waits
  BY <1>3 DEF ToSlots, Reported, UnreadSlots, UnreadWaits
<1>4. CASE AcceptNothing
  BY <1>3, <1>4 DEF AcceptNothing, Unread, Answers
<1>5. ASSUME NEW c \in Conn, Accept(c) PROVE Unread' /\ Reported'
  <2>1. c \notin readfds /\ ToSlots /\ UNCHANGED <<pending, hup>>
    BY <1>3, <1>5 DEF Accept, Reported
  <2>2. \A w \in Waits : waiting'[w] = waiting[w] \/ waiting'[w] = c
    BY <1>5 DEF Accept
  <2>. QED BY <1>3, <2>1, <2>2 DEF Unread, Answers
<1>6. ASSUME NEW c \in Conn, TurnAway(c) PROVE Unread' /\ Reported'
  <2>1. c \notin readfds /\ ToSlots /\ UNCHANGED waiting
    BY <1>3, <1>6 DEF TurnAway, Reported
  <2>2. \A d \in Conn : d # c => pending'[d] = pending[d] /\ (d \in hup => d \in hup')
    BY <1>6 DEF TurnAway
  <2>3. \A d \in Conn \cup {NULL} : Answers(d) => Answers(d)'
    BY <1>3, <2>1, <2>2 DEF Answers
  <2>. QED BY <1>3, <2>1, <2>3 DEF Unread, Answers
<1>. QED BY <1>1, <1>2, <1>4, <1>5, <1>6

\* Peers only add to what can be read, and the signal ends no round.
LEMMA EnvironmentUnread ==
    ASSUME TypeOK, Unread, Reported, Environment
    PROVE  Unread' /\ Reported'
<1> USE DEF loopVars, slotVars, netVars, Unread, Reported, UnreadSlots, UnreadWaits
<1>1. ASSUME NEW c \in Conn, Connect(c) PROVE Unread' /\ Reported'
  BY <1>1 DEF Connect
<1>2. ASSUME NEW c \in Conn, PeerSend(c) PROVE Unread' /\ Reported'
  BY <1>2 DEF PeerSend
<1>3. ASSUME NEW c \in Conn, PeerClose(c) PROVE Unread' /\ Reported'
  BY <1>3 DEF PeerClose, Answers
<1>4. CASE Interrupt
  BY <1>4 DEF Interrupt
<1>. QED BY <1>1, <1>2, <1>3, <1>4 DEF Environment

\* With nothing left to look at there is nothing to show.
LEMMA EndedUnread == ASSUME NEW how \in Ended, ProcessEnds(how) PROVE Unread' /\ Reported'
  BY DEF ProcessEnds, Ended, Unread, Reported, UnreadSlots, UnreadWaits

\* Throughout a round, what is still to be read was reported and has an answer.
THEOREM RoundKept == Spec => [](Unread /\ Reported)
<1> DEFINE Inv == Unread /\ Reported
<1>1. Init => Inv
  BY DEF Init, Unread, Reported, UnreadSlots, UnreadWaits
<1>2. IInv /\ Inv /\ [Next]_vars => Inv'
  <2> SUFFICES ASSUME IInv, Inv, [Next]_vars PROVE Inv'
    OBVIOUS
  <2>1. TypeOK /\ OneOwner
    BY DEF IInv
  <2>2. ASSUME NEW s \in Slots, ServeSlot(s) PROVE Inv'
    <3>1. CASE Crash(s)
      BY <3>1, EndedUnread DEF Crash, Ended
    <3>2. CASE ~Crash(s)
      BY <2>1, <2>2, <3>2, ServeSlotServed, ServedUnread
    <3>. QED BY <3>1, <3>2
  <2>3. ASSUME NEW w \in Waits, ServeEntry(w) PROVE Inv'
    BY <2>1, <2>3, ServeEntryServed, ServedUnread
  <2>4. CASE Exit
    BY <2>4, EndedUnread DEF Exit, Ended
  <2>5. CASE UNCHANGED vars
    BY <2>5 DEF vars, loopVars, slotVars, netVars, Unread, Reported, UnreadSlots, UnreadWaits, Answers
  <2>6. CASE Environment
    BY <2>1, <2>6, EnvironmentUnread
  <2>. QED
    BY <2>1, <2>2, <2>3, <2>4, <2>5, <2>6, CoreLoopUnread DEF Next, Server, Terminated
<1>. QED BY <1>1, <1>2, Inductive, PTL DEF Spec

\* The server's only thread never waits in recv(): it is called only on a
\* connection that has bytes, or an end of stream, to return.
THEOREM NeverBlocked == Spec => []RecvNeverBlocks
<1>1. TypeOK /\ Unread => RecvNeverBlocks
  <2> SUFFICES ASSUME TypeOK, Unread PROVE RecvNeverBlocks
    OBVIOUS
  <2>1. ASSUME pc = "slots" PROVE Answers(fd[u])
    BY <2>1, SlotsAssumption DEF TypeOK, LoopType, Unread, UnreadSlots, Slots
  <2>2. ASSUME pc = "waiting" PROVE Answers(waiting[u])
    BY <2>2, SlotsAssumption DEF TypeOK, LoopType, Unread, UnreadWaits, Waits
  <2>. QED BY <2>1, <2>2 DEF RecvNeverBlocks, Answers, InUse
<1>. QED BY <1>1, TypeCorrect, RoundKept, PTL

-----------------------------------------------------------------------------
(* Statuses.                                                               *)

\* Slot t's client is lost, kept with its status, or told the new one.
ToldSlot(t) ==
    fd'[t] # NULL /\ <<fd'[t], status'[t]>> # <<fd[t], status[t]>> =>
        /\ sent' # NULL
        /\ sent'.to = fd'[t] /\ sent'.type = status'[t]
Told == \A t \in Slots : ToldSlot(t)

\* A step that neither gives a slot a client nor a client a status tells nobody.
LEMMA UntoldKept == ASSUME UNCHANGED <<fd, status>> PROVE Told
  BY DEF Told, ToldSlot

\* Where a client is lost nobody need be told.
LEMMA ClosedTold ==
    ASSUME SlotType, NEW s \in Slots, fd' = [fd EXCEPT ![s] = NULL],
           \A t \in Slots : t # s => status'[t] = status[t]
    PROVE  Told
  BY DEF Told, ToldSlot, SlotType

\* A message is no NULL, so whoever it is to has been told.
LEMMA SendTells ==
    ASSUME NEW c \in Conn, NEW type \in Reply, NEW len \in {1, 2}, Send(c, type, len)
    PROVE  sent' # NULL /\ sent'.to = c /\ sent'.type = type
  BY MessageAssumption DEF Send, Message

\* Announce() tells the client, or loses it.
LEMMA AnnounceTold ==
    ASSUME SlotType, NEW s \in Slots, fd[s] # NULL, NEW st \in Status \ {"RESERVED_UNCONN"},
           NEW len \in {1, 2}, NEW proved, Announce(s, st, len, proved)
    PROVE  Told
<1>1. \A t \in Slots : t # s => status'[t] = status[t]
  BY DEF Announce, SlotType
<1>2. status'[s] = st
  BY DEF Announce, SlotType
<1>3. CASE Send(fd[s], st, len) /\ UNCHANGED fd
  <2>1. sent' # NULL /\ sent'.to = fd[s] /\ sent'.type = st
    BY <1>3, SendTells DEF SlotType, Reply
  <2>. QED BY <1>1, <1>2, <1>3, <2>1 DEF Told, ToldSlot
<1>4. CASE Drop(s)
  BY <1>1, <1>4, ClosedTold DEF Drop
<1>. QED BY <1>3, <1>4 DEF Announce

\* Every handler tells its client of a new status.
LEMMA HandleTold ==
    ASSUME TypeOK, NEW s \in Slots, Handle(s)
    PROVE  Told
<1> USE DEF TypeOK
<1>1. ASSUME Serving(s), Rejected(s) PROVE Told
  BY <1>1, ClosedTold DEF Rejected, Drop
<1>2. ASSUME Consumed PROVE Told
  BY <1>2, UntoldKept DEF Consumed, slotVars
<1>3. ASSUME NEW p \in Password, HandlePassword(s, p) PROVE Told
  <2>1. PasswordStatus(s, p) \in Status \ {"RESERVED_UNCONN"}
    BY DEF PasswordStatus, NextStatus, Status
  <2>. QED BY <1>2, <1>3, <2>1, AnnounceTold DEF HandlePassword, Serving
<1>4. CASE HandleAbsinfo(s)
  BY <1>1, <1>2, <1>4 DEF HandleAbsinfo
<1>5. CASE HandleRequestEvent(s)
  BY <1>1, <1>2, <1>5 DEF HandleRequestEvent
<1>6. CASE HandleDevice(s)
  BY <1>1, <1>6, UntoldKept DEF HandleDevice
<1>7. CASE HandleSetupRequired(s)
  BY <1>1, <1>7, AnnounceTold DEF HandleSetupRequired, Serving, Status
<1>8. CASE HandleSetupEnd(s)
  BY <1>1, <1>8, AnnounceTold DEF HandleSetupEnd, Serving, Status
<1>9. ASSUME NEW destroyed \in BOOLEAN, HandleQuit(s, destroyed) PROVE Told
  <2>1. \A t \in Slots : t # s => status'[t] = status[t]
    BY <1>9 DEF HandleQuit, ClientClose, SlotType
  <2>. QED BY <1>9, <2>1, ClosedTold DEF HandleQuit, ClientClose
<1>10. CASE HandleData(s)
  BY <1>1, <1>2, <1>10 DEF HandleData
<1>11. CASE HandleOther(s)
  BY <1>1, <1>11 DEF HandleOther
<1>12. CASE InvalidMessage(s)
  BY <1>12, UntoldKept DEF InvalidMessage, slotVars
<1>. QED
  BY <1>3, <1>4, <1>5, <1>6, <1>7, <1>8, <1>9, <1>10, <1>11, <1>12 DEF Handle

\* A client let into a slot is told what it has to do first.
LEMMA ServeEntryTold ==
    ASSUME TypeOK, NEW w \in Waits, ServeEntry(w)
    PROVE  Told
<1>1. CASE SkipWaiting(w) \/ WaitingRecvFails(w) \/ ShortHello(w)
  BY <1>1, UntoldKept DEF SkipWaiting, WaitingRecvFails, ShortHello, slotVars
<1>2. ASSUME NEW h \in Hello, RefuseHello(w, h) PROVE Told
  BY <1>2, UntoldKept DEF RefuseHello, slotVars
<1>3. ASSUME NEW h \in Hello, NEW s \in Slots, NEW destroyed \in BOOLEAN,
             AcceptHello(w, h, s, destroyed)
      PROVE  Told
  <2>1. CASE UNCHANGED <<fd, status>>
    BY <2>1, UntoldKept
  <2> DEFINE st == FirstStatus(ev_fd'[s])
  <2>2. CASE /\ Send(waiting[w], st, 1) /\ MoveToSlot(w, s)
             /\ status' = [status EXCEPT ![s] = st]
    <3>1. st \in Reply
      BY DEF FirstStatus, NextStatus, Reply, Status
    <3>2. waiting[w] \in Conn
      BY <1>3, NamesAssumption DEF AcceptHello, ServeWaiting, TypeOK, LoopType, NetType
    <3>3. sent' # NULL /\ sent'.to = waiting[w] /\ sent'.type = st
      BY <2>2, <3>1, <3>2, SendTells
    <3>4. \A t \in Slots : /\ t # s => fd'[t] = fd[t] /\ status'[t] = status[t]
                           /\ t = s => fd'[t] = waiting[w] /\ status'[t] = st
      BY <2>2 DEF MoveToSlot, TypeOK, SlotType
    <3>. QED BY <3>3, <3>4 DEF Told, ToldSlot
  <2>. QED BY <1>3, <2>1, <2>2 DEF AcceptHello
<1>. QED BY <1>1, <1>2, <1>3 DEF ServeEntry

\* The client in a slot always knows the slot's status: every status it is
\* given is sent to it in the same step.
THEOREM StatusesAnnounced == Spec => StatusAnnounced
<1>1. TypeOK /\ [Next]_vars => [Told]_vars
  <2> SUFFICES ASSUME TypeOK, [Next]_vars PROVE Told \/ UNCHANGED vars
    OBVIOUS
  <2> USE DEF slotVars, SlotType
  <2>1. CASE Environment
    BY <2>1, UntoldKept DEF Environment, Connect, PeerSend, PeerClose, Interrupt
  <2>2. CASE LoopTop \/ Select \/ AcceptNothing \/ \E c \in Conn : Accept(c) \/ TurnAway(c)
    BY <2>2, UntoldKept DEF LoopTop, Select, AcceptNothing, Accept, TurnAway, ToSlots
  <2>3. ASSUME NEW how \in Ended, ProcessEnds(how) PROVE Told
    BY <2>3 DEF ProcessEnds, Told, ToldSlot
  <2>4. ASSUME NEW s \in Slots, ServeSlot(s) PROVE Told
    <3>1. CASE SkipSlot(s)
      BY <3>1, UntoldKept DEF SkipSlot
    <3>2. CASE VisitFreeSlot(s)
      BY <3>2 DEF VisitFreeSlot, AtSlot, TypeOK, Told, ToldSlot
    <3>3. CASE RecvFails(s)
      <4>1. \A t \in Slots : t # s => status'[t] = status[t]
        BY <3>3 DEF RecvFails, ClientClose, TypeOK
      <4>. QED BY <3>3, <4>1, ClosedTold DEF RecvFails, ClientClose, TypeOK
    <3>4. ASSUME NEW n \in 0..MaxBatch, RecvData(s, n) PROVE Told
      BY <3>4, UntoldKept DEF RecvData
    <3>. QED BY <2>3, <2>4, <3>1, <3>2, <3>3, <3>4, HandleTold DEF ServeSlot, Crash, Ended
  <2>. QED
    BY <2>1, <2>2, <2>3, <2>4, ServeEntryTold DEF Next, Server, Exit, Terminated, Ended
<1>2. [Told]_vars => [\A s \in Slots :
          fd'[s] # NULL /\ <<fd'[s], status'[s]>> # <<fd[s], status[s]>> =>
             /\ sent' # NULL
             /\ sent'.to = fd'[s] /\ sent'.type = status'[s]]_vars
  BY DEF Told, ToldSlot
<1>. QED BY <1>1, <1>2, TypeCorrect, PTL DEF Spec, StatusAnnounced

-----------------------------------------------------------------------------
(* Devices.                                                                *)

\* Slot t keeps its device, or loses it in one of the ways it may.
KeptSlot(t) ==
    ev_fd[t] # NULL /\ ev_fd'[t] # ev_fd[t] /\ pc' \notin Ended =>
        \/ pc = "data" /\ u = t /\ InUse(t)
        \/ pc = "waiting" /\ ~InUse(t) /\ Deviceless = {}
Kept == \A t \in Slots : KeptSlot(t)

\* A step that touches no device descriptor keeps every device.
LEMMA UntouchedKept == ASSUME UNCHANGED ev_fd PROVE Kept
  BY DEF Kept, KeptSlot

\* A client's messages reach the device of its own slot and no other.
LEMMA HandleKept ==
    ASSUME TypeOK, NEW s \in Slots, Handle(s)
    PROVE  Kept
<1>1. pc = "data" /\ u = s /\ InUse(s)
  BY DEF Handle, HandlePassword, HandleAbsinfo, HandleRequestEvent, HandleDevice,
         HandleSetupRequired, HandleSetupEnd, HandleQuit, HandleData, HandleOther,
         InvalidMessage, Serving, InUse
<1>2. \A t \in Slots : t # s => ev_fd'[t] = ev_fd[t]
  <2> USE DEF TypeOK, SlotType, slotVars
  <2>1. CASE Consumed \/ Rejected(s) \/ InvalidMessage(s) \/ HandleDevice(s)
    BY <2>1 DEF Consumed, Rejected, InvalidMessage, HandleDevice
  <2>2. CASE HandleSetupEnd(s)
    BY <2>1, <2>2 DEF HandleSetupEnd, CreateDevice
  <2>3. ASSUME NEW destroyed \in BOOLEAN, HandleQuit(s, destroyed)
        PROVE  \A t \in Slots : t # s => ev_fd'[t] = ev_fd[t]
    BY <2>3 DEF HandleQuit, ClientClose, CleanupDevice
  <2>. QED
    BY <2>1, <2>2, <2>3
    DEF Handle, HandlePassword, HandleAbsinfo, HandleRequestEvent, HandleSetupRequired,
        HandleData, HandleOther
<1>. QED BY <1>1, <1>2 DEF Kept, KeptSlot

\* A new client costs an idle slot its device only if all idle slots have one.
LEMMA ServeEntryKept ==
    ASSUME TypeOK, NEW w \in Waits, ServeEntry(w)
    PROVE  Kept
<1>1. CASE SkipWaiting(w) \/ WaitingRecvFails(w) \/ ShortHello(w)
  BY <1>1, UntouchedKept DEF SkipWaiting, WaitingRecvFails, ShortHello, slotVars
<1>2. ASSUME NEW h \in Hello, RefuseHello(w, h) PROVE Kept
  BY <1>2, UntouchedKept DEF RefuseHello, slotVars
<1>3. ASSUME NEW h \in Hello, NEW s \in Slots, NEW destroyed \in BOOLEAN,
             AcceptHello(w, h, s, destroyed)
      PROVE  Kept
  <2>1. CASE UNCHANGED ev_fd
    BY <2>1, UntouchedKept
  <2>2. CASE Evicts(h) /\ CleanupDevice(s, destroyed)
    <3>1. pc = "waiting" /\ Deviceless = {} /\ s \in Idle
      BY <1>3, <2>2 DEF AcceptHello, ServeWaiting, AtWaiting, Evicts, Chosen, First
    <3>2. \A t \in Slots : t # s => ev_fd'[t] = ev_fd[t]
      BY <2>2 DEF CleanupDevice, TypeOK, SlotType
    <3>. QED BY <3>1, <3>2 DEF Kept, KeptSlot, Idle
  <2>. QED BY <1>3, <2>1, <2>2 DEF AcceptHello
<1>. QED BY <1>1, <1>2, <1>3 DEF ServeEntry

\* A device outlives its client's connection, however that ends: a slot's
\* device goes only by its own client's message, for an auto-assigned client
\* with no slot to spare, or with the process.
THEOREM DevicesKept == Spec => DeviceKept
<1>1. TypeOK /\ [Next]_vars => [Kept]_vars
  <2> SUFFICES ASSUME TypeOK, [Next]_vars PROVE Kept \/ UNCHANGED vars
    OBVIOUS
  <2> USE DEF slotVars
  <2>1. CASE Environment
    BY <2>1, UntouchedKept DEF Environment, Connect, PeerSend, PeerClose, Interrupt
  <2>2. CASE LoopTop \/ Select \/ AcceptNothing \/ \E c \in Conn : Accept(c) \/ TurnAway(c)
    BY <2>2, UntouchedKept DEF LoopTop, Select, AcceptNothing, Accept, TurnAway, ToSlots
  <2>3. ASSUME NEW how \in Ended, ProcessEnds(how) PROVE Kept
    BY <2>3 DEF ProcessEnds, Kept, KeptSlot
  <2>4. ASSUME NEW s \in Slots, ServeSlot(s) PROVE Kept
    <3>1. CASE SkipSlot(s) \/ VisitFreeSlot(s)
      BY <3>1, UntouchedKept DEF SkipSlot, VisitFreeSlot
    <3>2. CASE RecvFails(s)
      BY <3>2, UntouchedKept DEF RecvFails, ClientClose, CleanupDevice
    <3>3. ASSUME NEW n \in 0..MaxBatch, RecvData(s, n) PROVE Kept
      BY <3>3, UntouchedKept DEF RecvData
    <3>. QED BY <2>3, <2>4, <3>1, <3>2, <3>3, HandleKept DEF ServeSlot, Crash, Ended
  <2>. QED
    BY <2>1, <2>2, <2>3, <2>4, ServeEntryKept DEF Next, Server, Exit, Terminated, Ended
<1>2. [Kept]_vars => [\A s \in Slots :
          ev_fd[s] # NULL /\ ev_fd'[s] # ev_fd[s] /\ pc' \notin Ended =>
             \/ pc = "data" /\ u = s /\ InUse(s)
             \/ pc = "waiting" /\ ~InUse(s) /\ Deviceless = {}]_vars
  BY DEF Kept, KeptSlot
<1>. QED BY <1>1, <1>2, TypeCorrect, PTL DEF Spec, DeviceKept

-----------------------------------------------------------------------------
(* InputServer implements SlotService: seen through the refinement         *)
(* mapping, every step of the process is one of the service's steps or     *)
(* changes nothing.                                                        *)


\* The mapping's parts that are not variables of InputServer.
stage  == [s \in Slots |-> IF fd[s] = NULL THEN "idle" ELSE StageOf[status[s]]]
device == [s \in Slots |-> ev_fd[s] # NULL]

\* Slot s gets an owner, a stage and a device (or none), the others stay.
SlotSet(s, c, st) ==
    /\ fd' = [fd EXCEPT ![s] = c]
    /\ stage' = [stage EXCEPT ![s] = st]

\* What StageOf says.
LEMMA Stages ==
    /\ StageOf["PASSWORD_REQUIRED"] = "auth"
    /\ StageOf["INVALID_PASSWORD"] = "denied"
    /\ StageOf["SETUP_REQUIRED"] = "setup"
    /\ StageOf["SUCCESS"] = "live"
    /\ StageOf["RESERVED_UNCONN"] = "idle"
  BY DEF StageOf, Status

\* A slot is live when its client was told SUCCESS, and so on.
LEMMA StagesBack ==
    ASSUME SlotType, NEW s \in Slots, fd[s] # NULL
    PROVE  /\ status[s] = "PASSWORD_REQUIRED" => stage[s] = "auth"
           /\ status[s] = "SETUP_REQUIRED" => stage[s] = "setup"
           /\ status[s] = "SUCCESS" => stage[s] = "live"
  BY Stages DEF stage

\* A slot changes owner, or its owner changes status.
LEMMA SlotChanged ==
    ASSUME SlotType, NEW s \in Slots, NEW c \in Conn \cup {NULL}, NEW st \in Status,
           fd' = [fd EXCEPT ![s] = c], status' = [status EXCEPT ![s] = st]
    PROVE  SlotSet(s, c, IF c = NULL THEN "idle" ELSE StageOf[st])
  BY DEF SlotSet, stage, SlotType

\* A slot loses its owner, whatever status it is left with.
LEMMA SlotVacated ==
    ASSUME SlotType, NEW s \in Slots, fd' = [fd EXCEPT ![s] = NULL],
           \A t \in Slots : t # s => status'[t] = status[t]
    PROVE  SlotSet(s, NULL, "idle")
  BY DEF SlotSet, stage, SlotType

\* What the service sees when nothing happens to owners and statuses.
LEMMA StageKept == ASSUME UNCHANGED <<fd, status>> PROVE stage' = stage
  BY DEF stage

\* What the service sees of the devices when no slot's descriptor changes.
LEMMA DeviceKeptSame == ASSUME UNCHANGED ev_fd PROVE device' = device
  BY DEF device

\* Where an owner is lost and its device stays, the service releases the slot.
LEMMA Releases ==
    ASSUME SlotType, NEW s \in Slots, fd[s] # NULL, SlotSet(s, NULL, "idle"), UNCHANGED ev_fd
    PROVE  Service!Release(s)
  BY DeviceKeptSame DEF Service!Release, Service!Vacate, SlotSet, stage, device

\* Nothing the service knows of changes.
LEMMA Stutters == ASSUME UNCHANGED <<fd, status, ev_fd>> PROVE UNCHANGED Service!vars
  BY StageKept, DeviceKeptSame DEF Service!vars, stage, device

\* A client rejected, or lost over a reply.
LEMMA DropReleases ==
    ASSUME SlotType, NEW s \in Slots, fd[s] # NULL, Drop(s), UNCHANGED ev_fd,
           \A t \in Slots : t # s => status'[t] = status[t]
    PROVE  Service!Release(s)
  BY SlotVacated, Releases DEF Drop

\* A status that is announced, or not, is a new stage or a release.
LEMMA AnnounceServes ==
    ASSUME SlotType, NEW s \in Slots, fd[s] # NULL, NEW st \in Status,
           NEW len, NEW proved, Announce(s, st, len, proved)
    PROVE  SlotSet(s, fd[s], StageOf[st]) \/ SlotSet(s, NULL, "idle")
<1>1. \A t \in Slots : t # s => status'[t] = status[t]
  BY DEF Announce, SlotType
<1>2. CASE Drop(s)
  BY <1>1, <1>2, SlotVacated DEF Drop
<1>3. CASE UNCHANGED fd
  <2>1. fd' = [fd EXCEPT ![s] = fd[s]] /\ fd[s] \in Conn
    BY <1>3 DEF SlotType
  <2>. QED BY <2>1, SlotChanged DEF Announce
<1>. QED BY <1>2, <1>3 DEF Announce

\* Every handler does to its slot what the service allows.
LEMMA HandleServes ==
    ASSUME TypeOK, NEW s \in Slots, Handle(s)
    PROVE  [Service!Next]_Service!vars
<1> USE DEF TypeOK
<1>1. fd[s] # NULL
  BY DEF Handle, HandlePassword, HandleAbsinfo, HandleRequestEvent, HandleDevice,
         HandleSetupRequired, HandleSetupEnd, HandleQuit, HandleData, HandleOther,
         InvalidMessage, Serving
<1>2. CASE Rejected(s)
  BY <1>1, <1>2, DropReleases DEF Rejected, Service!Next
<1>3. CASE UNCHANGED slotVars
  BY <1>3, Stutters DEF slotVars
<1>4. ASSUME NEW p \in Password, HandlePassword(s, p) PROVE [Service!Next]_Service!vars
  <2>1. CASE status[s] # "PASSWORD_REQUIRED"
    BY <1>3, <1>4, <2>1 DEF HandlePassword, Consumed
  <2> DEFINE st == PasswordStatus(s, p)
  <2>2. CASE status[s] = "PASSWORD_REQUIRED"
    <3>1. st \in Status /\ UNCHANGED ev_fd
      BY <1>4, <2>2 DEF HandlePassword, PasswordStatus, NextStatus, Status
    <3>2. SlotSet(s, fd[s], StageOf[st]) \/ SlotSet(s, NULL, "idle")
      BY <1>1, <1>4, <2>2, <3>1, AnnounceServes DEF HandlePassword
    <3>3. CASE SlotSet(s, NULL, "idle")
      BY <1>1, <3>1, <3>3, Releases DEF Service!Next
    <3>4. CASE SlotSet(s, fd[s], StageOf[st])
      <4>1. stage[s] = "auth" /\ fd' = fd /\ device' = device
        BY <1>1, <2>2, <3>1, <3>4, StagesBack, DeviceKeptSame DEF SlotSet, SlotType
      <4>2. StageOf[st] \in {"denied", Service!ReadyStage(device[s])}
        BY Stages DEF PasswordStatus, NextStatus, device, Service!ReadyStage
      <4>3. stage' = [stage EXCEPT ![s] = StageOf[st]]
        BY <3>4 DEF SlotSet
      <4>4. Service!Authenticate(s) \/ Service!Deny(s)
        BY <4>1, <4>2, <4>3
        DEF Service!Authenticate, Service!Deny, Service!Proceed, stage, device
      <4>. QED BY <4>4 DEF Service!Next
    <3>. QED BY <3>2, <3>3, <3>4
  <2>. QED BY <2>1, <2>2
<1>5. CASE HandleSetupRequired(s) /\ status[s] = "SUCCESS"
  <2>1. UNCHANGED ev_fd /\ "SETUP_REQUIRED" \in Status
    BY <1>5 DEF HandleSetupRequired, Status
  <2>2. SlotSet(s, fd[s], "setup") \/ SlotSet(s, NULL, "idle")
    BY <1>1, <1>5, <2>1, AnnounceServes, Stages DEF HandleSetupRequired
  <2>3. CASE SlotSet(s, NULL, "idle")
    BY <1>1, <2>1, <2>3, Releases DEF Service!Next
  <2>4. CASE SlotSet(s, fd[s], "setup")
    <3>1. stage[s] = "live" /\ fd' = fd /\ device' = device
      BY <1>1, <1>5, <2>1, <2>4, StagesBack, DeviceKeptSame DEF SlotSet, SlotType
    <3>2. Service!Reconfigure(s)
      BY <2>4, <3>1 DEF SlotSet, Service!Reconfigure, Service!Proceed, stage, device
    <3>. QED BY <3>2 DEF Service!Next
  <2>. QED BY <2>2, <2>3, <2>4
<1>6. ASSUME NEW d \in Device, CreateDevice(s, d), Announce(s, "SUCCESS", 2, {}),
             status[s] = "SETUP_REQUIRED"
      PROVE  [Service!Next]_Service!vars
  <2>1. SlotSet(s, fd[s], "live") \/ SlotSet(s, NULL, "idle")
    BY <1>1, <1>6, AnnounceServes, Stages DEF Status
  <2>2. stage[s] = "setup" /\ device' = [device EXCEPT ![s] = TRUE]
    BY <1>1, <1>6, StagesBack, NamesAssumption DEF CreateDevice, device, SlotType
  <2>3. Service!Configure(s)
    BY <1>1, <2>1, <2>2
    DEF SlotSet, SlotType, Service!Configure, Service!Proceed, Service!Vacate, stage, device
  <2>. QED BY <2>3 DEF Service!Next
<1>7. ASSUME NEW destroyed \in BOOLEAN, HandleQuit(s, destroyed)
      PROVE  [Service!Next]_Service!vars
  <2>1. SlotSet(s, NULL, "idle")
    BY <1>7, SlotVacated DEF HandleQuit, ClientClose, SlotType
  <2>2. CASE UNCHANGED ev_fd
    BY <1>1, <2>1, <2>2, Releases DEF Service!Next
  <2>3. CASE ev_fd' = [ev_fd EXCEPT ![s] = NULL]
    <3>1. device' = [device EXCEPT ![s] = FALSE]
      BY <2>3 DEF device, SlotType
    <3>2. Service!Quit(s)
      BY <1>1, <2>1, <3>1 DEF SlotSet, Service!Quit, Service!Vacate, stage, device
    <3>. QED BY <3>2 DEF Service!Next
  <2>. QED BY <1>7, <2>2, <2>3 DEF HandleQuit, ClientClose, CleanupDevice
<1>8. CASE HandleDevice(s)
  BY <1>2, <1>8, Stutters DEF HandleDevice
<1>9. CASE HandleSetupEnd(s)
  BY <1>2, <1>6, <1>9 DEF HandleSetupEnd
<1>. QED
  BY <1>2, <1>3, <1>4, <1>5, <1>7, <1>8, <1>9
  DEF Handle, HandleAbsinfo, HandleRequestEvent, HandleSetupRequired, HandleData,
      HandleOther, InvalidMessage, Consumed

\* A client is granted an idle slot, at the cost of a device if no idle slot
\* is without one; a grant that is not announced costs the device alone.
LEMMA AcceptServes ==
    ASSUME TypeOK, OneOwner, NEW w \in Waits, NEW h \in Hello, NEW s \in Slots,
           NEW destroyed \in BOOLEAN, AcceptHello(w, h, s, destroyed)
    PROVE  [Service!Next]_Service!vars
<1> USE DEF TypeOK
<1> DEFINE st == FirstStatus(ev_fd'[s])
<1>1. waiting[w] \in Conn /\ fd[s] = NULL
  BY ChosenIdle, NamesAssumption
  DEF AcceptHello, ServeWaiting, LoopType, NetType, InUse
<1> PICK c \in Conn : c = waiting[w]
  BY <1>1
<1>2. \A t \in Slots : fd[t] # c
  BY NamesAssumption DEF OneOwner
<1>3. s \in Service!Idle
  BY <1>1 DEF Service!Idle
<1>4. Service!Evict(s) \/ UNCHANGED ev_fd
  <2>1. CASE Evicts(h) /\ ev_fd' = [ev_fd EXCEPT ![s] = NULL]
    <3>1. \A t \in Service!Idle : device[t]
      BY <2>1 DEF Evicts, Deviceless, Idle, InUse, Service!Idle, device
    <3>2. device' = [device EXCEPT ![s] = FALSE]
      BY <2>1 DEF device, SlotType
    <3>. QED BY <1>3, <3>1, <3>2 DEF Service!Evict, device
  <2>. QED BY <2>1 DEF AcceptHello, CleanupDevice
<1>5. CASE UNCHANGED <<fd, status>>
  <2>1. CASE Service!Evict(s)
    BY <1>5, <2>1, StageKept DEF Service!GrantLost, Service!Next, stage
  <2>2. CASE UNCHANGED ev_fd
    BY <1>5, <2>2, Stutters
  <2>. QED BY <1>4, <2>1, <2>2
<1>6. CASE fd' = [fd EXCEPT ![s] = c] /\ status' = [status EXCEPT ![s] = st]
  <2>1. st \in Status
    BY DEF FirstStatus, NextStatus, Status
  <2>2. SlotSet(s, c, StageOf[st])
    BY <1>1, <1>6, <2>1, SlotChanged, NamesAssumption
  <2>3. device'[s] = (ev_fd'[s] # NULL)
    BY DEF device
  <2>4. StageOf[st] = IF PasswordSet THEN "auth" ELSE Service!ReadyStage(device'[s])
    BY <2>3, Stages DEF FirstStatus, NextStatus, Service!ReadyStage
  <2>5. Service!Grant(s, c)
    <3>1. Service!Evict(s) \/ device' = device
      BY <1>4, DeviceKeptSame
    <3>2. fd' = [fd EXCEPT ![s] = c]
          /\ stage' = [stage EXCEPT ![s] =
                          IF PasswordSet THEN "auth" ELSE Service!ReadyStage(device'[s])]
      BY <2>2, <2>4 DEF SlotSet
    <3>. QED BY <1>2, <1>3, <3>1, <3>2 DEF Service!Grant, stage, device
  <2>. QED BY <2>5 DEF Service!Next
<1>. QED BY <1>5, <1>6 DEF AcceptHello, MoveToSlot

\* The process ends, and with it every slot.
LEMMA EndServes ==
    ASSUME NEW how, ProcessEnds(how)
    PROVE  Service!Next
<1>1. fd' = [s \in Slots |-> NULL] /\ stage' = [s \in Slots |-> "idle"]
      /\ device' = [s \in Slots |-> FALSE]
  BY DEF ProcessEnds, stage, device
<1>. QED BY <1>1 DEF Service!Next, Service!Shutdown, Service!Unused, stage, device

\* No path through the server, error paths included, skips authentication or
\* setup, loses an idle slot's device or gives a slot away twice.
THEOREM ServiceImplemented == Spec => ImplementsService
<1>1. Init => Service!Init
  <2> SUFFICES ASSUME Init PROVE Service!Init
    OBVIOUS
  <2>1. fd = [s \in Slots |-> NULL] /\ stage = [s \in Slots |-> "idle"]
        /\ device = [s \in Slots |-> FALSE]
    BY DEF Init, stage, device
  <2>. QED BY <2>1 DEF Service!Init, Service!Unused, stage, device
<1>2. TypeOK /\ OneOwner /\ [Next]_vars => [Service!Next]_Service!vars
  <2> SUFFICES ASSUME TypeOK, OneOwner, [Next]_vars PROVE [Service!Next]_Service!vars
    OBVIOUS
  <2> USE DEF slotVars
  <2>1. CASE UNCHANGED vars
    BY <2>1, Stutters DEF vars
  <2>2. CASE Environment
    BY <2>2, Stutters DEF Environment, Connect, PeerSend, PeerClose, Interrupt
  <2>3. CASE LoopTop \/ Select \/ AcceptNothing \/ \E c \in Conn : Accept(c) \/ TurnAway(c)
    BY <2>3, Stutters DEF LoopTop, Select, AcceptNothing, Accept, TurnAway, ToSlots
  <2>4. ASSUME NEW s \in Slots, ServeSlot(s) PROVE [Service!Next]_Service!vars
    <3>1. CASE SkipSlot(s)
      BY <3>1, Stutters DEF SkipSlot
    <3>2. CASE VisitFreeSlot(s)
      <4>1. stage' = stage /\ device' = device
        BY <3>2, DeviceKeptSame DEF VisitFreeSlot, stage, TypeOK, SlotType
      <4>. QED BY <3>2, <4>1 DEF VisitFreeSlot, Service!vars, stage, device
    <3>3. CASE RecvFails(s)
      <4>1. SlotSet(s, NULL, "idle")
        BY <3>3, SlotVacated DEF RecvFails, ClientClose, TypeOK, SlotType
      <4>2. fd[s] # NULL /\ UNCHANGED ev_fd
        BY <3>3, NamesAssumption DEF RecvFails, ClientClose, CleanupDevice, TypeOK, LoopType
      <4>. QED BY <4>1, <4>2, Releases DEF Service!Next, TypeOK
    <3>4. ASSUME NEW n \in 0..MaxBatch, RecvData(s, n) PROVE UNCHANGED Service!vars
      BY <3>4, Stutters DEF RecvData
    <3>. QED BY <2>4, <3>1, <3>2, <3>3, <3>4, HandleServes, EndServes DEF ServeSlot, Crash
  <2>5. ASSUME NEW w \in Waits, ServeEntry(w) PROVE [Service!Next]_Service!vars
    <3>1. CASE SkipWaiting(w) \/ WaitingRecvFails(w) \/ ShortHello(w)
      BY <3>1, Stutters DEF SkipWaiting, WaitingRecvFails, ShortHello
    <3>2. ASSUME NEW h \in Hello, RefuseHello(w, h) PROVE UNCHANGED Service!vars
      BY <3>2, Stutters DEF RefuseHello
    <3>. QED BY <2>5, <3>1, <3>2, AcceptServes DEF ServeEntry
  <2>. QED
    BY <2>1, <2>2, <2>3, <2>4, <2>5, EndServes DEF Next, Server, Exit, Terminated
<1>. QED
  BY <1>1, <1>2, TypeCorrect, DescriptorsOwned, PTL DEF Spec, ImplementsService, Service!Spec
=============================================================================
