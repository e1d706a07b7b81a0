---------------------------- MODULE InputBuffer ----------------------------
(***************************************************************************)
(* How bytes become messages in the server (server/input-server.c:         *)
(* recv_data, client_hello, client_data; common/protocol.c).  TCP delivers *)
(* a stream: a recv() may end anywhere.  Bytes are collected in the        *)
(* input_buffer of the waiting entry until there is a HELLO, then in that  *)
(* of the client slot, whose messages client_data() takes off one by one.  *)
(* One entry and one slot are modelled, used by one connection after the   *)
(* other; what a message does to the slot is InputServer's subject.        *)
(***************************************************************************)
EXTENDS Integers, SequencesExt

CONSTANTS
    INPUT_BUFFER_SIZE,
    Byte,
    Length,            \* MESSAGE_TYPES_INFO: the struct's size of each known type byte
    Variable,          \* types whose second byte is the length of what follows
    Message,           \* messages clients send, as sequences of Byte
    Hello,             \* HELLO messages clients send
    GoodHello,         \* those client_hello() has nothing against
    MaxMessages,       \* bound: messages after the HELLO of a connection
    Trouble            \* which of "split", "abandon" connections meet, see below

\* The type bytes of Message that get_size_from_command() does not know are
\* there on purpose; the others head messages of the size it expects.
Known == DOMAIN Length
Size(m) == IF m[1] \in Variable THEN Length[m[1]] + m[2] ELSE Length[m[1]]
WellFormed(m) == m[1] \in Known /\ (m[1] \in Variable => Len(m) > 1) /\ Len(m) = Size(m)

HelloSize == 3
ASSUME LengthAssumption ==
    /\ Byte \subseteq Nat /\ 0 \in Byte
    /\ Known \subseteq Byte /\ Variable \subseteq Known
    /\ \A t \in Known : Length[t] \in Nat \ {0}
    /\ \A t \in Variable : Length[t] >= 2
ASSUME MessageAssumption ==
    /\ \A m \in Message : m \in Seq(Byte) /\ Len(m) \in 1..INPUT_BUFFER_SIZE
    /\ \A m \in Message : m[1] \in Known => WellFormed(m)
    /\ GoodHello \subseteq Hello
    /\ \A h \in Hello : h \in Seq(Byte) /\ Len(h) = HelloSize
ASSUME BoundsAssumption ==
    /\ INPUT_BUFFER_SIZE \in Nat /\ INPUT_BUFFER_SIZE >= HelloSize
    /\ MaxMessages \in Nat /\ Trouble \subseteq {"split", "abandon"}

VARIABLES
    at,          \* where the connection is: "none", "waiting", "slot"
    scanning,    \* client_data() is at work
    waiting,     \* the entry's buffer: data, off(set), avail(able)
    slot,        \* the slot's buffer
    hup,         \* the peer has closed or reset the connection
    wire,        \* bytes sent and not received
    hello,       \* history: the HELLO sent on the connection, or <<>>
    sent,        \* history: the messages sent after it
    handled,     \* history: the bytes each handler was run on
    verdict      \* what became of the HELLO: "none", "accepted", "refused"

server  == <<at, scanning, waiting, slot, handled, verdict>>
network == <<hup, wire, hello, sent>>
vars    == <<server, network>>

Index == 0..(INPUT_BUFFER_SIZE - 1)
Cleared == [i \in Index |-> 0]
Empty == [data |-> Cleared, off |-> 0, avail |-> 0]

Init ==
    /\ at = "none" /\ scanning = FALSE /\ waiting = Empty /\ slot = Empty
    /\ hup = FALSE /\ wire = <<>> /\ hello = <<>> /\ sent = <<>>
    /\ handled = <<>> /\ verdict = "none"

-----------------------------------------------------------------------------
(* A buffer.                                                               *)

RoomButOne(b) == INPUT_BUFFER_SIZE - b.avail - 1
Room(b) == INPUT_BUFFER_SIZE - b.avail

\* recv_data(): what is left moves to the front, new bytes come behind it.
ReceivedInPlace(b, bytes) ==
    [data  |-> [i \in Index |->
                   IF i \in b.avail..(b.avail + Len(bytes) - 1)
                   THEN bytes[i - b.avail + 1] ELSE b.data[i]],
     off   |-> 0,
     avail |-> b.avail + Len(bytes)]

Received(b, bytes) ==
    [data  |-> [i \in Index |->
                   CASE i < b.avail -> b.data[b.off + i]
                     [] i \in b.avail..(b.avail + Len(bytes) - 1)
                                    -> bytes[i - b.avail + 1]
                     [] OTHER       -> b.data[i]],
     off   |-> 0,
     avail |-> b.avail + Len(bytes)]

\* n bytes from the scan offset on, those beyond the array's end left out.
Bytes(b, n) ==
    [i \in 1..(IF b.off + n > INPUT_BUFFER_SIZE THEN INPUT_BUFFER_SIZE - b.off ELSE n)
        |-> b.data[b.off + i - 1]]

TypeByte(b) == b.data[b.off]

\* get_size_from_command(): 0 while the length byte is missing, -1 for a type
\* it does not know.
get_size_from_command(b) ==
    CASE TypeByte(b) \notin Known -> -1
      [] TypeByte(b) \in Variable -> IF b.avail > 1
                                     THEN Length[TypeByte(b)] + b.data[b.off + 1]
                                     ELSE 0
      [] OTHER                    -> Length[TypeByte(b)]

\* What a handler returns if it has no complaint.  It reads the length byte,
\* there or not: the byte behind the array belongs to bytes_available.
Used(b) ==
    IF TypeByte(b) \notin Variable THEN {Length[TypeByte(b)]}
    ELSE {Length[TypeByte(b)] + n :
             n \in IF b.off + 1 \in Index THEN {b.data[b.off + 1]} ELSE Byte}

-----------------------------------------------------------------------------
(* The client.  It waits for the answer to its HELLO before it goes on (as *)
(* init_connect() does), then sends as many messages as it likes.          *)

Connect ==
    /\ at = "none" /\ at' = "waiting"
    /\ hup' = FALSE /\ wire' = <<>> /\ hello' = <<>> /\ sent' = <<>>
    /\ handled' = <<>> /\ verdict' = "none"
    /\ UNCHANGED <<scanning, waiting, slot>>

SendHello(h) ==
    /\ at = "waiting" /\ hello = <<>> /\ ~hup
    /\ hello' = h /\ wire' = wire \o h
    /\ UNCHANGED <<server, hup, sent>>

SendMessage(m) ==
    /\ at = "slot" /\ ~hup /\ Len(sent) < MaxMessages
    /\ sent' = Append(sent, m) /\ wire' = wire \o m
    /\ UNCHANGED <<server, hup, hello>>

\* "abandon": a client may give up while its HELLO is under way.
PeerClose ==
    /\ at # "none" /\ ~hup
    /\ "abandon" \in Trouble \/ at = "slot" \/ hello = <<>>
    /\ hup' = TRUE
    /\ UNCHANGED <<server, wire, hello, sent>>

\* "split": what has been received may end behind the type byte of a message
\* of variable length.  k counts the bytes received of the messages in sent.
CutsHeader(k) ==
    \E i \in DOMAIN sent : /\ sent[i][1] \in Variable
                           /\ k = Len(FlattenSeq(SubSeq(sent, 1, i - 1))) + 1

Recv(b, n) ==
    /\ n \in 1..Len(wire) /\ n <= Room(b)
    /\ wire' = SubSeq(wire, n + 1, Len(wire))
    /\ UNCHANGED <<hup, hello, sent>>

-----------------------------------------------------------------------------
(* The waiting entry: recv_data(), then client_hello().                    *)

\* After a refusal, and after the move to a slot, the entry's buffer counts
\* as empty; the data stays.
AnsweredKeepingBytes(b, how) == waiting' = b /\ verdict' = how
Answered(b, how) == waiting' = [b EXCEPT !.off = 0, !.avail = 0] /\ verdict' = how

MovedKeepingSlot(b) == slot' = slot
Moved(b) == slot' = Empty

RecvHello(n) ==
    /\ at = "waiting" /\ Recv(waiting, n)
    /\ LET b == Received(waiting, SubSeq(wire, 1, n))
       IN  \/ /\ b.avail < HelloSize
              /\ waiting' = b
              /\ UNCHANGED <<at, slot, verdict>>
           \/ /\ b.avail >= HelloSize /\ Bytes(b, HelloSize) \in GoodHello
              /\ at' = "slot" /\ Moved(b) /\ Answered(b, "accepted")
           \/ /\ b.avail >= HelloSize /\ Bytes(b, HelloSize) \notin GoodHello
              /\ at' = "none" /\ slot' = slot /\ Answered(b, "refused")
    /\ UNCHANGED <<scanning, handled>>

\* The entry is free again; how much its buffer holds is not reset.
WaitingRecvFails ==
    /\ at = "waiting" /\ hup /\ at' = "none"
    /\ UNCHANGED <<scanning, waiting, slot, handled, verdict, network>>

-----------------------------------------------------------------------------
(* The slot: recv_data(), then client_data()'s loop, one step a message.   *)

\* Whether the loop of client_data() has more to look at.
ScansOnce(b) == FALSE
ScansOn(b) == b.avail > 0

RecvSlot(n) ==
    /\ at = "slot" /\ ~scanning /\ Recv(slot, n)
    /\ "split" \in Trouble \/ ~CutsHeader(Len(FlattenSeq(sent)) - Len(wire) + n)
    /\ slot' = Received(slot, SubSeq(wire, 1, n))
    /\ scanning' = TRUE
    /\ UNCHANGED <<at, waiting, handled, verdict>>

\* End of stream, a reset, or recv() of no bytes into a full buffer.
RecvFails ==
    /\ at = "slot" /\ ~scanning
    /\ hup \/ (Room(slot) = 0 /\ wire # <<>>)
    /\ at' = "none" /\ slot' = [slot EXCEPT !.off = 0]
    /\ UNCHANGED <<scanning, waiting, handled, verdict, network>>

Scanning == at = "slot" /\ scanning /\ UNCHANGED <<waiting, verdict, network>>

\* An unknown type: the byte stays where it is.
InvalidMessage ==
    /\ Scanning /\ get_size_from_command(slot) < 0
    /\ scanning' = FALSE /\ UNCHANGED <<at, slot, handled>>

Incomplete(b) == b.avail < get_size_from_command(b)

ShortRead ==
    /\ Scanning /\ Incomplete(slot)
    /\ scanning' = FALSE /\ UNCHANGED <<at, slot, handled>>

AdvanceOffset(b, ret) == [b EXCEPT !.off = @ + ret]
Advance(b, ret) == [b EXCEPT !.off = @ + ret, !.avail = @ - ret]

Handle ==
    /\ Scanning /\ get_size_from_command(slot) >= 0 /\ ~Incomplete(slot)
    /\ \E ret \in Used(slot) : /\ slot' = Advance(slot, ret)
                              /\ handled' = Append(handled, Bytes(slot, ret))
    /\ scanning' = ScansOn(slot')
    /\ UNCHANGED at

\* The handler returns -1, or the message is a QUIT.
HandleFails ==
    /\ Scanning /\ get_size_from_command(slot) >= 0 /\ ~Incomplete(slot)
    /\ at' = "none" /\ scanning' = FALSE
    /\ slot' \in {slot, [slot EXCEPT !.off = 0]}
    /\ UNCHANGED handled

-----------------------------------------------------------------------------
Client ==
    \/ Connect \/ PeerClose
    \/ \E h \in Hello : SendHello(h)
    \/ \E m \in Message : SendMessage(m)

Server ==
    \/ \E n \in 1..INPUT_BUFFER_SIZE : RecvHello(n) \/ RecvSlot(n)
    \/ WaitingRecvFails \/ RecvFails
    \/ InvalidMessage \/ ShortRead \/ Handle \/ HandleFails

Next == Client \/ Server

\* recv() is called again as long as select() reports the connection.
Spec == Init /\ [][Next]_vars /\ WF_vars(Server)

-----------------------------------------------------------------------------
(* Properties.                                                             *)

Buffer == [data : [Index -> Byte], off : 0..INPUT_BUFFER_SIZE, avail : 0..INPUT_BUFFER_SIZE]

\* Every variable keeps its type, and no buffer claims bytes past its end: the
\* pointer arithmetic of recv_data() and client_data() stays in the array.
TypeOK ==
    /\ at \in {"none", "waiting", "slot"} /\ scanning \in BOOLEAN /\ hup \in BOOLEAN
    /\ waiting \in Buffer /\ slot \in Buffer
    /\ \A b \in {waiting, slot} : b.off + b.avail <= INPUT_BUFFER_SIZE
    /\ wire \in Seq(Byte) /\ hello \in Hello \cup {<<>>}
    /\ verdict \in {"none", "accepted", "refused"}
    /\ scanning => at = "slot" /\ slot.avail > 0

\* However the stream is cut up, what the handlers have used, what the buffer
\* holds and what is under way are what the client sent, in order: no byte is
\* lost, repeated or moved where a wrapped or partly used buffer is shifted.
NothingLost ==
    at = "slot" =>
        FlattenSeq(handled) \o Bytes(slot, slot.avail) \o wire = FlattenSeq(sent)

\* Handlers run on the client's messages, each whole and in the order sent
\* (input-server.c:490 of a short message: "we need additional bytes"), and on
\* nothing that an earlier connection left in the slot's buffer.
HandledAsSent == at = "slot" => IsPrefix(handled, sent)

\* A full buffer makes recv() return 0, which the server takes for a hang-up:
\* that happens only behind a type byte it could not make sense of, never in
\* the middle of a long message or between short ones.
RoomForTheRest ==
    at = "slot" /\ ~scanning /\ Room(slot) = 0 => TypeByte(slot) \notin Known

\* The answer to a connection's first message depends on that message and on
\* nothing an earlier connection left in the entry's buffer (protocol.md: what
\* a refused client reads is the reason for it, VERSION_MISMATCH say that "The
\* server does not support the protocol version indicated by the client").
HelloJudged ==
    /\ verdict = "accepted" => hello \in GoodHello
    /\ verdict = "refused"  => hello \notin GoodHello

\* A message of a client that stays connected is handled at last, if nothing
\* before it is of an unknown type.
Delivered ==
    \A n \in 1..MaxMessages :
        (at = "slot" /\ Len(sent) >= n /\ \A i \in 1..n : WellFormed(sent[i]))
            ~> (Len(handled) >= n \/ at # "slot")
=============================================================================
