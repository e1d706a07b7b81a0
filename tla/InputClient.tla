---------------------------- MODULE InputClient ----------------------------
(***************************************************************************)
(* The input-client program (client/input-client.c) and its end of the TCP *)
(* connection (send_message and recv_message of common/network.h): it      *)
(* shakes hands with the server, then reads events from its input device   *)
(* and sends them, reopening the device when it goes away.  What a client  *)
(* sends is a sequence of messages; what it receives a sequence of bytes,  *)
(* because the answers differ in length and recv() may end within one.     *)
(*                                                                         *)
(* A member of Client is one execution of the program, which makes one     *)
(* connection.  Session adds the server's end of the connections.          *)
(***************************************************************************)
EXTENDS Integers, SequencesExt

CONSTANTS
    Client,             \* executions of input-client
    Version,            \* protocol versions the clients were built with
    SlotOption,         \* values of --continue; 0 without it
    Password,           \* contents of PASSWORD messages
    Codes,              \* the type/code pairs of each one's input device, in
                        \* their order
    AbsCodes,           \* those of type EV_ABS
    Skipped,            \* those of types EV_REP and EV_LED
    reopen_attempts,    \* value of --reopen; -1 for no limit
    MaxEvents           \* bound: events read from an input device

ASSUME CodesAssumption ==
    /\ \A c \in Client : Codes[c] \in Seq(ToSet(Codes[c])) /\ IsInjective(Codes[c])
    /\ AbsCodes \cap Skipped = {}
ASSUME OptionsAssumption ==
    /\ SlotOption \subseteq Nat /\ Version \subseteq Nat
    /\ reopen_attempts \in Nat \cup {-1} /\ MaxEvents \in Nat

VARIABLES
    pc,         \* where the program is
    slot,       \* config->slot
    buf,        \* what recv_message() has received of an answer
    next,       \* the next of the messages setup_device() sends
    again,      \* init_connect() was called from the streaming loop
    tries,      \* device_reopen()'s counter, while it runs
    quit_signal,
    reads,      \* history: events read from the input device
    sock,       \* the client's end of the connection: "none", "open", "closed"
    broken,     \* a send() has failed on it: all others will
    gone,       \* connections whose other end, or the network, is gone
    left,       \* history: clients that have sent QUIT
    up,         \* messages sent and not yet received by the server
    down        \* bytes sent by the server and not yet received: <<type>> for a
                \* message type, <<"slot", s>> for a slot

program    == <<pc, slot, buf, next, again, tries, quit_signal, reads>>
wire       == <<sock, broken, gone, up, down>>
clientVars == <<program, wire, left>>

ClientInit ==
    /\ pc = [c \in Client |-> "start"] /\ slot \in [Client -> SlotOption]
    /\ buf = [c \in Client |-> <<>>] /\ next = [c \in Client |-> 1]
    /\ again = [c \in Client |-> FALSE] /\ tries = [c \in Client |-> 0]
    /\ quit_signal = [c \in Client |-> FALSE]
    /\ reads = [c \in Client |-> 0]
    /\ sock = [c \in Client |-> "none"] /\ broken = [c \in Client |-> FALSE]
    /\ gone = {} /\ left = {}
    /\ up = [c \in Client |-> <<>>] /\ down = [c \in Client |-> <<>>]

\* Where recv_message() may be blocking, and where the handshake is over.
Awaiting  == {"answer", "verdict", "result"}
Streaming == {"stream", "read", "reopen"}

At(c, p) == pc[c] = p
Goto(c, p) == pc' = [pc EXCEPT ![c] = p]

-----------------------------------------------------------------------------
(* The socket.                                                             *)

\* When the other end is gone a send() may yet succeed, for nothing; once one
\* has failed, all do.
Sends(c, m) ==
    /\ ~broken[c]
    /\ up' = IF c \in gone THEN up ELSE [up EXCEPT ![c] = Append(@, m)]
    /\ UNCHANGED <<sock, broken, gone, down>>

CannotSend(c) == c \in gone \/ broken[c]

\* A socket closed over unread bytes resets the connection: what is under way
\* in the other direction may be lost, from some point on.
Survivors(q, unread) == IF unread = <<>> THEN {q} ELSE Prefixes(q)

Closes(c, q) ==
    /\ sock' = [sock EXCEPT ![c] = "closed"]
    /\ \E rest \in Survivors(q, down[c]) : up' = [up EXCEPT ![c] = rest]
    /\ down' = [down EXCEPT ![c] = <<>>]
    /\ UNCHANGED <<broken, gone>>

-----------------------------------------------------------------------------
(* init_connect(), up to the answer the server owes the client next.       *)

Unchanged(c) == UNCHANGED <<slot, again, tries, reads>>

\* In run() the socket is closed and the program ends; called again, from the
\* streaming loop, init_connect() makes the loop end.
ConnectFails(c) ==
    /\ IF again[c] THEN Goto(c, "leave") /\ UNCHANGED wire
                   ELSE Goto(c, "exited") /\ Closes(c, up[c])
    /\ buf' = [buf EXCEPT ![c] = <<>>] /\ next' = [next EXCEPT ![c] = 1]
    /\ Unchanged(c)

SendHello(c) ==
    /\ At(c, "hello")
    /\ \/ /\ \E v \in Version : Sends(c, <<"HELLO", v, slot[c]>>)
          /\ Goto(c, "answer") /\ UNCHANGED <<buf, next>> /\ Unchanged(c)
       \/ CannotSend(c) /\ ConnectFails(c)

\* A password may be too long for the message.
SendPassword(c) ==
    /\ At(c, "password")
    /\ \/ /\ \E p \in Password : Sends(c, <<"PASSWORD", p>>)
          /\ Goto(c, "verdict") /\ UNCHANGED <<buf, next>> /\ Unchanged(c)
       \/ ConnectFails(c)

\* setup_device(): the name, then the codes EVIOCGBIT reports, an axis with its
\* extents, then the end.  Two types are passed over.
RequestsDescribed(code) ==
    CASE code \in Skipped  -> <<>>
      [] code \in AbsCodes -> <<<<"ABSINFO", code>>>>
      [] OTHER             -> <<<<"REQUEST_EVENT", code>>>>
Requests(code) ==
    CASE code \in Skipped  -> <<>>
      [] code \in AbsCodes -> <<<<"REQUEST_EVENT", code>>, <<"ABSINFO", code>>>>
      [] OTHER             -> <<<<"REQUEST_EVENT", code>>>>

SetupMessages(c) ==
    <<<<"DEVICE">>>> \o FlattenSeq([i \in DOMAIN Codes[c] |-> Requests(Codes[c][i])])
        \o <<<<"SETUP_END">>>>

\* An ioctl() on the input device may fail meanwhile.
SendSetupPastTheEnd(c) ==
    /\ At(c, "setup")
    /\ \/ Sends(c, SetupMessages(c)[next[c]]) /\ next' = [next EXCEPT ![c] = @ + 1] /\ pc' = pc
       \/ next[c] = Len(SetupMessages(c)) /\ Goto(c, "result") /\ UNCHANGED <<next, wire>>
    /\ buf' = buf /\ Unchanged(c)
SendSetup(c) ==
    /\ At(c, "setup")
    /\ \/ /\ Sends(c, SetupMessages(c)[next[c]])
          /\ IF next[c] < Len(SetupMessages(c))
             THEN next' = [next EXCEPT ![c] = @ + 1] /\ pc' = pc
             ELSE next' = [next EXCEPT ![c] = 1] /\ Goto(c, "result")
          /\ buf' = buf /\ Unchanged(c)
       \/ ConnectFails(c)

-----------------------------------------------------------------------------
(* recv_message(): the loop goes on until the size of the answer is known  *)
(* and reached; whatever comes with it is discarded, as no caller asks for *)
(* it.                                                                     *)

\* get_size_from_command() of an answer.
AnswerSizeOne(type) == 1
AnswerSize(type) == IF type \in {"SUCCESS", "VERSION_MISMATCH"} THEN 2 ELSE 1

TypeOf(b) == b[1][1]
Complete(b) == b # <<>> /\ Len(b) >= AnswerSize(TypeOf(b))

Recv(c, n) ==
    /\ pc[c] \in Awaiting /\ ~Complete(buf[c])
    /\ n \in 1..Len(down[c])
    /\ buf' = [buf EXCEPT ![c] = @ \o SubSeq(down[c], 1, n)]
    /\ down' = [down EXCEPT ![c] = SubSeq(@, n + 1, Len(@))]
    /\ UNCHANGED <<pc, next, sock, broken, gone, up>> /\ Unchanged(c)

\* End of stream or an error; half an answer is forgotten.
RecvFails(c) ==
    /\ pc[c] \in Awaiting /\ ~Complete(buf[c])
    /\ c \in gone /\ down[c] = <<>>
    /\ ConnectFails(c)

(* What init_connect() does with an answer.                                *)

Expected == [answer  |-> {"PASSWORD_REQUIRED", "SETUP_REQUIRED", "SUCCESS"},
             verdict |-> {"SETUP_REQUIRED", "SUCCESS"},
             result  |-> {"SUCCESS"}]

Answered(c) == pc[c] \in Awaiting /\ Complete(buf[c])
Gets(c, type) == Answered(c) /\ TypeOf(buf[c]) = type /\ type \in Expected[pc[c]]

Proceed(c, p) ==
    /\ Goto(c, p) /\ buf' = [buf EXCEPT ![c] = <<>>]
    /\ UNCHANGED <<next, again, tries, reads, wire>>

PasswordRequired(c) ==
    Gets(c, "PASSWORD_REQUIRED") /\ Proceed(c, "password") /\ UNCHANGED slot

SetupRequired(c) == Gets(c, "SETUP_REQUIRED") /\ Proceed(c, "setup") /\ UNCHANGED slot

\* The slot is what follows the type byte, or what the array holds there: some
\* byte, 0 here.
SlotByte(b) == IF Len(b) > 1 THEN b[2][2] ELSE 0

Success(c) ==
    /\ Gets(c, "SUCCESS")
    /\ slot' = [slot EXCEPT ![c] = SlotByte(buf[c])]
    /\ Proceed(c, IF again[c] THEN "stream" ELSE "grab")

Refused(c) ==
    /\ Answered(c) /\ TypeOf(buf[c]) \notin Expected[pc[c]]
    /\ ConnectFails(c)

-----------------------------------------------------------------------------
(* run() and device_reopen().                                              *)

Elsewhere(c) == UNCHANGED <<slot, buf, next>>

Connect(c) ==
    /\ At(c, "start") /\ Goto(c, "hello")
    /\ sock' = [sock EXCEPT ![c] = "open"]
    /\ UNCHANGED <<broken, gone, up, down, again, tries, reads>>
    /\ Elsewhere(c)

CannotConnect(c) ==
    /\ At(c, "start") /\ Goto(c, "exited")
    /\ UNCHANGED <<wire, again, tries, reads>> /\ Elsewhere(c)

\* Without the device to itself the program ends, and sends no QUIT.
Grab(c) ==
    /\ At(c, "grab")
    /\ \/ Goto(c, "stream") /\ UNCHANGED wire
       \/ Goto(c, "exited") /\ Closes(c, up[c])
    /\ UNCHANGED <<again, tries, reads>> /\ Elsewhere(c)

LoopTest(c) ==
    /\ At(c, "stream") /\ Goto(c, IF quit_signal[c] THEN "leave" ELSE "read")
    /\ UNCHANGED <<wire, again, tries, reads>> /\ Elsewhere(c)

\* After EPIPE or ECONNRESET the handshake is tried again, on the same socket;
\* after any other error the loop ends.  The event is not sent again.
ReadEvent(c) ==
    /\ At(c, "read") /\ reads[c] < MaxEvents
    /\ reads' = [reads EXCEPT ![c] = @ + 1]
    /\ \/ /\ Sends(c, <<"DATA", reads[c] + 1>>)
          /\ Goto(c, "stream") /\ again' = again
       \/ /\ CannotSend(c)
          /\ broken' = [broken EXCEPT ![c] = TRUE]
          /\ \/ Goto(c, "hello") /\ again' = [again EXCEPT ![c] = TRUE]
             \/ Goto(c, "leave") /\ again' = again
          /\ UNCHANGED <<sock, gone, up, down>>
    /\ UNCHANGED tries /\ Elsewhere(c)

ToReopen(c) ==
    Goto(c, "reopen") /\ tries' = [tries EXCEPT ![c] = reopen_attempts]

\* The input device has gone.
ReadFails(c) ==
    /\ At(c, "read") /\ ToReopen(c)
    /\ UNCHANGED <<wire, again, reads>> /\ Elsewhere(c)

GivesUpOutOfTries(c) == tries[c] = 0
GivesUp(c) == quit_signal[c] \/ tries[c] = 0

\* The device is still missing; a counter below 0 never gets to 0, and is not
\* followed any further.
Retry(c) ==
    /\ At(c, "reopen")
    /\ \/ GivesUp(c) /\ Goto(c, "leave") /\ tries' = [tries EXCEPT ![c] = 0]
       \/ ~GivesUp(c) /\ tries[c] > 0 /\ tries' = [tries EXCEPT ![c] = @ - 1] /\ pc' = pc
    /\ UNCHANGED <<wire, again, reads>> /\ Elsewhere(c)

\* The device is back, for this program or for another.
Reopen(c) ==
    /\ At(c, "reopen") /\ ~GivesUp(c)
    /\ Goto(c, "stream") \/ Goto(c, "leave")
    /\ tries' = [tries EXCEPT ![c] = 0]
    /\ UNCHANGED <<wire, again, reads>> /\ Elsewhere(c)

\* QUIT, as far as the connection takes it, and the end.
LeaveWithoutQuit(c) ==
    /\ At(c, "leave") /\ Goto(c, "exited") /\ Closes(c, up[c])
    /\ left' = left \cup {c}
    /\ UNCHANGED <<again, tries, reads>> /\ Elsewhere(c)
Leave(c) ==
    /\ At(c, "leave") /\ Goto(c, "exited")
    /\ \/ /\ ~broken[c] /\ c \notin gone
          /\ left' = left \cup {c} /\ Closes(c, Append(up[c], <<"QUIT">>))
       \/ CannotSend(c) /\ left' = left /\ Closes(c, up[c])
    /\ UNCHANGED <<again, tries, reads>> /\ Elsewhere(c)

-----------------------------------------------------------------------------
(* The steps of the program, and those of its user and its surroundings.   *)

Handshake(c) ==
    \/ SendHello(c) \/ SendPassword(c) \/ SendSetup(c)
    \/ \E n \in 1..Len(down[c]) : Recv(c, n)
    \/ RecvFails(c)
    \/ PasswordRequired(c) \/ SetupRequired(c) \/ Success(c) \/ Refused(c)

Program(c) ==
    /\ \/ (Handshake(c) \/ Grab(c) \/ LoopTest(c) \/ Retry(c)) /\ left' = left
       \/ Leave(c)
    /\ UNCHANGED quit_signal

\* The input device moves, goes away or comes back.
Input(c) == (ReadEvent(c) \/ ReadFails(c) \/ Reopen(c)) /\ UNCHANGED <<quit_signal, left>>

\* SIGINT sets the flag.  A recv() or read() that is blocking then fails with
\* EINTR, but the flag may be set just before it is called as well.
Interrupt(c) ==
    /\ pc[c] \notin {"start", "exited"}
    /\ quit_signal' = [quit_signal EXCEPT ![c] = TRUE]
    /\ left' = left
    /\ \/ UNCHANGED <<pc, slot, buf, next, again, tries, reads, wire>>
       \/ pc[c] \in Awaiting /\ ~Complete(buf[c]) /\ ConnectFails(c)
       \/ /\ At(c, "read") /\ ToReopen(c)
          /\ UNCHANGED <<slot, buf, next, again, reads, wire>>

\* The program is killed, or its machine stops: the kernel closes the socket.
Kill(c) ==
    /\ pc[c] \notin {"start", "exited"} /\ Goto(c, "exited") /\ Closes(c, up[c])
    /\ buf' = [buf EXCEPT ![c] = <<>>] /\ next' = [next EXCEPT ![c] = 1]
    /\ tries' = [tries EXCEPT ![c] = 0]
    /\ UNCHANGED <<slot, again, quit_signal, reads, left>>

Surroundings(c) == Input(c) \/ Interrupt(c) \/ Kill(c)
=============================================================================
