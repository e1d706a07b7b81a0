--------------------------- MODULE SessionProofs ---------------------------
(***************************************************************************)
(* Proofs about Session, for any number of clients and slots and every     *)
(* input device.                                                           *)
(***************************************************************************)
EXTENDS Session, SequenceLemmas

-----------------------------------------------------------------------------
(* What setup_device() sends.                                              *)

RequestsOf == {<<t, code>> : t \in {"REQUEST_EVENT", "ABSINFO"}, code \in AnyCode}
PerCode(c) == [i \in DOMAIN Codes[c] |-> Requests(Codes[c][i])]

LEMMA CodesFacts ==
    ASSUME NEW c \in Client
    PROVE  /\ Len(Codes[c]) \in Nat /\ DOMAIN Codes[c] = 1..Len(Codes[c])
           /\ \A i \in 1..Len(Codes[c]) : Codes[c][i] \in ToSet(Codes[c])
           /\ \A code \in ToSet(Codes[c]) : \E i \in 1..Len(Codes[c]) : code = Codes[c][i]
           /\ ToSet(Codes[c]) \subseteq AnyCode
<1>1. PICK q : q = Codes[c]
  OBVIOUS
<1>2. q \in Seq(ToSet(q))
  BY <1>1, CodesAssumption
<1>3. /\ Len(q) \in Nat /\ DOMAIN q = 1..Len(q)
      /\ \A i \in 1..Len(q) : q[i] \in ToSet(q)
      /\ \A code \in ToSet(q) : \E i \in 1..Len(q) : code = q[i]
  BY <1>2, LenProperties DEF ToSet
<1>4. ToSet(q) \subseteq AnyCode
  BY <1>1 DEF AnyCode
<1>. QED BY <1>1, <1>3, <1>4

LEMMA RequestsFacts ==
    ASSUME NEW code \in AnyCode
    PROVE  /\ Requests(code) \in Seq(RequestsOf) /\ Len(Requests(code)) \in Nat
           /\ code \notin Skipped => /\ Len(Requests(code)) # 0
                                     /\ Requests(code)[1] = <<"REQUEST_EVENT", code>>
<1>1. <<"REQUEST_EVENT", code>> \in RequestsOf /\ <<"ABSINFO", code>> \in RequestsOf
  BY DEF RequestsOf
<1>2. PICK r, a : r = <<"REQUEST_EVENT", code>> /\ a = <<"ABSINFO", code>>
  OBVIOUS
<1>. HIDE DEF RequestsOf
<1>3. CASE code \in Skipped
  <2>1. Requests(code) = <<>>
    BY <1>3, CodesAssumption DEF Requests
  <2>. QED BY <2>1, <1>3
<1>4. CASE code \notin Skipped /\ code \in AbsCodes
  <2>1. Requests(code) = <<r, a>>
    BY <1>2, <1>4 DEF Requests
  <2>. QED BY <2>1, <1>1, <1>2, <1>4
<1>5. CASE code \notin Skipped /\ code \notin AbsCodes
  <2>1. Requests(code) = <<r>>
    BY <1>2, <1>5 DEF Requests
  <2>. QED BY <2>1, <1>1, <1>2, <1>5
<1>. QED BY <1>3, <1>4, <1>5

LEMMA PerCodeFacts ==
    ASSUME NEW c \in Client
    PROVE  /\ PerCode(c) \in Seq(Seq(RequestsOf)) /\ Len(PerCode(c)) = Len(Codes[c])
           /\ \A i \in 1..Len(Codes[c]) : PerCode(c)[i] = Requests(Codes[c][i])
<1>1. \A i \in 1..Len(Codes[c]) : PerCode(c)[i] = Requests(Codes[c][i])
  BY CodesFacts DEF PerCode
<1>2. PerCode(c) \in [1..Len(Codes[c]) -> Seq(RequestsOf)]
  BY CodesFacts, RequestsFacts DEF PerCode
<1>3. PerCode(c) \in Seq(Seq(RequestsOf))
  BY <1>2, CodesFacts, SeqDef
<1>4. DOMAIN PerCode(c) = 1..Len(Codes[c])
  BY <1>2
<1>5. Len(PerCode(c)) = Len(Codes[c])
  BY <1>3, <1>4, CodesFacts, LenProperties
<1>. QED BY <1>1, <1>3, <1>5

\* The requests alone, without the name before and the end behind them.
Middle(c) == FlattenSeq(PerCode(c))

LEMMA MiddleFacts ==
    ASSUME NEW c \in Client
    PROVE  /\ Middle(c) \in Seq(RequestsOf)
           /\ \A code \in ToSet(Codes[c]) \ Skipped :
                 \E j \in 1..Len(Middle(c)) : Middle(c)[j] = <<"REQUEST_EVENT", code>>
<1>1. Middle(c) \in Seq(RequestsOf)
  BY PerCodeFacts, FlattenTyped DEF Middle
<1>2. ASSUME NEW code \in ToSet(Codes[c]) \ Skipped
      PROVE  \E j \in 1..Len(Middle(c)) : Middle(c)[j] = <<"REQUEST_EVENT", code>>
  <2>1. PICK i \in 1..Len(Codes[c]) : code = Codes[c][i]
    BY CodesFacts
  <2>2. PICK h : h = i - 1
    OBVIOUS
  <2>3. PICK p : p = PerCode(c)
    OBVIOUS
  <2>4. p \in Seq(Seq(RequestsOf)) /\ h \in 0..(Len(p) - 1) /\ h + 1 = i
    BY <2>1, <2>2, <2>3, PerCodeFacts, CodesFacts
  <2>5. FlattenedAt(p, h, RequestsOf)
    BY <2>4, FlattenAt
  <2>6. p[h + 1] = Requests(code)
    BY <2>1, <2>3, <2>4, PerCodeFacts
  <2>7. PICK a : a = FlattenSeq(SubSeq(p, 1, h))
    OBVIOUS
  <2>8. Begins(Middle(c), a, Requests(code), RequestsOf)
    BY <2>3, <2>5, <2>6, <2>7 DEF FlattenedAt, Middle
  <2>9. PICK rest \in Seq(RequestsOf) : Middle(c) = a \o (Requests(code) \o rest)
    BY <2>8 DEF Begins
  <2>10. a \in Seq(RequestsOf)
    <3>1. \A j \in 1..h : p[j] \in Seq(RequestsOf)
      BY <2>4, ElementOfSeq
    <3>2. SubSeq(p, 1, h) \in Seq(Seq(RequestsOf))
      BY <2>4, <3>1, SubSeqProperties
    <3>. QED BY <3>2, <2>7, FlattenTyped
  <2>11. PICK b : b = Requests(code) \o rest
    OBVIOUS
  <2>12. b \in Seq(RequestsOf) /\ Len(b) \in Nat \ {0} /\ b[1] = <<"REQUEST_EVENT", code>>
    <3>1. code \in AnyCode
      BY CodesFacts
    <3>2. PICK r : r = Requests(code)
      OBVIOUS
    <3>3. r \in Seq(RequestsOf) /\ Len(r) \in Nat \ {0} /\ r[1] = <<"REQUEST_EVENT", code>>
      BY <3>1, <3>2, RequestsFacts
    <3>. QED BY <2>9, <2>11, <3>2, <3>3, ConcatProperties
  <2>13. Len(a) + 1 \in 1..Len(Middle(c)) /\ Middle(c)[Len(a) + 1] = b[1]
    <3>1. Middle(c) = a \o b
      BY <2>9, <2>11
    <3>2. Len(a) \in Nat
      BY <2>10, LenProperties
    <3>. QED BY <3>1, <3>2, <2>10, <2>12, ConcatProperties
  <2>. QED BY <2>12, <2>13
<1>. QED BY <1>1, <1>2

SetupType == {"DEVICE", "REQUEST_EVENT", "ABSINFO", "SETUP_END"}
IsRequest(m, code) == m[1] = "REQUEST_EVENT" /\ m[2] = code

LEMMA SetupFacts ==
    ASSUME NEW c \in Client
    PROVE
    /\ SetupMessages(c) \in Seq(Messages) /\ Len(SetupMessages(c)) \in Nat
    /\ Len(SetupMessages(c)) >= 2 /\ DOMAIN SetupMessages(c) = 1..Len(SetupMessages(c))
    /\ \A i \in 1..Len(SetupMessages(c)) :
          /\ SetupMessages(c)[i] \in Messages /\ SetupMessages(c)[i][1] \in SetupType
          /\ SetupMessages(c)[i][1] = "SETUP_END" <=> i = Len(SetupMessages(c))
          /\ SetupMessages(c)[i][1] = "REQUEST_EVENT" => SetupMessages(c)[i][2] \in AnyCode
    /\ \A code \in ToSet(Codes[c]) \ Skipped :
          \E i \in 1..Len(SetupMessages(c)) : IsRequest(SetupMessages(c)[i], code)
<1> DEFINE n == Len(Middle(c))
<1>1. n \in Nat /\ \A i \in 1..n : Middle(c)[i] \in RequestsOf
  BY MiddleFacts, LenProperties, ElementOfSeq
<1>2. /\ <<"DEVICE">> \in Messages /\ <<"SETUP_END">> \in Messages
      /\ RequestsOf \subseteq Messages
  BY DEF Messages, RequestsOf
<1>3. Middle(c) \in Seq(Messages)
  BY <1>1, <1>2, MiddleFacts, SeqDef
<1>4. PICK d, e : d = <<"DEVICE">> /\ e = <<"SETUP_END">>
  OBVIOUS
<1>5. d[1] = "DEVICE" /\ e[1] = "SETUP_END" /\ d \in Messages /\ e \in Messages
  BY <1>2, <1>4
<1>6. \A m \in RequestsOf : /\ m[1] \in {"REQUEST_EVENT", "ABSINFO"} /\ m[2] \in AnyCode
                            /\ m \in Messages
  BY <1>2 DEF RequestsOf
<1>7. SetupMessages(c) = (<<d>> \o Middle(c)) \o <<e>>
  BY <1>4 DEF SetupMessages, Middle, PerCode
<1>. HIDE DEF n
<1>8. /\ SetupMessages(c) \in Seq(Messages) /\ Len(SetupMessages(c)) = n + 2
      /\ SetupMessages(c)[1] = d /\ SetupMessages(c)[n + 2] = e
      /\ \A i \in 1..n : SetupMessages(c)[i + 1] = Middle(c)[i]
  <2>1. PICK q : q = <<d>> \o Middle(c)
    OBVIOUS
  <2>2. /\ q \in Seq(Messages) /\ Len(q) = n + 1 /\ q[1] = d
        /\ \A i \in 1..n : q[i + 1] = Middle(c)[i]
    <3>1. <<d>> \in Seq(Messages) /\ Len(<<d>>) = 1 /\ <<d>>[1] = d
      BY <1>5
    <3>. QED BY <2>1, <3>1, <1>1, <1>3, ConcatProperties DEF n
  <2>3. <<e>> \in Seq(Messages) /\ Len(<<e>>) = 1 /\ <<e>>[1] = e
    BY <1>5
  <2>4. SetupMessages(c) = q \o <<e>>
    BY <1>7, <2>1
  <2>. QED BY <2>2, <2>3, <2>4, <1>1, ConcatProperties
<1>9. ASSUME NEW i \in 1..(n + 2)
      PROVE  \/ i = 1 /\ SetupMessages(c)[i] = d
             \/ i = n + 2 /\ SetupMessages(c)[i] = e
             \/ i - 1 \in 1..n /\ i # n + 2 /\ SetupMessages(c)[i] = Middle(c)[i - 1]
                /\ Middle(c)[i - 1] \in RequestsOf
  BY <1>1, <1>8
<1>10. /\ SetupMessages(c) \in Seq(Messages) /\ Len(SetupMessages(c)) \in Nat
       /\ Len(SetupMessages(c)) >= 2 /\ DOMAIN SetupMessages(c) = 1..Len(SetupMessages(c))
  BY <1>1, <1>8, LenProperties
<1>11. ASSUME NEW i \in 1..Len(SetupMessages(c))
       PROVE  /\ SetupMessages(c)[i] \in Messages /\ SetupMessages(c)[i][1] \in SetupType
              /\ SetupMessages(c)[i][1] = "SETUP_END" <=> i = Len(SetupMessages(c))
              /\ SetupMessages(c)[i][1] = "REQUEST_EVENT" => SetupMessages(c)[i][2] \in AnyCode
  <2>1. i \in 1..(n + 2) /\ Len(SetupMessages(c)) = n + 2 /\ 1 # n + 2
    BY <1>1, <1>8
  <2>. QED BY <2>1, <1>5, <1>6, <1>9 DEF SetupType
<1>12. ASSUME NEW code \in ToSet(Codes[c]) \ Skipped
       PROVE  \E i \in 1..Len(SetupMessages(c)) : IsRequest(SetupMessages(c)[i], code)
  <2>1. PICK j \in 1..Len(Middle(c)) : Middle(c)[j] = <<"REQUEST_EVENT", code>>
    BY MiddleFacts
  <2>2. j + 1 \in 1..Len(SetupMessages(c)) /\ SetupMessages(c)[j + 1] = Middle(c)[j]
    BY <1>1, <1>8 DEF n
  <2>. QED BY <2>1, <2>2 DEF IsRequest
<1>. QED BY <1>10, <1>11, <1>12
-----------------------------------------------------------------------------
(* The inductive invariant.                                                *)

Places == {"start", "hello", "password", "setup", "grab", "leave", "exited"}
          \cup Awaiting \cup Streaming
Replies == {"PASSWORD_REQUIRED", "INVALID_PASSWORD", "SETUP_REQUIRED", "SUCCESS", "INVALID",
            "VERSION_MISMATCH", "INVALID_CLIENT_SLOT", "CLIENT_SLOT_IN_USE",
            "CLIENT_SLOTS_EXHAUSTED"}
AnswerByte == {<<t>> : t \in Replies} \cup {<<"slot", s>> : s \in Slots}
Statuses == {"RESERVED_UNCONN", "PASSWORD_REQUIRED", "INVALID_PASSWORD", "SETUP_REQUIRED", "SUCCESS"}
Tries == -1..IF reopen_attempts < 0 THEN 0 ELSE reopen_attempts

ProgramTyped ==
    /\ pc \in [Client -> Places] /\ slot \in [Client -> SlotOption \cup Slots]
    /\ buf \in [Client -> Seq(AnswerByte)] /\ next \in [Client -> Nat]
    /\ \A c \in Client : next[c] \in 1..Len(SetupMessages(c))
    /\ again \in [Client -> BOOLEAN] /\ tries \in [Client -> Tries]
    /\ quit_signal \in [Client -> BOOLEAN] /\ reads \in [Client -> 0..MaxEvents]

WireTyped ==
    /\ sock \in [Client -> {"none", "open", "closed"}] /\ broken \in [Client -> BOOLEAN]
    /\ gone \subseteq Client /\ left \subseteq Client
    /\ up \in [Client -> Seq(Messages)] /\ down \in [Client -> Seq(AnswerByte)]

ServerTyped ==
    /\ queue \subseteq Client /\ fd \in [Slots -> Client \cup {NULL}]
    /\ status \in [Slots -> Statuses] /\ requested \in [Slots -> SUBSET AnyCode]
    /\ device \in [Slots -> (SUBSET AnyCode) \cup {NULL}]
    /\ written \in [Client -> Seq(1..MaxEvents)]

Typed == ProgramTyped /\ WireTyped /\ ServerTyped

\* One place for a connection: one slot, or the queue.
Owners ==
    /\ \A s, t \in Slots : fd[s] = fd[t] /\ fd[s] # NULL => s = t
    /\ \A s \in Slots : fd[s] \notin queue
    /\ \A s \in Slots : fd[s] # NULL => status[s] # "RESERVED_UNCONN"
Placed(c) == c \in queue \/ \E s \in Slots : fd[s] = c

\* A connection that both ends, and the network, keep up.
Active(c) == sock[c] = "open" /\ c \notin gone

SockInv(c) ==
    /\ sock[c] = "open" <=> pc[c] \notin {"start", "exited"}
    /\ pc[c] = "start" => sock[c] = "none"
    /\ sock[c] = "none" => ~Placed(c) /\ up[c] = <<>> /\ reads[c] = 0 /\ c \notin gone
    /\ sock[c] # "open" => down[c] = <<>>
    /\ pc[c] \notin Awaiting => buf[c] = <<>>
    /\ pc[c] # "setup" => next[c] = 1
    /\ c \in left => sock[c] = "closed"
    /\ Active(c) => Placed(c) /\ ~broken[c]
    /\ again[c] => broken[c]
    /\ broken[c] => pc[c] \in {"hello", "leave", "exited"}

\* What the server has said and the client not yet acted on: nothing, a byte
\* or two, received or under way.  It says nothing while there is something to
\* take.
Silent(c) == buf[c] = <<>> /\ down[c] = <<>>
One(c, x) == \/ buf[c] = <<>> /\ down[c] = <<x>>
             \/ buf[c] = <<x>> /\ down[c] = <<>>
Two(c, x, y) == \/ buf[c] = <<>> /\ down[c] = <<x, y>>
                \/ buf[c] = <<x>> /\ down[c] = <<y>>
                \/ buf[c] = <<x, y>> /\ down[c] = <<>>
AnswerInv(c) ==
    /\ up[c] # <<>> => Silent(c)
    /\ \/ Silent(c)
       \/ \E t \in Replies : One(c, <<t>>)
       \/ \E s \in Slots : Two(c, <<"SUCCESS">>, <<"slot", s>>)

Settled == {"grab", "leave"} \cup Streaming

EventInv(c) ==
    /\ \A i \in DOMAIN written[c] : written[c][i] = i
    /\ Len(written[c]) <= reads[c]
    /\ Active(c) /\ pc[c] \notin Settled => reads[c] = 0

\* What a waiting connection has sent.
Hellos == {<<"HELLO", v, s>> : v \in Version, s \in SlotOption \cup Slots}
QueueInv(c) ==
    c \in queue =>
        /\ Silent(c) /\ c \notin left \ gone
        /\ \/ up[c] = <<>> /\ (Active(c) => pc[c] = "hello")
           \/ \E h \in Hellos : up[c] = <<h>> /\ (Active(c) => pc[c] = "answer")

ClientInv(c) == SockInv(c) /\ AnswerInv(c) /\ EventInv(c) /\ QueueInv(c)

\* Messages k + 1 to n of setup_device().
SetupPart(c, q, k, n) ==
    /\ k \in Nat /\ n \in 0..Len(SetupMessages(c)) /\ k + Len(q) = n
    /\ \A i \in DOMAIN q : q[i] = SetupMessages(c)[k + i]
\* Events from the w-th on up to the r-th, and perhaps a QUIT.
Events(q, w, r) ==
    \A i \in DOMAIN q : \/ q[i] = <<"DATA", w + i>> /\ w + i <= r
                        \/ i = Len(q) /\ q[i] = <<"QUIT">>
Wanted(c) == (ToSet(Codes[c]) \ Skipped) \cap Whitelist \cap Known
Enough(c, S) == ToSet(Codes[c]) \subseteq InRange \cup Skipped /\ Wanted(c) \subseteq S
\* Messages 1 to k have been heard.
Heard(c, s, k) ==
    \A i \in 1..k : SetupMessages(c)[i][1] = "REQUEST_EVENT" =>
        /\ SetupMessages(c)[i][2] \in InRange
        /\ SetupMessages(c)[i][2] \in Whitelist => SetupMessages(c)[i][2] \in requested[s]

\* What an owner has sent fits the status of its slot, also when it is gone.
SentPassword(c) == \E p \in Password : up[c] = <<<<"PASSWORD", p>>>>
SentSetup(c) == \E k, n \in Nat : SetupPart(c, up[c], k, n)
Fits(s, c) ==
    \/ up[c] = <<>>
    \/ status[s] = "PASSWORD_REQUIRED" /\ SentPassword(c)
    \/ status[s] = "SETUP_REQUIRED" /\ SentSetup(c)
    \/ status[s] = "SUCCESS" /\ Events(up[c], Len(written[c]), reads[c])

\* Where the two ends of an active connection are in their conversation.
AwaitsAnswer(s, c) ==
    /\ pc[c] \in {"answer", "verdict"} /\ up[c] = <<>> /\ One(c, <<status[s]>>)
OwesPassword(s, c) ==
    pc[c] = "password" /\ status[s] = "PASSWORD_REQUIRED" /\ up[c] = <<>> /\ Silent(c)
AwaitsVerdict(s, c) ==
    pc[c] = "verdict" /\ status[s] = "PASSWORD_REQUIRED" /\ SentPassword(c) /\ Silent(c)
Hears(s, c, n) == \E k \in Nat : SetupPart(c, up[c], k, n) /\ Heard(c, s, k)
SetsUp(s, c) ==
    pc[c] = "setup" /\ status[s] = "SETUP_REQUIRED" /\ Silent(c) /\ Hears(s, c, next[c] - 1)
AwaitsResult(s, c) ==
    /\ pc[c] = "result" /\ status[s] = "SETUP_REQUIRED" /\ Silent(c) /\ up[c] # <<>>
    /\ Hears(s, c, Len(SetupMessages(c)))
HasResult(s, c) ==
    /\ pc[c] = "result" /\ status[s] = "SUCCESS" /\ up[c] = <<>>
    /\ Two(c, <<"SUCCESS">>, <<"slot", s>>)
    /\ device[s] # NULL /\ Enough(c, device[s])
UnderWay(q, w, r) == w + Len(q) = r /\ \A i \in DOMAIN q : q[i] = <<"DATA", w + i>>
Streams(s, c) ==
    /\ pc[c] \in Settled /\ status[s] = "SUCCESS" /\ slot[c] = s /\ Silent(c)
    /\ device[s] # NULL /\ Enough(c, device[s])
    /\ UnderWay(up[c], Len(written[c]), reads[c])

Agrees(s, c) ==
    \/ AwaitsAnswer(s, c) \/ OwesPassword(s, c) \/ AwaitsVerdict(s, c)
    \/ SetsUp(s, c) \/ AwaitsResult(s, c) \/ HasResult(s, c) \/ Streams(s, c)

\* Whoever has said QUIT has it under way.
QuitUnderWay(c) == c \in left \ gone => up[c] # <<>> /\ up[c][Len(up[c])] = <<"QUIT">>

SlotInv(s, c) == Fits(s, c) /\ QuitUnderWay(c) /\ (Active(c) => Agrees(s, c))

IInv ==
    /\ Typed /\ Owners
    /\ \A c \in Client : ClientInv(c)
    /\ \A s \in Slots, c \in Client : fd[s] = c => SlotInv(s, c)

-----------------------------------------------------------------------------
(* A step of one client leaves the others, and their slots, as they are.   *)

\* Nothing of client d has changed, and it is where it was.
SameProgram(d) ==
    /\ pc'[d] = pc[d] /\ slot'[d] = slot[d] /\ buf'[d] = buf[d] /\ next'[d] = next[d]
    /\ again'[d] = again[d] /\ reads'[d] = reads[d]
SameWire(d) ==
    /\ sock'[d] = sock[d] /\ broken'[d] = broken[d] /\ up'[d] = up[d] /\ down'[d] = down[d]
    /\ d \in gone' <=> d \in gone
    /\ d \in left' <=> d \in left
Same(d) == SameProgram(d) /\ SameWire(d) /\ written'[d] = written[d]
SamePlace(d) ==
    /\ d \in queue' <=> d \in queue
    /\ \A s \in Slots : fd'[s] = d <=> fd[s] = d
SameSlot(s) == status'[s] = status[s] /\ requested'[s] = requested[s] /\ device'[s] = device[s]

LEMMA SameClientInv ==
    ASSUME NEW d \in Client, Same(d), SamePlace(d), ClientInv(d)
    PROVE  ClientInv(d)'
<1>. USE DEF Same, SameProgram, SameWire, SamePlace
<1>1. Placed(d)' <=> Placed(d)
  BY DEF Placed
<1>2. Active(d)' <=> Active(d)
  BY DEF Active
<1>3. Silent(d)' <=> Silent(d)
  BY DEF Silent
<1>4. SockInv(d)'
  BY <1>1, <1>2 DEF ClientInv, SockInv
<1>5. AnswerInv(d)'
  BY <1>3 DEF ClientInv, AnswerInv, One, Two
<1>6. EventInv(d)'
  BY <1>2 DEF ClientInv, EventInv
<1>7. QueueInv(d)'
  BY <1>2, <1>3 DEF ClientInv, QueueInv
<1>. QED BY <1>4, <1>5, <1>6, <1>7 DEF ClientInv

LEMMA SameSlotInv ==
    ASSUME NEW d \in Client, NEW s \in Slots, Same(d), SameSlot(s), SlotInv(s, d)
    PROVE  SlotInv(s, d)'
<1>. USE DEF Same, SameProgram, SameWire, SameSlot
<1>1. Active(d)' <=> Active(d)
  BY DEF Active
<1>2. Silent(d)' <=> Silent(d)
  BY DEF Silent
<1>3. SentPassword(d)' <=> SentPassword(d)
  BY DEF SentPassword
<1>4. \A k, n : SetupPart(d, up[d], k, n)' <=> SetupPart(d, up[d], k, n)
  BY DEF SetupPart
<1>5. \A k : Heard(d, s, k)' <=> Heard(d, s, k)
  BY DEF Heard
<1>6. SentSetup(d)' <=> SentSetup(d)
  BY <1>4, Zenon DEF SentSetup
<1>7. \A n : Hears(s, d, n)' <=> Hears(s, d, n)
  BY <1>4, <1>5, Zenon DEF Hears
<1>8. Fits(s, d)'
  BY <1>3, <1>6 DEF SlotInv, Fits, Events
<1>9. QuitUnderWay(d)'
  BY DEF SlotInv, QuitUnderWay
<1>10. Active(d) => Agrees(s, d)'
  <2>1. SUFFICES ASSUME Active(d) PROVE Agrees(s, d)'
    OBVIOUS
  <2>2. Agrees(s, d)
    BY <2>1 DEF SlotInv
  <2>3. AwaitsAnswer(s, d) => AwaitsAnswer(s, d)'
    BY DEF AwaitsAnswer, One
  <2>4. OwesPassword(s, d) => OwesPassword(s, d)'
    BY <1>2 DEF OwesPassword
  <2>5. AwaitsVerdict(s, d) => AwaitsVerdict(s, d)'
    BY <1>2, <1>3 DEF AwaitsVerdict
  <2>6. SetsUp(s, d) => SetsUp(s, d)'
    BY <1>2, <1>7 DEF SetsUp
  <2>7. AwaitsResult(s, d) => AwaitsResult(s, d)'
    BY <1>2, <1>7 DEF AwaitsResult
  <2>8. HasResult(s, d) => HasResult(s, d)'
    BY DEF HasResult, Two
  <2>9. Streams(s, d) => Streams(s, d)'
    BY <1>2 DEF Streams, UnderWay
  <2>. QED BY <2>2, <2>3, <2>4, <2>5, <2>6, <2>7, <2>8, <2>9, Zenon DEF Agrees
<1>. QED BY <1>1, <1>8, <1>9, <1>10 DEF SlotInv

\* The step is client c's, or the server's with c.
Apart(c) ==
    /\ \A d \in Client \ {c} : Same(d) /\ SamePlace(d)
    /\ \A s \in Slots : fd[s] \in Client \ {c} => SameSlot(s)

LEMMA ApartInv ==
    ASSUME IInv, NEW c \in Client, Apart(c), Typed', Owners', ClientInv(c)',
           \A s \in Slots : fd'[s] = c => SlotInv(s, c)'
    PROVE  IInv'
<1>1. ASSUME NEW d \in Client PROVE ClientInv(d)'
  <2>1. CASE d = c
    BY <2>1
  <2>2. CASE d # c
    BY <2>2, SameClientInv DEF Apart, IInv
  <2>. QED BY <2>1, <2>2
<1>2. ASSUME NEW s \in Slots, NEW d \in Client, fd'[s] = d PROVE SlotInv(s, d)'
  <2>1. CASE d = c
    BY <2>1, <1>2
  <2>2. CASE d # c
    <3>1. fd[s] = d /\ Same(d) /\ SameSlot(s)
      BY <1>2, <2>2 DEF Apart, SamePlace
    <3>. QED BY <3>1, SameSlotInv DEF IInv
  <2>. QED BY <2>1, <2>2
<1>. QED BY <1>1, <1>2, Zenon DEF IInv

-----------------------------------------------------------------------------
(* The invariant holds at first.                                           *)

LEMMA Constants ==
    /\ MAX_CLIENTS \in Nat \ {0} /\ Slots = 1..MAX_CLIENTS /\ Slots \subseteq Nat
    /\ NULL \notin Client /\ (\A events \in SUBSET AnyCode : NULL # events)
    /\ reopen_attempts \in Nat \cup {-1} /\ MaxEvents \in Nat
    /\ SlotOption \subseteq Nat /\ Accepted \subseteq Password /\ PasswordSet \in BOOLEAN
BY ServerAssumption, OptionsAssumption DEF Slots

LEMMA InitTyped == Init => Typed
<1>. SUFFICES ASSUME Init PROVE Typed
  OBVIOUS
<1>1. ProgramTyped
  <2>1. (\A c \in Client : 1 \in 1..Len(SetupMessages(c))) /\ 0 \in Tries /\ 0 \in 0..MaxEvents
    <3>1. ASSUME NEW c \in Client PROVE 1 \in 1..Len(SetupMessages(c))
      <4>1. Len(SetupMessages(c)) \in Nat /\ Len(SetupMessages(c)) >= 2
        BY SetupFacts, Zenon
      <4>. QED BY <4>1
    <3>2. 0 \in Tries /\ 0 \in 0..MaxEvents
      BY Constants DEF Tries
    <3>. QED BY <3>1, <3>2
  <2>2. <<>> \in Seq(AnswerByte)
    BY EmptySeq
  <2>. QED BY <2>1, <2>2 DEF Init, ClientInit, ProgramTyped, Places
<1>2. WireTyped
  BY EmptySeq DEF Init, ClientInit, WireTyped
<1>3. ServerTyped
  BY EmptySeq DEF Init, ServerTyped, Statuses
<1>. QED BY <1>1, <1>2, <1>3 DEF Typed

LEMMA InitInv == Init => IInv
<1>. SUFFICES ASSUME Init PROVE IInv
  OBVIOUS
<1>1. \A s \in Slots : fd[s] = NULL
  BY DEF Init
<1>2. Owners
  BY <1>1, Constants DEF Owners, Init
<1>3. ASSUME NEW c \in Client PROVE ClientInv(c)
  <2>1. ~Placed(c)
    BY <1>1, Constants DEF Placed, Init
  <2>. QED BY <2>1 DEF Init, ClientInit, ClientInv, SockInv, AnswerInv, EventInv, QueueInv,
                      Active, Silent, Awaiting
<1>4. \A s \in Slots, c \in Client : fd[s] # c
  BY <1>1, Constants
<1>. QED BY <1>2, <1>3, <1>4, InitTyped DEF IInv

-----------------------------------------------------------------------------
(* The client's end of the socket.                                         *)

\* Sequences of one and two.
LEMMA ShortSequences ==
    ASSUME NEW x, NEW y
    PROVE  /\ <<>> \o <<x>> = <<x>> /\ <<>> \o <<x, y>> = <<x, y>> /\ <<x>> \o <<y>> = <<x, y>>
           /\ SubSeq(<<x>>, 1, 1) = <<x>> /\ SubSeq(<<x>>, 2, 1) = <<>>
           /\ SubSeq(<<x, y>>, 1, 1) = <<x>> /\ SubSeq(<<x, y>>, 2, 2) = <<y>>
           /\ SubSeq(<<x, y>>, 1, 2) = <<x, y>> /\ SubSeq(<<x, y>>, 3, 2) = <<>>
<1>1. PICK T : T = {x, y}
  OBVIOUS
<1>2. PICK a, b, ab : a = <<x>> /\ b = <<y>> /\ ab = <<x, y>>
  OBVIOUS
<1>3. /\ a \in Seq(T) /\ Len(a) = 1 /\ a[1] = x /\ x \in T
      /\ b \in Seq(T) /\ Len(b) = 1 /\ b[1] = y /\ y \in T
      /\ ab \in Seq(T) /\ Len(ab) = 2 /\ ab[1] = x /\ ab[2] = y
  BY <1>1, <1>2
<1>4. <<>> \o a = a /\ <<>> \o ab = ab
  BY <1>3, ConcatEmptySeq
<1>5. a \o b = ab
  <2>1. /\ a \o b \in Seq(T) /\ Len(a \o b) = Len(a) + Len(b)
        /\ \A i \in 1..(Len(a) + Len(b)) :
              (a \o b)[i] = IF i <= Len(a) THEN a[i] ELSE b[i - Len(a)]
    BY <1>3, ConcatProperties, Zenon
  <2>2. Len(a) + Len(b) = 2 /\ 1 \in 1..2 /\ 2 \in 1..2 /\ 2 - 1 = 1 /\ ~(2 <= 1) /\ 1 <= 1
    BY <1>3
  <2>3. Len(a \o b) = 2 /\ (a \o b)[1] = x /\ (a \o b)[2] = y
    BY <1>3, <2>1, <2>2
  <2>. QED BY <1>3, <2>1, <2>3, SeqEqual
<1>6. SubSeq(a, 1, 1) = a /\ SubSeq(ab, 1, 2) = ab
  BY <1>3, SubSeqFull
<1>7. SubSeq(a, 2, 1) = <<>> /\ SubSeq(ab, 3, 2) = <<>>
  BY <1>3, SubSeqEmpty
<1>8. SubSeq(ab, 1, 1) = a /\ SubSeq(ab, 2, 2) = b
  <2>1. /\ \A i \in 1..1 : ab[i] \in T
        /\ \A i \in 2..2 : ab[i] \in T
    BY <1>3
  <2>2. /\ SubSeq(ab, 1, 1) \in Seq(T) /\ Len(SubSeq(ab, 1, 1)) = 1
        /\ SubSeq(ab, 1, 1)[1] = x
        /\ SubSeq(ab, 2, 2) \in Seq(T) /\ Len(SubSeq(ab, 2, 2)) = 1
        /\ SubSeq(ab, 2, 2)[1] = y
    BY <1>3, <2>1, SubSeqProperties
  <2>. QED BY <1>3, <2>2, SeqEqual
<1>. QED BY <1>2, <1>4, <1>5, <1>6, <1>7, <1>8

\* p is a beginning of q.
IsCut(q, p) == Len(p) <= Len(q) /\ \A i \in 1..Len(p) : p[i] = q[i]

LEMMA SurvivorsCut ==
    ASSUME NEW T, NEW q \in Seq(T), NEW unread, NEW p \in Survivors(q, unread)
    PROVE  p \in Seq(T) /\ IsCut(q, p) /\ (unread = <<>> => p = q)
<1>1. CASE unread = <<>>
  BY <1>1, LenProperties DEF Survivors, IsCut
<1>2. CASE unread # <<>>
  <2>1. PICK n \in 0..Len(q) : p = SubSeq(q, 1, n)
    BY <1>2 DEF Survivors, Prefixes
  <2>2. /\ Len(q) \in Nat /\ \A i \in 1..n : q[i] \in T
    BY LenProperties, ElementOfSeq
  <2>3. /\ p \in Seq(T) /\ Len(p) = n /\ \A i \in 1..n : p[i] = q[i]
    BY <2>1, <2>2, SubSeqProperties
  <2>. QED BY <1>2, <2>2, <2>3 DEF IsCut
<1>. QED BY <1>1, <1>2

LEMMA PrefixCut ==
    ASSUME NEW T, NEW q \in Seq(T), NEW p \in Prefixes(q)
    PROVE  p \in Seq(T) /\ IsCut(q, p)
<1>1. p \in Survivors(q, <<1>>)
  BY <<1>> # <<>> DEF Survivors
<1>. QED BY <1>1, SurvivorsCut

LEMMA CutShort ==
    ASSUME NEW T, NEW q \in Seq(T), NEW p \in Seq(T), IsCut(q, p)
    PROVE  /\ q = <<>> => p = <<>>
           /\ \A x : q = <<x>> => p = <<>> \/ p = q
           /\ \A x, y : q = <<x, y>> => p = <<>> \/ p = <<x>> \/ p = q
<1>1. Len(p) \in Nat /\ Len(q) \in Nat
  BY LenProperties
<1>2. q = <<>> => p = <<>>
  BY <1>1, EmptySeq DEF IsCut
<1>3. ASSUME NEW x, q = <<x>> PROVE p = <<>> \/ p = q
  <2>1. Len(q) = 1
    BY <1>3
  <2>2. CASE Len(p) = 0
    BY <2>2, EmptySeq
  <2>3. CASE Len(p) = 1
    BY <2>1, <2>3, SeqEqual DEF IsCut
  <2>. QED BY <1>1, <2>1, <2>2, <2>3 DEF IsCut
<1>4. ASSUME NEW x, NEW y, q = <<x, y>> PROVE p = <<>> \/ p = <<x>> \/ p = q
  <2>1. Len(q) = 2 /\ q[1] = x /\ x \in T
    <3>1. Len(q) = 2 /\ q[1] = x
      BY <1>4
    <3>2. 1 \in 1..Len(q)
      BY <3>1
    <3>3. q[1] \in T
      BY <3>2, ElementOfSeq, Zenon
    <3>. QED BY <3>1, <3>3
  <2>2. CASE Len(p) = 0
    BY <2>2, EmptySeq
  <2>3. CASE Len(p) = 1
    <3>1. p[1] = x
      BY <2>1, <2>3 DEF IsCut
    <3>2. <<x>> \in Seq(T) /\ Len(<<x>>) = 1 /\ <<x>>[1] = x
      BY <2>1
    <3>. QED BY <2>3, <3>1, <3>2, SeqEqual
  <2>4. CASE Len(p) = 2
    BY <2>1, <2>4, SeqEqual DEF IsCut
  <2>5. Len(p) = 0 \/ Len(p) = 1 \/ Len(p) = 2
    <3>1. Len(p) <= 2
      BY <2>1 DEF IsCut
    <3>2. \A n \in Nat : n <= 2 => n = 0 \/ n = 1 \/ n = 2
      OBVIOUS
    <3>. QED BY <1>1, <3>1, <3>2, Zenon
  <2>. QED BY <2>2, <2>3, <2>4, <2>5, Zenon
<1>. QED BY <1>2, <1>3, <1>4

\* What send() does to the connection of c.
LEMMA SendsWire ==
    ASSUME Typed, NEW c \in Client, NEW m \in Messages, Sends(c, m), left' = left
    PROVE  /\ WireTyped' /\ \A d \in Client \ {c} : SameWire(d)
           /\ ~broken[c] /\ broken'[c] = broken[c] /\ sock'[c] = sock[c]
           /\ gone' = gone /\ down'[c] = down[c]
           /\ c \in gone => up'[c] = up[c]
           /\ c \notin gone => up'[c] = Append(up[c], m)
<1>1. WireTyped
  BY DEF Typed
<1>2. up[c] \in Seq(Messages)
  BY <1>1 DEF WireTyped
<1>3. Append(up[c], m) \in Seq(Messages)
  BY <1>2, AppendProperties
<1>. HIDE DEF Messages
<1>. QED BY <1>1, <1>3 DEF WireTyped, Sends, SameWire

\* What close() does to the connection of c, on which q is then under way.
LEMMA ClosesWire ==
    ASSUME Typed, NEW c \in Client, NEW q \in Seq(Messages), Closes(c, q),
           left' = left \/ left' = left \cup {c}
    PROVE  /\ WireTyped' /\ \A d \in Client \ {c} : SameWire(d)
           /\ broken'[c] = broken[c] /\ sock'[c] = "closed"
           /\ gone' = gone /\ down'[c] = <<>>
           /\ up'[c] \in Seq(Messages) /\ IsCut(q, up'[c]) /\ (down[c] = <<>> => up'[c] = q)
<1>1. WireTyped
  BY DEF Typed
<1>2. PICK rest \in Survivors(q, down[c]) : up' = [up EXCEPT ![c] = rest]
  BY DEF Closes
<1>3. rest \in Seq(Messages) /\ IsCut(q, rest) /\ (down[c] = <<>> => rest = q)
  BY <1>2, SurvivorsCut
<1>4. <<>> \in Seq(AnswerByte)
  BY EmptySeq
<1>5. WireTyped'
  BY <1>1, <1>2, <1>3, <1>4 DEF WireTyped, Closes
<1>6. \A d \in Client \ {c} : SameWire(d)
  BY <1>1, <1>2 DEF WireTyped, Closes, SameWire
<1>7. up'[c] = rest
  BY <1>1, <1>2 DEF WireTyped
<1>. QED BY <1>1, <1>3, <1>5, <1>6, <1>7 DEF WireTyped, Closes

-----------------------------------------------------------------------------
(* The steps of the program: what they share.                              *)

LEMMA CutFits ==
    ASSUME Typed, NEW c \in Client, NEW s \in Slots, Fits(s, c),
           up'[c] \in Seq(Messages), IsCut(up[c], up'[c]),
           status'[s] = status[s], written'[c] = written[c],
           reads'[c] \in Nat, reads[c] <= reads'[c]
    PROVE  Fits(s, c)'
<1>0. PICK q, p : q = up[c] /\ p = up'[c]
  OBVIOUS
<1>1. /\ q \in Seq(Messages) /\ p \in Seq(Messages) /\ IsCut(q, p)
      /\ Len(q) \in Nat /\ Len(p) \in Nat /\ Len(p) <= Len(q)
      /\ DOMAIN q = 1..Len(q) /\ DOMAIN p = 1..Len(p)
      /\ \A i \in 1..Len(p) : i \in 1..Len(q) /\ p[i] = q[i]
  <2>1. q \in Seq(Messages)
    BY <1>0 DEF Typed, WireTyped
  <2>2. Len(q) \in Nat /\ Len(p) \in Nat /\ DOMAIN q = 1..Len(q) /\ DOMAIN p = 1..Len(p)
    BY <1>0, <2>1, LenProperties
  <2>. QED BY <1>0, <2>1, <2>2 DEF IsCut
<1>2. CASE q = <<>>
  BY <1>0, <1>1, <1>2, CutShort, Zenon DEF Fits
<1>3. CASE status[s] = "PASSWORD_REQUIRED" /\ SentPassword(c)
  <2>1. PICK password \in Password : q = <<<<"PASSWORD", password>>>>
    BY <1>0, <1>3 DEF SentPassword
  <2>2. p = <<>> \/ p = q
    BY <1>1, <2>1, CutShort, Zenon
  <2>. QED BY <1>0, <1>3, <2>1, <2>2 DEF Fits, SentPassword
<1>4. CASE status[s] = "SETUP_REQUIRED" /\ SentSetup(c)
  <2>1. PICK k, n \in Nat : SetupPart(c, q, k, n)
    BY <1>0, <1>4 DEF SentSetup
  <2>2. PICK m : m = k + Len(p)
    OBVIOUS
  <2>3. m \in Nat /\ m \in 0..Len(SetupMessages(c))
    <3>1. k \in Nat /\ n \in 0..Len(SetupMessages(c)) /\ k + Len(q) = n
      BY <2>1 DEF SetupPart
    <3>. QED BY <3>1, <2>2, <1>1
  <2>4. \A i \in DOMAIN p : p[i] = SetupMessages(c)[k + i]
    BY <1>1, <2>1 DEF SetupPart
  <2>5. SetupPart(c, p, k, m)
    BY <2>1, <2>2, <2>3, <2>4 DEF SetupPart
  <2>. QED BY <1>0, <1>4, <2>3, <2>5 DEF Fits, SentSetup
<1>5. CASE status[s] = "SUCCESS" /\ Events(up[c], Len(written[c]), reads[c])
  <2>1. PICK w, r, n : w = Len(written[c]) /\ r = reads'[c] /\ n = reads[c]
    OBVIOUS
  <2>2. w \in Nat /\ r \in Nat /\ n \in Nat /\ n <= r
    <3>1. written[c] \in Seq(1..MaxEvents) /\ reads[c] \in 0..MaxEvents
      BY DEF Typed, ServerTyped, ProgramTyped
    <3>. QED BY <2>1, <3>1, LenProperties
  <2>3. ASSUME NEW i \in DOMAIN p
        PROVE  \/ p[i] = <<"DATA", w + i>> /\ w + i <= r
               \/ i = Len(p) /\ p[i] = <<"QUIT">>
    <3>1. i \in DOMAIN q /\ p[i] = q[i] /\ (i = Len(q) => i = Len(p)) /\ i \in Nat
      BY <1>1
    <3>2. \/ q[i] = <<"DATA", w + i>> /\ w + i <= n
          \/ i = Len(q) /\ q[i] = <<"QUIT">>
      BY <1>0, <1>5, <2>1, <3>1 DEF Events
    <3>3. w + i <= n => w + i <= r
      BY <2>2, <3>1
    <3>. QED BY <3>1, <3>2, <3>3
  <2>4. Events(p, w, r)
    BY <2>3 DEF Events
  <2>. QED BY <1>0, <1>5, <2>1, <2>4 DEF Fits
<1>. QED BY <1>0, <1>2, <1>3, <1>4, <1>5, Zenon DEF Fits

LEMMA SameFits ==
    ASSUME Typed, NEW c \in Client, NEW s \in Slots, Fits(s, c), up'[c] = up[c],
           status'[s] = status[s], written'[c] = written[c],
           reads'[c] \in Nat, reads[c] <= reads'[c]
    PROVE  Fits(s, c)'
<1>1. up[c] \in Seq(Messages)
  BY DEF Typed, WireTyped
<1>2. IsCut(up[c], up'[c])
  BY <1>1, LenProperties DEF IsCut
<1>. QED BY <1>1, <1>2, CutFits

LEMMA ReadsSame ==
    ASSUME Typed, NEW c \in Client, reads'[c] = reads[c]
    PROVE  reads'[c] \in Nat /\ reads[c] <= reads'[c]
<1>1. reads[c] \in 0..MaxEvents
  BY DEF Typed, ProgramTyped
<1>. QED BY <1>1

\* A step of the program of c: its variables and its end of the connection.
LEMMA ProgramStepInv ==
    ASSUME IInv, NEW c \in Client, UNCHANGED serverVars, ProgramTyped', WireTyped',
           \A d \in Client \ {c} : SameProgram(d) /\ SameWire(d),
           ClientInv(c)', \A s \in Slots : fd[s] = c => SlotInv(s, c)'
    PROVE  IInv'
<1>1. Typed' /\ Owners'
  BY DEF IInv, Typed, ServerTyped, Owners, serverVars
<1>2. Apart(c)
  BY DEF Apart, Same, SamePlace, SameSlot, serverVars
<1>3. \A s \in Slots : fd'[s] = c => SlotInv(s, c)'
  BY DEF serverVars
<1>. QED BY <1>1, <1>2, <1>3, ApartInv

LEMMA AtSettled ==
    ASSUME NEW c, NEW s, pc[c] \in Settled, Agrees(s, c)
    PROVE  Streams(s, c)
BY DEF Agrees, AwaitsAnswer, OwesPassword, AwaitsVerdict, SetsUp, AwaitsResult, HasResult,
       Settled, Streaming

\* Nothing is said and nothing told.
LEMMA SettledInv ==
    ASSUME IInv, NEW c \in Client, UNCHANGED serverVars, UNCHANGED wire, left' = left,
           ProgramTyped', \A d \in Client \ {c} : SameProgram(d),
           pc[c] \in Settled \ {"leave"}, pc'[c] \in Settled, slot'[c] = slot[c],
           buf'[c] = buf[c], next'[c] = next[c], again'[c] = again[c], reads'[c] = reads[c]
    PROVE  IInv'
<1>1. ClientInv(c) /\ Typed
  BY DEF IInv
<1>2. /\ pc[c] \notin {"start", "exited", "hello", "setup", "leave"} /\ pc[c] \notin Awaiting
      /\ pc'[c] \notin {"start", "exited", "hello", "setup"} /\ pc'[c] \notin Awaiting
  BY DEF Settled, Streaming, Awaiting
<1>3. sock[c] = "open" /\ ~broken[c] /\ buf[c] = <<>>
  BY <1>1, <1>2 DEF ClientInv, SockInv
<1>4. (Active(c)' <=> Active(c)) /\ (Silent(c)' <=> Silent(c)) /\ (Placed(c)' <=> Placed(c))
  BY DEF Active, Silent, Placed, wire, serverVars
<1>5. SockInv(c)'
  BY <1>1, <1>2, <1>3, <1>4 DEF ClientInv, SockInv, wire
<1>6. AnswerInv(c)'
  BY <1>1, <1>4 DEF ClientInv, AnswerInv, One, Two, wire
<1>7. EventInv(c)'
  BY <1>1, <1>4 DEF ClientInv, EventInv, serverVars
<1>8. QueueInv(c)'
  <2>1. c \in queue => ~Active(c)
    BY <1>1, <1>2 DEF ClientInv, QueueInv, Awaiting
  <2>. QED BY <1>1, <1>4, <2>1 DEF ClientInv, QueueInv, wire, serverVars
<1>9. ASSUME NEW s \in Slots, fd[s] = c PROVE SlotInv(s, c)'
  <2>1. SlotInv(s, c)
    BY <1>9 DEF IInv
  <2>3. Fits(s, c)'
    BY <1>1, <2>1, ReadsSame, SameFits DEF SlotInv, serverVars, wire
  <2>4. QuitUnderWay(c)'
    BY <2>1 DEF SlotInv, QuitUnderWay, wire
  <2>5. Active(c)' => Streams(s, c)'
    <3>1. Active(c) => Streams(s, c)
      BY <2>1, AtSettled DEF SlotInv
    <3>. QED BY <1>4, <3>1 DEF Streams, wire, serverVars
  <2>. QED BY <2>3, <2>4, <2>5 DEF SlotInv, Agrees
<1>10. WireTyped' /\ \A d \in Client \ {c} : SameWire(d)
  BY <1>1 DEF Typed, WireTyped, SameWire, wire
<1>11. ClientInv(c)'
  BY <1>5, <1>6, <1>7, <1>8 DEF ClientInv
<1>. QED BY <1>9, <1>10, <1>11, ProgramStepInv

\* The program ends without a QUIT.
LEMMA ExitInv ==
    ASSUME IInv, NEW c \in Client, UNCHANGED serverVars, Closes(c, up[c]), left' = left,
           ProgramTyped', \A d \in Client \ {c} : SameProgram(d),
           sock[c] = "open", pc'[c] = "exited", buf'[c] = <<>>, next'[c] = 1,
           again'[c] = again[c], reads'[c] = reads[c]
    PROVE  IInv'
<1>1. ClientInv(c) /\ Typed /\ up[c] \in Seq(Messages)
  BY DEF IInv, Typed, WireTyped
<1>2. /\ WireTyped' /\ \A d \in Client \ {c} : SameWire(d)
      /\ broken'[c] = broken[c] /\ sock'[c] = "closed" /\ gone' = gone /\ down'[c] = <<>>
      /\ up'[c] \in Seq(Messages) /\ IsCut(up[c], up'[c])
  BY <1>1, ClosesWire
<1>3. ~Active(c)' /\ Silent(c)'
  BY <1>2 DEF Active, Silent
<1>4. SockInv(c)'
  BY <1>1, <1>2, <1>3 DEF ClientInv, SockInv, Awaiting
<1>5. AnswerInv(c)'
  BY <1>3 DEF AnswerInv
<1>6. EventInv(c)'
  BY <1>1, <1>3 DEF ClientInv, EventInv, serverVars
<1>7. QueueInv(c)'
  <2>1. SUFFICES ASSUME c \in queue PROVE QueueInv(c)'
    BY DEF QueueInv, serverVars
  <2>2. up'[c] = <<>> \/ \E h \in Hellos : up'[c] = <<h>>
    <3>1. CASE up[c] = <<>>
      BY <3>1, <1>1, <1>2, CutShort, Zenon
    <3>2. CASE \E h \in Hellos : up[c] = <<h>>
      <4>1. PICK h \in Hellos : up[c] = <<h>>
        BY <3>2
      <4>2. \A x : up[c] = <<x>> => up'[c] = <<>> \/ up'[c] = up[c]
        BY <1>1, <1>2, CutShort, Zenon
      <4>. QED BY <4>1, <4>2
    <3>. QED BY <2>1, <1>1, <3>1, <3>2 DEF ClientInv, QueueInv
  <2>. QED BY <2>1, <2>2, <1>1, <1>2, <1>3 DEF ClientInv, QueueInv
<1>8. ASSUME NEW s \in Slots, fd[s] = c PROVE SlotInv(s, c)'
  <2>1. SlotInv(s, c)
    BY <1>8 DEF IInv
  <2>2. Fits(s, c)'
    BY <1>1, <1>2, <2>1, ReadsSame, CutFits DEF SlotInv, serverVars
  <2>3. QuitUnderWay(c)'
    BY <1>1 DEF ClientInv, SockInv, QuitUnderWay
  <2>. QED BY <1>3, <2>2, <2>3 DEF SlotInv
<1>9. ClientInv(c)'
  BY <1>4, <1>5, <1>6, <1>7 DEF ClientInv
<1>. QED BY <1>2, <1>8, <1>9, ProgramStepInv

\* A client that still runs, on a connection that is gone.
LEMMA GoneInv ==
    ASSUME IInv, NEW c \in Client, UNCHANGED serverVars, ProgramTyped', WireTyped',
           \A d \in Client \ {c} : SameProgram(d) /\ SameWire(d),
           c \in gone, gone' = gone, left' = left, up'[c] = up[c], down'[c] = down[c],
           buf'[c] = buf[c], reads[c] <= reads'[c], SockInv(c)'
    PROVE  IInv'
<1>1. ClientInv(c) /\ Typed
  BY DEF IInv
<1>2. ~Active(c) /\ ~Active(c)' /\ (Silent(c)' <=> Silent(c))
  BY DEF Active, Silent
<1>3. AnswerInv(c)'
  BY <1>1, <1>2 DEF ClientInv, AnswerInv, One, Two
<1>4. reads[c] \in Nat /\ reads'[c] \in Nat /\ Len(written[c]) \in Nat
  <2>1. written[c] \in Seq(1..MaxEvents) /\ reads[c] \in 0..MaxEvents /\ reads'[c] \in 0..MaxEvents
    BY <1>1 DEF Typed, ServerTyped, ProgramTyped
  <2>. QED BY <2>1, LenProperties
<1>5. EventInv(c)'
  <2>1. Len(written[c]) <= reads'[c]
    BY <1>1, <1>4 DEF ClientInv, EventInv
  <2>. QED BY <1>1, <1>2, <2>1 DEF ClientInv, EventInv, serverVars
<1>6. QueueInv(c)'
  BY <1>1, <1>2 DEF ClientInv, QueueInv, serverVars
<1>7. ASSUME NEW s \in Slots, fd[s] = c PROVE SlotInv(s, c)'
  <2>1. SlotInv(s, c)
    BY <1>7 DEF IInv
  <2>2. Fits(s, c)'
    BY <1>1, <1>4, <2>1, SameFits DEF SlotInv, serverVars
  <2>3. QuitUnderWay(c)'
    BY DEF QuitUnderWay
  <2>. QED BY <1>2, <2>2, <2>3 DEF SlotInv
<1>8. ClientInv(c)'
  BY <1>3, <1>5, <1>6 DEF ClientInv
<1>. QED BY <1>7, <1>8, ProgramStepInv

\* A connection that is not gone has its place.
LEMMA ActivePlaced ==
    ASSUME IInv, NEW c \in Client, Active(c)
    PROVE  \/ c \in queue /\ pc[c] \in {"hello", "answer"}
           \/ \E s \in Slots : fd[s] = c /\ Agrees(s, c)
<1>1. ClientInv(c) /\ \A s \in Slots : fd[s] = c => SlotInv(s, c)
  BY DEF IInv
<1>2. Placed(c)
  BY <1>1 DEF ClientInv, SockInv
<1>3. CASE c \in queue
  BY <1>1, <1>3 DEF ClientInv, QueueInv
<1>4. CASE \E s \in Slots : fd[s] = c
  BY <1>1, <1>4 DEF SlotInv
<1>. QED BY <1>2, <1>3, <1>4 DEF Placed

LEMMA ConnectFailsInv ==
    ASSUME IInv, NEW c \in Client, UNCHANGED serverVars, left' = left,
           quit_signal' \in [Client -> BOOLEAN], pc[c] \notin {"start", "exited"},
           ConnectFails(c)
    PROVE  IInv'
<1>1. ClientInv(c) /\ Typed /\ ProgramTyped /\ sock[c] = "open"
  BY DEF IInv, Typed, ClientInv, SockInv
<1>2. /\ buf' = [buf EXCEPT ![c] = <<>>] /\ next' = [next EXCEPT ![c] = 1]
      /\ UNCHANGED <<slot, again, tries, reads>>
      /\ \/ again[c] /\ Goto(c, "leave") /\ UNCHANGED wire
         \/ Goto(c, "exited") /\ Closes(c, up[c])
  BY DEF ConnectFails, Unchanged
<1>3. /\ ProgramTyped' /\ (\A d \in Client \ {c} : SameProgram(d))
      /\ buf'[c] = <<>> /\ next'[c] = 1 /\ again'[c] = again[c] /\ reads'[c] = reads[c]
  <2>1. <<>> \in Seq(AnswerByte) /\ 1 \in 1..Len(SetupMessages(c))
    <3>1. Len(SetupMessages(c)) \in Nat /\ Len(SetupMessages(c)) >= 2
      BY SetupFacts, Zenon
    <3>. QED BY <3>1, EmptySeq
  <2>2. pc' \in [Client -> Places] /\ \A d \in Client \ {c} : pc'[d] = pc[d]
    BY <1>1, <1>2 DEF ProgramTyped, Goto, Places
  <2>. QED BY <1>1, <1>2, <2>1, <2>2 DEF ProgramTyped, SameProgram
<1>4. CASE Goto(c, "exited") /\ Closes(c, up[c])
  <2>1. pc'[c] = "exited"
    BY <1>1, <1>4 DEF Goto, ProgramTyped
  <2>. QED BY <1>1, <1>3, <1>4, <2>1, ExitInv
<1>5. CASE again[c] /\ Goto(c, "leave") /\ UNCHANGED wire
  <2>1. broken[c] /\ pc[c] \in {"hello", "leave"}
    BY <1>1, <1>5 DEF ClientInv, SockInv
  <2>2. pc'[c] = "leave"
    BY <1>1, <1>5 DEF Goto, ProgramTyped
  <2>3. buf[c] = <<>> /\ c \in gone
    BY <1>1, <2>1 DEF ClientInv, SockInv, Active, Awaiting
  <2>4. (Placed(c)' <=> Placed(c)) /\ ~Active(c)'
    BY <1>5, <2>3 DEF Placed, Active, wire, serverVars
  <2>5. SockInv(c)'
    BY <1>1, <1>3, <1>5, <2>1, <2>2, <2>4 DEF ClientInv, SockInv, wire
  <2>6. WireTyped' /\ \A d \in Client \ {c} : SameWire(d)
    BY <1>1, <1>5 DEF Typed, WireTyped, SameWire, wire
  <2>7. reads[c] <= reads'[c]
    BY <1>1, <1>3, ReadsSame
  <2>. QED BY <1>3, <1>5, <2>3, <2>5, <2>6, <2>7, GoneInv DEF wire
<1>. QED BY <1>2, <1>4, <1>5

-----------------------------------------------------------------------------
(* The handshake, on the client's side.                                    *)

LEMMA SendHelloInv ==
    ASSUME IInv, NEW c \in Client, UNCHANGED serverVars, UNCHANGED <<quit_signal, left>>,
           SendHello(c)
    PROVE  IInv'
<1>1. ClientInv(c) /\ Typed /\ ProgramTyped /\ pc[c] = "hello" /\ sock[c] = "open"
  BY DEF IInv, Typed, ClientInv, SockInv, SendHello, At
<1>2. CASE ConnectFails(c)
  BY <1>1, <1>2, ConnectFailsInv DEF Typed, ProgramTyped
<1>3. ASSUME NEW v \in Version, Sends(c, <<"HELLO", v, slot[c]>>), Goto(c, "answer"),
             UNCHANGED <<buf, next>>, Unchanged(c)
      PROVE  IInv'
  <2>1. PICK h : h = <<"HELLO", v, slot[c]>>
    OBVIOUS
  <2>2. h \in Hellos /\ h \in Messages
    <3>1. slot[c] \in SlotOption \cup Slots
      BY <1>1 DEF ProgramTyped
    <3>. QED BY <2>1, <3>1 DEF Hellos, Messages
  <2>3. /\ ProgramTyped' /\ (\A d \in Client \ {c} : SameProgram(d))
        /\ pc'[c] = "answer" /\ buf'[c] = buf[c] /\ next'[c] = next[c]
        /\ again'[c] = again[c] /\ reads'[c] = reads[c]
    BY <1>1, <1>3 DEF ProgramTyped, SameProgram, Goto, Unchanged, Places, Awaiting
  <2>4. /\ WireTyped' /\ (\A d \in Client \ {c} : SameWire(d))
        /\ ~broken[c] /\ broken'[c] = broken[c] /\ sock'[c] = sock[c]
        /\ gone' = gone /\ down'[c] = down[c]
        /\ c \in gone => up'[c] = up[c]
        /\ c \notin gone => up'[c] = Append(up[c], h)
    BY <1>1, <1>3, <2>1, <2>2, SendsWire, Zenon
  <2>5. (Placed(c)' <=> Placed(c)) /\ (Active(c)' <=> Active(c))
    BY <2>4 DEF Placed, Active, serverVars
  <2>6. buf[c] = <<>>
    BY <1>1 DEF ClientInv, SockInv, Awaiting
  <2>7. SockInv(c)'
    BY <1>1, <2>3, <2>4, <2>5, <2>6 DEF ClientInv, SockInv
  <2>8. CASE c \in gone
    <3>1. reads[c] <= reads'[c]
      BY <1>1, <2>3, ReadsSame
    <3>. QED BY <2>3, <2>4, <2>7, <2>8, <3>1, GoneInv
  <2>9. CASE c \notin gone
    <3>1. ASSUME NEW s \in Slots, fd[s] = c PROVE FALSE
      <4>1. Agrees(s, c)
        BY <1>1, <2>9, <3>1 DEF IInv, SlotInv, Active
      <4>. QED BY <1>1, <4>1 DEF Agrees, AwaitsAnswer, OwesPassword, AwaitsVerdict, SetsUp,
                                 AwaitsResult, HasResult, Streams, Settled, Streaming
    <3>2. c \in queue
      BY <1>1, <2>9, <3>1 DEF Active, Placed, ClientInv, SockInv
    <3>3. Silent(c) /\ Silent(c)' /\ up'[c] = <<h>> /\ c \notin left
      <4>1. Silent(c) /\ up[c] = <<>> /\ c \notin left \ gone
        BY <1>1, <2>9, <3>2 DEF ClientInv, QueueInv, Active
      <4>2. Append(<<>>, h) = <<h>>
        OBVIOUS
      <4>. QED BY <2>3, <2>4, <2>9, <4>1, <4>2 DEF Silent
    <3>4. AnswerInv(c)'
      BY <3>3 DEF AnswerInv
    <3>5. EventInv(c)'
      BY <1>1, <2>3, <2>5 DEF ClientInv, EventInv, serverVars, Settled, Streaming
    <3>6. QueueInv(c)'
      BY <2>2, <2>3, <3>3 DEF QueueInv
    <3>7. ClientInv(c)'
      BY <2>7, <3>4, <3>5, <3>6 DEF ClientInv
    <3>. QED BY <2>3, <2>4, <3>1, <3>7, ProgramStepInv
  <2>. QED BY <2>8, <2>9
<1>. QED BY <1>2, <1>3 DEF SendHello

\* A client in one of these places whose connection is up is the client of a slot.
LEMMA InSlot ==
    ASSUME IInv, NEW c \in Client, Active(c), pc[c] \notin {"hello", "answer"}
    PROVE  c \notin queue /\ \E s \in Slots : fd[s] = c
<1>1. ClientInv(c)
  BY DEF IInv
<1>. QED BY <1>1 DEF ClientInv, SockInv, QueueInv, Placed

\* A message from the client of a slot.
LEMMA SendInSlot ==
    ASSUME IInv, NEW c \in Client, UNCHANGED serverVars, ProgramTyped',
           \A d \in Client \ {c} : SameProgram(d), left' = left,
           NEW m \in Messages, Sends(c, m), sock[c] = "open",
           pc[c] \notin {"hello", "answer"} \cup Awaiting,
           pc'[c] \notin {"start", "exited", "hello"}, buf'[c] = buf[c],
           pc'[c] # "setup" => next'[c] = 1, again'[c] = again[c], reads[c] <= reads'[c],
           Active(c) /\ pc'[c] \notin Settled => reads'[c] = 0,
           \A s \in Slots : fd[s] = c /\ Active(c) /\ Agrees(s, c) =>
                Silent(c) /\ (up'[c] = Append(up[c], m) => Fits(s, c)' /\ Agrees(s, c)')
    PROVE  IInv'
<1>1. ClientInv(c) /\ Typed
  BY DEF IInv
<1>2. /\ WireTyped' /\ (\A d \in Client \ {c} : SameWire(d))
      /\ ~broken[c] /\ broken'[c] = broken[c] /\ sock'[c] = sock[c]
      /\ gone' = gone /\ down'[c] = down[c]
      /\ c \in gone => up'[c] = up[c]
      /\ c \notin gone => up'[c] = Append(up[c], m)
  BY <1>1, SendsWire
<1>3. /\ Placed(c)' <=> Placed(c)
      /\ Active(c)' <=> Active(c)
      /\ Silent(c)' <=> Silent(c)
  BY <1>2 DEF Placed, Active, Silent, serverVars
<1>4. buf[c] = <<>>
  BY <1>1 DEF ClientInv, SockInv
<1>5. SockInv(c)'
  BY <1>1, <1>2, <1>3, <1>4 DEF ClientInv, SockInv
<1>6. CASE c \in gone
  BY <1>2, <1>5, <1>6, GoneInv
<1>7. CASE c \notin gone
  <2>1. Active(c) /\ c \notin queue
    BY <1>7, InSlot DEF Active
  <2>2. PICK s \in Slots : fd[s] = c
    BY <1>7, InSlot DEF Active
  <2>3. \A t \in Slots : fd[t] = c => Agrees(t, c)
    BY <2>1 DEF IInv, SlotInv
  <2>4. Silent(c)
    BY <2>1, <2>2, <2>3
  <2>5. AnswerInv(c)'
    BY <1>3, <2>4 DEF AnswerInv
  <2>6. EventInv(c)'
    <3>1. reads[c] \in Nat /\ reads'[c] \in Nat /\ Len(written[c]) \in Nat
      <4>1. written[c] \in Seq(1..MaxEvents) /\ reads[c] \in 0..MaxEvents /\ reads'[c] \in 0..MaxEvents
        BY <1>1 DEF Typed, ServerTyped, ProgramTyped
      <4>. QED BY <4>1, LenProperties
    <3>2. Len(written[c]) <= reads[c]
      BY <1>1 DEF ClientInv, EventInv
    <3>3. Len(written[c]) <= reads'[c]
      BY <3>1, <3>2
    <3>. QED BY <1>1, <2>1, <3>3 DEF ClientInv, EventInv, serverVars
  <2>7. QueueInv(c)'
    BY <2>1 DEF QueueInv, serverVars
  <2>8. ASSUME NEW t \in Slots, fd[t] = c PROVE SlotInv(t, c)'
    <3>1. Fits(t, c)' /\ Agrees(t, c)'
      BY <1>2, <1>7, <2>1, <2>3, <2>8
    <3>2. QuitUnderWay(c)'
      BY <1>1, <1>2 DEF ClientInv, SockInv, QuitUnderWay
    <3>. QED BY <3>1, <3>2 DEF SlotInv
  <2>9. ClientInv(c)'
    BY <1>5, <2>5, <2>6, <2>7 DEF ClientInv
  <2>. QED BY <1>2, <2>8, <2>9, ProgramStepInv
<1>. QED BY <1>6, <1>7

LEMMA SendPasswordInv ==
    ASSUME IInv, NEW c \in Client, UNCHANGED serverVars, UNCHANGED <<quit_signal, left>>,
           SendPassword(c)
    PROVE  IInv'
<1>1. ClientInv(c) /\ Typed /\ ProgramTyped /\ pc[c] = "password" /\ sock[c] = "open"
  BY DEF IInv, Typed, ClientInv, SockInv, SendPassword, At
<1>2. CASE ConnectFails(c)
  BY <1>1, <1>2, ConnectFailsInv DEF Typed, ProgramTyped
<1>3. ASSUME NEW p \in Password, Sends(c, <<"PASSWORD", p>>), Goto(c, "verdict"),
             UNCHANGED <<buf, next>>, Unchanged(c)
      PROVE  IInv'
  <2>1. PICK m : m = <<"PASSWORD", p>>
    OBVIOUS
  <2>2. m \in Messages
    BY <2>1 DEF Messages
  <2>3. /\ ProgramTyped' /\ (\A d \in Client \ {c} : SameProgram(d))
        /\ pc'[c] = "verdict" /\ buf'[c] = buf[c] /\ next'[c] = next[c]
        /\ again'[c] = again[c] /\ reads'[c] = reads[c]
    BY <1>1, <1>3 DEF ProgramTyped, SameProgram, Goto, Unchanged, Places, Awaiting
  <2>4. next[c] = 1 /\ (Active(c) => reads[c] = 0)
    BY <1>1 DEF ClientInv, SockInv, EventInv, Settled, Streaming
  <2>5. ASSUME NEW s \in Slots, Agrees(s, c)
        PROVE  /\ Silent(c)
               /\ up'[c] = Append(up[c], m) => Fits(s, c)' /\ Agrees(s, c)'
    <3>1. OwesPassword(s, c)
      BY <1>1, <2>5 DEF Agrees, AwaitsAnswer, OwesPassword, AwaitsVerdict, SetsUp,
                        AwaitsResult, HasResult, Streams, Settled, Streaming
    <3>2. Append(<<>>, m) = <<m>>
      OBVIOUS
    <3>3. SUFFICES ASSUME up'[c] = Append(up[c], m) PROVE Fits(s, c)' /\ Agrees(s, c)'
      BY <3>1 DEF OwesPassword
    <3>4. up'[c] = <<<<"PASSWORD", p>>>>
      BY <2>1, <3>1, <3>2, <3>3 DEF OwesPassword
    <3>5. SentPassword(c)'
      BY <3>4 DEF SentPassword
    <3>6. status'[s] = "PASSWORD_REQUIRED" /\ Silent(c)'
      BY <1>3, <3>1 DEF OwesPassword, Silent, Sends, serverVars
    <3>. QED BY <2>3, <3>5, <3>6 DEF Fits, Agrees, AwaitsVerdict
  <2>6. reads[c] <= reads'[c]
    BY <1>1, <2>3, ReadsSame
  <2>. QED BY <1>1, <1>3, <2>1, <2>2, <2>3, <2>4, <2>5, <2>6, SendInSlot DEF Awaiting
<1>. QED BY <1>2, <1>3 DEF SendPassword

\* One message more of setup_device()'s.
LEMMA SetupLonger ==
    ASSUME NEW c \in Client, NEW q \in Seq(Messages), NEW k, NEW n \in 1..Len(SetupMessages(c)),
           SetupPart(c, q, k, n - 1)
    PROVE  SetupPart(c, Append(q, SetupMessages(c)[n]), k, n)
<1>1. /\ k \in Nat /\ k + Len(q) = n - 1 /\ Len(q) \in Nat /\ DOMAIN q = 1..Len(q)
      /\ \A i \in 1..Len(q) : q[i] = SetupMessages(c)[k + i]
  BY LenProperties DEF SetupPart
<1>2. PICK p : p = Append(q, SetupMessages(c)[n])
  OBVIOUS
<1>3. SetupMessages(c)[n] \in Messages /\ Len(SetupMessages(c)) \in Nat
  BY SetupFacts
<1>4. /\ p \in Seq(Messages) /\ Len(p) = Len(q) + 1 /\ p[Len(q) + 1] = SetupMessages(c)[n]
      /\ \A i \in 1..Len(q) : p[i] = q[i]
  BY <1>2, <1>3, AppendProperties
<1>5. DOMAIN p = 1..(Len(q) + 1)
  BY <1>4, LenProperties
<1>6. k + (Len(q) + 1) = n /\ n \in 0..Len(SetupMessages(c))
  BY <1>1, <1>3
<1>7. ASSUME NEW i \in DOMAIN p PROVE p[i] = SetupMessages(c)[k + i]
  BY <1>1, <1>4, <1>5, <1>6, <1>7
<1>. QED BY <1>1, <1>2, <1>4, <1>6, <1>7 DEF SetupPart

LEMMA SendSetupInv ==
    ASSUME IInv, NEW c \in Client, UNCHANGED serverVars, UNCHANGED <<quit_signal, left>>,
           SendSetup(c)
    PROVE  IInv'
<1>1. ClientInv(c) /\ Typed /\ ProgramTyped /\ pc[c] = "setup" /\ sock[c] = "open"
  BY DEF IInv, Typed, ClientInv, SockInv, SendSetup, At
<1>2. CASE ConnectFails(c)
  BY <1>1, <1>2, ConnectFailsInv DEF Typed, ProgramTyped
<1>3. PICK n : n = next[c]
  OBVIOUS
<1>4. /\ n \in 1..Len(SetupMessages(c)) /\ n \in Nat /\ Len(SetupMessages(c)) \in Nat
      /\ SetupMessages(c)[n] \in Messages /\ 1 \in 1..Len(SetupMessages(c))
  <2>1. Len(SetupMessages(c)) \in Nat /\ n \in 1..Len(SetupMessages(c))
    BY <1>1, <1>3, SetupFacts DEF ProgramTyped
  <2>2. n \in Nat /\ 1 \in 1..Len(SetupMessages(c))
    BY <2>1
  <2>. QED BY <2>1, <2>2, SetupFacts
<1>5. CASE /\ Sends(c, SetupMessages(c)[next[c]])
           /\ IF next[c] < Len(SetupMessages(c))
              THEN next' = [next EXCEPT ![c] = @ + 1] /\ pc' = pc
              ELSE next' = [next EXCEPT ![c] = 1] /\ Goto(c, "result")
           /\ buf' = buf /\ Unchanged(c)
  <2>1. /\ ProgramTyped' /\ (\A d \in Client \ {c} : SameProgram(d))
        /\ buf'[c] = buf[c] /\ again'[c] = again[c] /\ reads'[c] = reads[c]
        /\ \/ n < Len(SetupMessages(c)) /\ pc'[c] = "setup" /\ next'[c] = n + 1
           \/ n = Len(SetupMessages(c)) /\ pc'[c] = "result" /\ next'[c] = 1
    <3>1. CASE next[c] < Len(SetupMessages(c))
      <4>1. next' = [next EXCEPT ![c] = n + 1] /\ pc' = pc /\ n + 1 \in 1..Len(SetupMessages(c))
        BY <1>3, <1>4, <1>5, <3>1
      <4>. QED BY <1>1, <1>3, <1>5, <3>1, <4>1 DEF ProgramTyped, SameProgram, Unchanged
    <3>2. CASE ~(next[c] < Len(SetupMessages(c)))
      <4>1. next' = [next EXCEPT ![c] = 1] /\ Goto(c, "result") /\ n = Len(SetupMessages(c))
        BY <1>3, <1>4, <1>5, <3>2
      <4>. QED BY <1>1, <1>4, <1>5, <4>1
           DEF ProgramTyped, SameProgram, Unchanged, Goto, Places, Awaiting
    <3>. QED BY <3>1, <3>2
  <2>2. Active(c) => reads[c] = 0
    BY <1>1 DEF ClientInv, EventInv, Settled, Streaming
  <2>3. ASSUME NEW s \in Slots, Agrees(s, c)
        PROVE  /\ Silent(c)
               /\ up'[c] = Append(up[c], SetupMessages(c)[n]) => Fits(s, c)' /\ Agrees(s, c)'
    <3>1. SetsUp(s, c)
      BY <1>1, <2>3 DEF Agrees, AwaitsAnswer, OwesPassword, AwaitsVerdict, SetsUp,
                        AwaitsResult, HasResult, Streams, Settled, Streaming
    <3>2. SUFFICES ASSUME up'[c] = Append(up[c], SetupMessages(c)[n])
                   PROVE  Fits(s, c)' /\ Agrees(s, c)'
      BY <3>1 DEF SetsUp
    <3>3. PICK k \in Nat : SetupPart(c, up[c], k, n - 1) /\ Heard(c, s, k)
      BY <1>3, <3>1 DEF SetsUp, Hears
    <3>4. up[c] \in Seq(Messages) /\ up'[c] # <<>>
      <4>1. up[c] \in Seq(Messages)
        BY <1>1 DEF Typed, WireTyped
      <4>. QED BY <1>4, <3>2, <4>1, AppendProperties
    <3>5. SetupPart(c, up'[c], k, n)
      BY <1>4, <3>2, <3>3, <3>4, SetupLonger
    <3>6. status'[s] = "SETUP_REQUIRED" /\ Silent(c)' /\ (Heard(c, s, k))'
      BY <1>5, <3>1, <3>3 DEF SetsUp, Silent, Sends, Heard, serverVars
    <3>7. Fits(s, c)'
      BY <1>4, <3>5, <3>6 DEF Fits, SentSetup
    <3>8. CASE pc'[c] = "setup" /\ next'[c] = n + 1
      <4>1. next'[c] - 1 = n
        BY <1>4, <3>8
      <4>2. SetsUp(s, c)'
        BY <3>5, <3>6, <3>8, <4>1 DEF SetsUp, Hears
      <4>. QED BY <3>7, <4>2 DEF Agrees
    <3>9. CASE n = Len(SetupMessages(c)) /\ pc'[c] = "result"
      <4>1. AwaitsResult(s, c)'
        BY <3>4, <3>5, <3>6, <3>9 DEF AwaitsResult, Hears
      <4>. QED BY <3>7, <4>1 DEF Agrees
    <3>. QED BY <2>1, <3>8, <3>9
  <2>4. reads[c] <= reads'[c]
    BY <1>1, <2>1, ReadsSame
  <2>5. /\ pc'[c] \notin {"start", "exited", "hello"} /\ pc[c] \notin {"hello", "answer"} \cup Awaiting
        /\ pc'[c] # "setup" => next'[c] = 1
    BY <1>1, <2>1 DEF Awaiting
  <2>. QED BY <1>1, <1>3, <1>4, <1>5, <2>1, <2>2, <2>3, <2>4, <2>5, SendInSlot
<1>. QED BY <1>2, <1>5 DEF SendSetup

\* Bytes of the answer move from the connection to the buffer.
LEMMA RecvInv ==
    ASSUME IInv, NEW c \in Client, UNCHANGED serverVars, UNCHANGED <<quit_signal, left>>,
           NEW n \in 1..Len(down[c]), Recv(c, n)
    PROVE  IInv'
<1>1. ClientInv(c) /\ Typed /\ ProgramTyped /\ WireTyped
  BY DEF IInv, Typed
<1>2. buf[c] \in Seq(AnswerByte) /\ down[c] \in Seq(AnswerByte)
  BY <1>1 DEF ProgramTyped, WireTyped
<1>3. PICK b, d : b = buf[c] \o SubSeq(down[c], 1, n) /\ d = SubSeq(down[c], n + 1, Len(down[c]))
  OBVIOUS
<1>4. b \in Seq(AnswerByte) /\ d \in Seq(AnswerByte)
  <2>1. Len(down[c]) \in Nat /\ \A i \in 1..Len(down[c]) : down[c][i] \in AnswerByte
    BY <1>2, LenProperties, ElementOfSeq
  <2>2. SubSeq(down[c], 1, n) \in Seq(AnswerByte)
    <3>1. \A i \in 1..n : down[c][i] \in AnswerByte
      BY <2>1
    <3>. QED BY <2>1, <3>1, <1>2, SubSeqProperties
  <2>3. d \in Seq(AnswerByte)
    <3>1. \A i \in (n + 1)..Len(down[c]) : down[c][i] \in AnswerByte
      BY <2>1
    <3>2. n + 1 \in 1..(Len(down[c]) + 1) /\ Len(down[c]) \in Nat
      BY <2>1
    <3>. QED BY <3>1, <3>2, <1>2, <1>3, SubSeqProperties
  <2>. QED BY <1>2, <1>3, <2>2, <2>3, ConcatProperties
<1>5. /\ ProgramTyped' /\ (\A e \in Client \ {c} : SameProgram(e))
      /\ WireTyped' /\ (\A e \in Client \ {c} : SameWire(e))
      /\ buf'[c] = b /\ down'[c] = d
  BY <1>1, <1>3, <1>4 DEF Recv, Unchanged, ProgramTyped, WireTyped, SameProgram, SameWire
<1>6. /\ pc' = pc /\ pc[c] \in Awaiting /\ next' = next /\ again' = again /\ reads' = reads
      /\ sock' = sock /\ broken' = broken /\ gone' = gone /\ up' = up /\ slot' = slot
  BY DEF Recv, Unchanged
<1>7. down[c] # <<>>
  <2>1. Len(down[c]) # 0
    BY <1>2, LenProperties
  <2>. QED BY <2>1
<1>8. (\A x : One(c, x) => One(c, x)') /\ (\A x, y : Two(c, x, y) => Two(c, x, y)')
  <2>1. ASSUME NEW x, down[c] = <<x>> PROVE n = 1 /\ d = <<>> /\ b = buf[c] \o <<x>>
    <3>1. n = 1 /\ Len(down[c]) = 1
      BY <2>1
    <3>2. SubSeq(<<x>>, 1, 1) = <<x>> /\ SubSeq(<<x>>, 2, 1) = <<>>
      BY ShortSequences, Zenon
    <3>. QED BY <1>3, <2>1, <3>1, <3>2
  <2>2. ASSUME NEW x, NEW y, down[c] = <<x, y>>
        PROVE  \/ n = 1 /\ d = <<y>> /\ b = buf[c] \o <<x>>
               \/ n = 2 /\ d = <<>> /\ b = buf[c] \o <<x, y>>
    <3>1. Len(down[c]) = 2 /\ (n = 1 \/ n = 2)
      BY <2>2
    <3>2. /\ SubSeq(<<x, y>>, 1, 1) = <<x>> /\ SubSeq(<<x, y>>, 2, 2) = <<y>>
          /\ SubSeq(<<x, y>>, 1, 2) = <<x, y>> /\ SubSeq(<<x, y>>, 3, 2) = <<>>
      BY ShortSequences, Zenon
    <3>3. CASE n = 1
      <4>1. n + 1 = 2
        BY <3>3
      <4>2. d = <<y>> /\ b = buf[c] \o <<x>>
        BY <1>3, <2>2, <3>1, <3>2, <3>3, <4>1, Zenon
      <4>. QED BY <3>3, <4>2
    <3>4. CASE n = 2
      <4>1. n + 1 = 3
        BY <3>4
      <4>2. d = <<>> /\ b = buf[c] \o <<x, y>>
        BY <1>3, <2>2, <3>1, <3>2, <3>4, <4>1, Zenon
      <4>. QED BY <3>4, <4>2
    <3>. QED BY <3>1, <3>3, <3>4
  <2>3. \A x, y : <<>> \o <<x>> = <<x>> /\ <<>> \o <<x, y>> = <<x, y>> /\ <<x>> \o <<y>> = <<x, y>>
    BY ShortSequences, Zenon
  <2>4. ASSUME NEW x, One(c, x) PROVE One(c, x)'
    BY <2>1, <2>3, <2>4, <1>5, <1>7 DEF One
  <2>5. ASSUME NEW x, NEW y, Two(c, x, y) PROVE Two(c, x, y)'
    <3>1. CASE buf[c] = <<>> /\ down[c] = <<x, y>>
      BY <2>2, <2>3, <3>1, <1>5 DEF Two
    <3>2. CASE buf[c] = <<x>> /\ down[c] = <<y>>
      BY <2>1, <2>3, <3>2, <1>5 DEF Two
    <3>. QED BY <2>5, <3>1, <3>2, <1>7 DEF Two
  <2>. QED BY <2>4, <2>5
<1>9. ~Silent(c)
  BY <1>7 DEF Silent
<1>10. up[c] = <<>>
  BY <1>1, <1>9 DEF ClientInv, AnswerInv
<1>11. (Active(c)' <=> Active(c)) /\ (Placed(c)' <=> Placed(c))
  BY <1>6 DEF Active, Placed, serverVars
<1>12. sock[c] = "open"
  BY <1>1, <1>7 DEF ClientInv, SockInv
<1>13. SockInv(c)'
  BY <1>1, <1>6, <1>11, <1>12 DEF ClientInv, SockInv
<1>14. AnswerInv(c)'
  BY <1>1, <1>6, <1>8, <1>9, <1>10 DEF ClientInv, AnswerInv
<1>15. EventInv(c)'
  BY <1>1, <1>6, <1>11 DEF ClientInv, EventInv, serverVars
<1>16. QueueInv(c)'
  BY <1>1, <1>9 DEF ClientInv, QueueInv, serverVars
<1>17. ASSUME NEW s \in Slots, fd[s] = c PROVE SlotInv(s, c)'
  <2>1. SlotInv(s, c)
    BY <1>17 DEF IInv
  <2>2. Fits(s, c)'
    BY <1>6, <1>10 DEF Fits
  <2>3. QuitUnderWay(c)'
    BY <1>6, <2>1 DEF SlotInv, QuitUnderWay
  <2>4. Active(c) => Agrees(s, c)'
    <3>1. SUFFICES ASSUME Active(c) PROVE Agrees(s, c)'
      OBVIOUS
    <3>2. AwaitsAnswer(s, c) \/ HasResult(s, c)
      BY <1>9, <2>1, <3>1 DEF SlotInv, Agrees, OwesPassword, AwaitsVerdict, SetsUp,
                              AwaitsResult, Streams
    <3>3. AwaitsAnswer(s, c) => AwaitsAnswer(s, c)'
      BY <1>6, <1>8 DEF AwaitsAnswer, serverVars
    <3>4. HasResult(s, c) => HasResult(s, c)'
      BY <1>6, <1>8 DEF HasResult, serverVars
    <3>. QED BY <3>2, <3>3, <3>4 DEF Agrees
  <2>. QED BY <1>11, <2>2, <2>3, <2>4 DEF SlotInv
<1>18. ClientInv(c)'
  BY <1>13, <1>14, <1>15, <1>16 DEF ClientInv
<1>. QED BY <1>5, <1>17, <1>18, ProgramStepInv

\* What is in the buffer once an answer is complete.
LEMMA CompleteFacts ==
    ASSUME IInv, NEW c \in Client, Answered(c)
    PROVE  /\ up[c] = <<>> /\ down[c] = <<>> /\ buf[c] # <<>>
           /\ \/ \E t \in Replies \ {"SUCCESS"} : buf[c] = <<<<t>>>>
              \/ \E s \in Slots : buf[c] = <<<<"SUCCESS">>, <<"slot", s>>>>
<1>1. ClientInv(c)
  BY DEF IInv
<1>2. PICK b : b = buf[c]
  OBVIOUS
<1>3. b # <<>> /\ Len(b) >= AnswerSize(b[1][1])
  BY <1>2 DEF Answered, Complete, TypeOf
<1>4. up[c] = <<>> /\ ~Silent(c)
  BY <1>1, <1>2, <1>3 DEF ClientInv, AnswerInv, Silent
<1>5. CASE \E t \in Replies : One(c, <<t>>)
  <2>1. PICK t \in Replies : One(c, <<t>>)
    BY <1>5
  <2>2. b = <<<<t>>>> /\ down[c] = <<>>
    BY <1>2, <1>3, <2>1 DEF One
  <2>3. t # "SUCCESS"
    <3>1. Len(b) = 1 /\ b[1][1] = t
      BY <2>2
    <3>. QED BY <1>3, <3>1 DEF AnswerSize
  <2>. QED BY <1>2, <1>3, <1>4, <2>2, <2>3
<1>6. CASE \E s \in Slots : Two(c, <<"SUCCESS">>, <<"slot", s>>)
  <2>1. PICK s \in Slots : Two(c, <<"SUCCESS">>, <<"slot", s>>)
    BY <1>6
  <2>2. b # <<<<"SUCCESS">>>>
    <3>1. SUFFICES ASSUME b = <<<<"SUCCESS">>>> PROVE FALSE
      OBVIOUS
    <3>2. Len(b) = 1 /\ b[1][1] = "SUCCESS"
      BY <3>1
    <3>. QED BY <1>3, <3>2 DEF AnswerSize
  <2>. QED BY <1>2, <1>3, <1>4, <2>1, <2>2 DEF Two
<1>. QED BY <1>1, <1>4, <1>5, <1>6 DEF ClientInv, AnswerInv

LEMMA ProceedInv ==
    ASSUME IInv, NEW c \in Client, UNCHANGED serverVars, UNCHANGED <<quit_signal, left>>,
           Answered(c), NEW p \in {"password", "setup", "grab", "stream"}, Proceed(c, p),
           slot' \in [Client -> SlotOption \cup Slots],
           \A d \in Client \ {c} : slot'[d] = slot[d],
           \A s \in Slots : Active(c) /\ Agrees(s, c) /\ pc'[c] = p /\ Silent(c)' => Agrees(s, c)'
    PROVE  IInv'
<1>1. ClientInv(c) /\ Typed /\ ProgramTyped /\ WireTyped
  BY DEF IInv, Typed
<1>2. up[c] = <<>> /\ down[c] = <<>> /\ buf[c] # <<>> /\ pc[c] \in Awaiting
  BY CompleteFacts DEF Answered
<1>3. /\ ProgramTyped' /\ (\A d \in Client \ {c} : SameProgram(d)) /\ pc'[c] = p
      /\ buf'[c] = <<>> /\ next' = next /\ again' = again /\ reads' = reads /\ UNCHANGED wire
  <2>1. <<>> \in Seq(AnswerByte)
    BY EmptySeq
  <2>. QED BY <1>1, <2>1
       DEF Proceed, Goto, ProgramTyped, SameProgram, Places, Streaming
<1>4. (Active(c)' <=> Active(c)) /\ (Placed(c)' <=> Placed(c)) /\ Silent(c)'
  BY <1>2, <1>3 DEF Active, Placed, Silent, wire, serverVars
<1>5. /\ sock[c] = "open" /\ ~broken[c] /\ next[c] = 1
      /\ p \notin {"start", "exited", "hello"} \cup Awaiting
  BY <1>1, <1>2 DEF ClientInv, SockInv, Awaiting
<1>6. SockInv(c)'
  BY <1>1, <1>3, <1>4, <1>5 DEF ClientInv, SockInv, wire
<1>7. AnswerInv(c)'
  BY <1>4 DEF AnswerInv
<1>8. EventInv(c)'
  BY <1>1, <1>2, <1>3, <1>4
     DEF ClientInv, EventInv, Settled, Streaming, Awaiting, serverVars
<1>9. QueueInv(c)'
  BY <1>1, <1>2 DEF ClientInv, QueueInv, Silent, serverVars
<1>10. ASSUME NEW s \in Slots, fd[s] = c PROVE SlotInv(s, c)'
  <2>1. SlotInv(s, c)
    BY <1>10 DEF IInv
  <2>2. Fits(s, c)'
    BY <1>2, <1>3 DEF Fits, wire
  <2>3. QuitUnderWay(c)'
    BY <1>3, <2>1 DEF SlotInv, QuitUnderWay, wire
  <2>. QED BY <1>3, <1>4, <2>1, <2>2, <2>3 DEF SlotInv
<1>11. ClientInv(c)'
  BY <1>6, <1>7, <1>8, <1>9 DEF ClientInv
<1>12. WireTyped' /\ \A d \in Client \ {c} : SameWire(d)
  BY <1>1, <1>3 DEF WireTyped, SameWire, wire
<1>. QED BY <1>3, <1>10, <1>11, <1>12, ProgramStepInv

\* Where the client of a slot stands when the answer is in.
LEMMA AnsweredAgrees ==
    ASSUME NEW c \in Client, NEW s \in Slots, Answered(c), Agrees(s, c), buf[c] # <<>>
    PROVE  AwaitsAnswer(s, c) \/ HasResult(s, c)
BY DEF Agrees, OwesPassword, AwaitsVerdict, SetsUp, AwaitsResult, Streams, Silent

\* A status that has been announced alone is what the client has read.
LEMMA AnnouncedRead ==
    ASSUME NEW c \in Client, NEW s \in Slots, AwaitsAnswer(s, c), NEW t, buf[c] = <<<<t>>>>
    PROVE  status[s] = t
<1>1. One(c, <<status[s]>>)
  BY DEF AwaitsAnswer
<1>2. <<<<t>>>> = <<<<status[s]>>>>
  <2>1. <<<<t>>>> # <<>>
    BY EmptySeq
  <2>. QED BY <1>1, <2>1 DEF One
<1>3. <<<<t>>>>[1][1] = t /\ <<<<status[s]>>>>[1][1] = status[s]
  OBVIOUS
<1>. QED BY <1>2, <1>3

LEMMA PasswordRequiredInv ==
    ASSUME IInv, NEW c \in Client, UNCHANGED serverVars, UNCHANGED <<quit_signal, left>>,
           PasswordRequired(c)
    PROVE  IInv'
<1>1. /\ Answered(c) /\ TypeOf(buf[c]) = "PASSWORD_REQUIRED" /\ Proceed(c, "password")
      /\ slot' = slot
  BY DEF PasswordRequired, Gets
<1>2. slot' \in [Client -> SlotOption \cup Slots]
  BY <1>1 DEF IInv, Typed, ProgramTyped
<1>3. buf[c] = <<<<"PASSWORD_REQUIRED">>>> /\ up[c] = <<>>
  <2>1. \A t : buf[c] = <<<<t>>>> => t = "PASSWORD_REQUIRED"
    BY <1>1 DEF TypeOf
  <2>2. \A s : buf[c] # <<<<"SUCCESS">>, <<"slot", s>>>>
    BY <1>1 DEF TypeOf
  <2>. QED BY <1>1, <2>1, <2>2, CompleteFacts
<1>4. ASSUME NEW s \in Slots, Agrees(s, c), pc'[c] = "password", Silent(c)'
      PROVE  Agrees(s, c)'
  <2>1. ~HasResult(s, c)
    <3>1. \A x, y : <<<<"PASSWORD_REQUIRED">>>> # <<x, y>> /\ <<<<"PASSWORD_REQUIRED">>>> # <<>>
      OBVIOUS
    <3>2. <<<<"PASSWORD_REQUIRED">>>> # <<<<"SUCCESS">>>>
      OBVIOUS
    <3>. QED BY <1>3, <3>1, <3>2 DEF HasResult, Two
  <2>2. status[s] = "PASSWORD_REQUIRED"
    BY <1>1, <1>3, <1>4, <2>1, AnsweredAgrees, AnnouncedRead
  <2>3. OwesPassword(s, c)'
    BY <1>1, <1>3, <1>4, <2>2 DEF OwesPassword, Proceed, serverVars, wire
  <2>. QED BY <2>3 DEF Agrees
<1>. QED BY <1>1, <1>2, <1>4, ProceedInv

LEMMA SetupRequiredInv ==
    ASSUME IInv, NEW c \in Client, UNCHANGED serverVars, UNCHANGED <<quit_signal, left>>,
           SetupRequired(c)
    PROVE  IInv'
<1>1. /\ Answered(c) /\ TypeOf(buf[c]) = "SETUP_REQUIRED" /\ Proceed(c, "setup")
      /\ slot' = slot
  BY DEF SetupRequired, Gets
<1>2. slot' \in [Client -> SlotOption \cup Slots]
  BY <1>1 DEF IInv, Typed, ProgramTyped
<1>3. buf[c] = <<<<"SETUP_REQUIRED">>>> /\ up[c] = <<>>
  <2>1. \A t : buf[c] = <<<<t>>>> => t = "SETUP_REQUIRED"
    BY <1>1 DEF TypeOf
  <2>2. \A s : buf[c] # <<<<"SUCCESS">>, <<"slot", s>>>>
    BY <1>1 DEF TypeOf
  <2>. QED BY <1>1, <2>1, <2>2, CompleteFacts
<1>4. ASSUME NEW s \in Slots, Agrees(s, c), pc'[c] = "setup", Silent(c)'
      PROVE  Agrees(s, c)'
  <2>1. ~HasResult(s, c)
    <3>1. \A x, y : <<<<"SETUP_REQUIRED">>>> # <<x, y>> /\ <<<<"SETUP_REQUIRED">>>> # <<>>
      OBVIOUS
    <3>2. <<<<"SETUP_REQUIRED">>>> # <<<<"SUCCESS">>>>
      OBVIOUS
    <3>. QED BY <1>3, <3>1, <3>2 DEF HasResult, Two
  <2>2. status[s] = "SETUP_REQUIRED"
    BY <1>1, <1>3, <1>4, <2>1, AnsweredAgrees, AnnouncedRead
  <2>3. next'[c] = 1 /\ up'[c] = <<>> /\ status'[s] = "SETUP_REQUIRED"
    <3>1. next[c] = 1
      BY <1>1 DEF IInv, ClientInv, SockInv, Answered, Awaiting
    <3>. QED BY <1>1, <1>3, <2>2, <3>1 DEF Proceed, serverVars, wire
  <2>4. SetupPart(c, <<>>, 0, 0)
    BY SetupFacts DEF SetupPart
  <2>5. Heard(c, s, 0)'
    BY DEF Heard
  <2>6. next'[c] - 1 = 0 /\ 0 \in Nat
    BY <2>3
  <2>7. Hears(s, c, next[c] - 1)'
    BY <2>3, <2>4, <2>5, <2>6, Zenon DEF Hears, SetupPart
  <2>8. SetsUp(s, c)'
    BY <1>4, <2>3, <2>7 DEF SetsUp
  <2>. QED BY <2>8 DEF Agrees
<1>. QED BY <1>1, <1>2, <1>4, ProceedInv

LEMMA SuccessInv ==
    ASSUME IInv, NEW c \in Client, UNCHANGED serverVars, UNCHANGED <<quit_signal, left>>,
           Success(c)
    PROVE  IInv'
<1>1. /\ Answered(c) /\ TypeOf(buf[c]) = "SUCCESS"
      /\ slot' = [slot EXCEPT ![c] = SlotByte(buf[c])]
  BY DEF Success, Gets
<1>2. PICK t \in Slots : buf[c] = <<<<"SUCCESS">>, <<"slot", t>>>>
  <2>1. \A x : buf[c] = <<<<x>>>> => x = "SUCCESS"
    BY <1>1 DEF TypeOf
  <2>. QED BY <1>1, <2>1, CompleteFacts
<1>3. SlotByte(buf[c]) = t
  BY <1>2 DEF SlotByte
<1>4. /\ slot' \in [Client -> SlotOption \cup Slots] /\ slot'[c] = t
      /\ \A d \in Client \ {c} : slot'[d] = slot[d]
  BY <1>1, <1>3 DEF IInv, Typed, ProgramTyped
<1>5. PICK p \in {"grab", "stream"} : Proceed(c, p)
  BY DEF Success
<1>6. up[c] = <<>> /\ down[c] = <<>>
  BY <1>1, CompleteFacts
<1>7. ASSUME NEW s \in Slots, Active(c), Agrees(s, c), pc'[c] = p, Silent(c)'
      PROVE  Agrees(s, c)'
  <2>1. ~AwaitsAnswer(s, c)
    <3>1. \A x : <<<<"SUCCESS">>, <<"slot", t>>>> # <<x>> /\ <<<<"SUCCESS">>, <<"slot", t>>>> # <<>>
      OBVIOUS
    <3>. QED BY <1>2, <3>1 DEF AwaitsAnswer, One
  <2>2. HasResult(s, c)
    <3>1. buf[c] # <<>>
      BY <1>1, CompleteFacts
    <3>. QED BY <1>1, <1>7, <2>1, <3>1, AnsweredAgrees
  <2>3. s = t
    <3>1. buf[c] = <<<<"SUCCESS">>, <<"slot", s>>>>
      <4>1. \A x : <<<<"SUCCESS">>, <<"slot", t>>>> # <<x>> /\ <<<<"SUCCESS">>, <<"slot", t>>>> # <<>>
        OBVIOUS
      <4>. QED BY <1>2, <2>2, <4>1 DEF HasResult, Two
    <3>2. \A x : <<<<"SUCCESS">>, <<"slot", x>>>>[2][2] = x
      OBVIOUS
    <3>. QED BY <1>2, <3>1, <3>2
  <2>4. reads[c] = 0 /\ Len(written[c]) = 0
    <3>1. reads[c] = 0 /\ Len(written[c]) <= reads[c] /\ written[c] \in Seq(1..MaxEvents)
      BY <1>1, <1>7 DEF IInv, ClientInv, EventInv, Typed, ServerTyped, Answered, Awaiting,
                        Settled, Streaming
    <3>. QED BY <3>1, LenProperties
  <2>5. /\ status'[s] = "SUCCESS" /\ device'[s] # NULL /\ Enough(c, device[s])'
        /\ up'[c] = <<>> /\ written'[c] = written[c] /\ reads'[c] = reads[c]
    BY <1>5, <1>6, <2>2 DEF HasResult, Proceed, Enough, serverVars, wire
  <2>6. UnderWay(up'[c], Len(written'[c]), reads'[c])
    BY <2>4, <2>5 DEF UnderWay
  <2>7. Streams(s, c)'
    BY <1>4, <1>7, <2>3, <2>5, <2>6 DEF Streams, UnderWay, Settled, Streaming
  <2>. QED BY <2>7 DEF Agrees
<1>. QED BY <1>1, <1>4, <1>5, <1>7, ProceedInv

LEMMA HandshakeInv ==
    ASSUME IInv, NEW c \in Client, UNCHANGED serverVars, UNCHANGED <<quit_signal, left>>,
           Handshake(c)
    PROVE  IInv'
<1>1. CASE SendHello(c)
  BY <1>1, SendHelloInv
<1>2. CASE SendPassword(c)
  BY <1>2, SendPasswordInv
<1>3. CASE SendSetup(c)
  BY <1>3, SendSetupInv
<1>4. CASE \E n \in 1..Len(down[c]) : Recv(c, n)
  BY <1>4, RecvInv
<1>5. CASE RecvFails(c) \/ Refused(c)
  <2>1. ConnectFails(c) /\ pc[c] \notin {"start", "exited"}
    BY <1>5 DEF RecvFails, Refused, Answered, Awaiting
  <2>2. quit_signal' \in [Client -> BOOLEAN]
    BY DEF IInv, Typed, ProgramTyped
  <2>. QED BY <2>1, <2>2, ConnectFailsInv
<1>6. CASE PasswordRequired(c)
  BY <1>6, PasswordRequiredInv
<1>7. CASE SetupRequired(c)
  BY <1>7, SetupRequiredInv
<1>8. CASE Success(c)
  BY <1>8, SuccessInv
<1>. QED BY <1>1, <1>2, <1>3, <1>4, <1>5, <1>6, <1>7, <1>8 DEF Handshake

-----------------------------------------------------------------------------
(* run() and device_reopen().                                              *)

LEMMA SettledFacts ==
    ASSUME IInv, NEW c \in Client, pc[c] \in Settled
    PROVE  /\ sock[c] = "open" /\ buf[c] = <<>> /\ next[c] = 1
           /\ pc[c] # "leave" => ~broken[c]
           /\ \A s \in Slots : fd[s] = c /\ Active(c) => Streams(s, c)
<1>1. ClientInv(c) /\ \A s \in Slots : fd[s] = c => SlotInv(s, c)
  BY DEF IInv
<1>2. pc[c] \notin {"start", "exited", "hello", "setup"} \cup Awaiting
  BY DEF Settled, Streaming, Awaiting
<1>3. sock[c] = "open" /\ buf[c] = <<>> /\ next[c] = 1 /\ (pc[c] # "leave" => ~broken[c])
  BY <1>1, <1>2 DEF ClientInv, SockInv
<1>. QED BY <1>1, <1>3, AtSettled DEF SlotInv

LEMMA GrabInv ==
    ASSUME IInv, NEW c \in Client, UNCHANGED serverVars, UNCHANGED <<quit_signal, left>>,
           Grab(c)
    PROVE  IInv'
<1>1. /\ Typed /\ ProgramTyped /\ pc[c] = "grab" /\ pc[c] \in Settled \ {"leave"}
      /\ UNCHANGED <<again, tries, reads, slot, buf, next, quit_signal>>
  BY DEF IInv, Typed, Grab, At, Elsewhere, Settled
<1>2. sock[c] = "open" /\ buf[c] = <<>> /\ next[c] = 1
  BY <1>1, SettledFacts
<1>3. CASE Goto(c, "stream") /\ UNCHANGED wire
  <2>1. /\ ProgramTyped' /\ (\A d \in Client \ {c} : SameProgram(d))
        /\ pc'[c] = "stream" /\ pc'[c] \in Settled
    BY <1>1, <1>3 DEF ProgramTyped, SameProgram, Goto, Places, Settled, Streaming
  <2>. QED BY <1>1, <1>3, <2>1, SettledInv
<1>4. CASE Goto(c, "exited") /\ Closes(c, up[c])
  <2>1. ProgramTyped' /\ (\A d \in Client \ {c} : SameProgram(d)) /\ pc'[c] = "exited"
    BY <1>1, <1>4 DEF ProgramTyped, SameProgram, Goto, Places
  <2>. QED BY <1>1, <1>2, <1>4, <2>1, ExitInv
<1>. QED BY <1>3, <1>4 DEF Grab

LEMMA TriesAssumed == 0 \in Tries /\ reopen_attempts \in Tries
BY OptionsAssumption DEF Tries

\* The loop, the input device and the signal move a program about.
LEMMA LoopInv ==
    ASSUME IInv, NEW c \in Client, UNCHANGED serverVars, UNCHANGED wire, left' = left,
           quit_signal' \in [Client -> BOOLEAN], UNCHANGED <<again, reads, slot, buf, next>>,
           pc[c] \in Streaming,
           NEW p \in Streaming \cup {"leave"}, Goto(c, p),
           NEW n \in Tries, tries' = tries \/ tries' = [tries EXCEPT ![c] = n]
    PROVE  IInv'
<1>1. Typed /\ ProgramTyped /\ pc[c] \in Settled \ {"leave"} /\ p \in Settled /\ p \in Places
  BY DEF IInv, Typed, Settled, Streaming, Places
<1>2. /\ ProgramTyped' /\ (\A d \in Client \ {c} : SameProgram(d)) /\ pc'[c] = p
  <2>1. tries' \in [Client -> Tries]
    BY <1>1 DEF ProgramTyped
  <2>2. pc' = [pc EXCEPT ![c] = p]
    BY DEF Goto
  <2>. QED BY <1>1, <2>1, <2>2 DEF ProgramTyped, SameProgram
<1>. QED BY <1>1, <1>2, SettledInv

LEMMA LoopTestInv ==
    ASSUME IInv, NEW c \in Client, UNCHANGED serverVars, UNCHANGED <<quit_signal, left>>,
           LoopTest(c)
    PROVE  IInv'
<1>1. PICK p \in Streaming \cup {"leave"} : Goto(c, p)
  BY DEF LoopTest, Streaming
<1>2. pc[c] \in Streaming /\ UNCHANGED <<wire, again, tries, reads, slot, buf, next>>
  BY DEF LoopTest, At, Elsewhere, Streaming
<1>3. quit_signal' \in [Client -> BOOLEAN]
  BY DEF IInv, Typed, ProgramTyped
<1>. QED BY <1>1, <1>2, <1>3, TriesAssumed, LoopInv

LEMMA RetryInv ==
    ASSUME IInv, NEW c \in Client, UNCHANGED serverVars, UNCHANGED <<quit_signal, left>>,
           Retry(c)
    PROVE  IInv'
<1>1. ProgramTyped /\ tries[c] \in Tries
  BY DEF IInv, Typed, ProgramTyped
<1>2. pc[c] = "reopen" /\ UNCHANGED <<wire, again, reads, slot, buf, next>>
  BY DEF Retry, At, Elsewhere
<1>3. quit_signal' \in [Client -> BOOLEAN]
  BY <1>1 DEF ProgramTyped
<1>4. CASE Goto(c, "leave") /\ tries' = [tries EXCEPT ![c] = 0]
  BY <1>2, <1>3, <1>4, TriesAssumed, LoopInv DEF Streaming
<1>5. CASE tries[c] > 0 /\ tries' = [tries EXCEPT ![c] = @ - 1] /\ pc' = pc
  <2>1. PICK n : n = tries[c] - 1
    OBVIOUS
  <2>2. n \in Tries
    BY <1>1, <1>5, <2>1, OptionsAssumption DEF Tries
  <2>3. tries' = [tries EXCEPT ![c] = n]
    BY <1>5, <2>1
  <2>4. Goto(c, "reopen")
    BY <1>1, <1>2, <1>5 DEF Goto, ProgramTyped
  <2>. QED BY <1>2, <1>3, <2>2, <2>3, <2>4, LoopInv DEF Streaming
<1>. QED BY <1>4, <1>5 DEF Retry

LEMMA ReadFailsInv ==
    ASSUME IInv, NEW c \in Client, UNCHANGED serverVars, UNCHANGED <<quit_signal, left>>,
           ReadFails(c)
    PROVE  IInv'
<1>1. /\ pc[c] = "read" /\ UNCHANGED <<wire, again, reads, slot, buf, next>>
      /\ Goto(c, "reopen") /\ tries' = [tries EXCEPT ![c] = reopen_attempts]
  BY DEF ReadFails, At, Elsewhere, ToReopen
<1>2. quit_signal' \in [Client -> BOOLEAN]
  BY DEF IInv, Typed, ProgramTyped
<1>. QED BY <1>1, <1>2, TriesAssumed, LoopInv DEF Streaming

LEMMA ReopenInv ==
    ASSUME IInv, NEW c \in Client, UNCHANGED serverVars, UNCHANGED <<quit_signal, left>>,
           Reopen(c)
    PROVE  IInv'
<1>1. /\ pc[c] = "reopen" /\ UNCHANGED <<wire, again, reads, slot, buf, next>>
      /\ Goto(c, "stream") \/ Goto(c, "leave")
      /\ tries' = [tries EXCEPT ![c] = 0]
  BY DEF Reopen, At, Elsewhere
<1>2. quit_signal' \in [Client -> BOOLEAN]
  BY DEF IInv, Typed, ProgramTyped
<1>. QED BY <1>1, <1>2, TriesAssumed, LoopInv DEF Streaming

\* One event more.
LEMMA EventsLonger ==
    ASSUME NEW q \in Seq(Messages), NEW w \in Nat, NEW r \in Nat, NEW m,
           UnderWay(q, w, r), m = <<"DATA", r + 1>>, m \in Messages
    PROVE  UnderWay(Append(q, m), w, r + 1)
<1>1. /\ w + Len(q) = r /\ Len(q) \in Nat /\ DOMAIN q = 1..Len(q)
      /\ \A i \in 1..Len(q) : q[i] = <<"DATA", w + i>>
  BY LenProperties DEF UnderWay
<1>2. PICK p : p = Append(q, m)
  OBVIOUS
<1>3. /\ p \in Seq(Messages) /\ Len(p) = Len(q) + 1 /\ p[Len(q) + 1] = m
      /\ \A i \in 1..Len(q) : p[i] = q[i]
  BY <1>2, AppendProperties
<1>4. DOMAIN p = 1..(Len(q) + 1) /\ w + (Len(q) + 1) = r + 1
  BY <1>1, <1>3, LenProperties
<1>5. ASSUME NEW i \in DOMAIN p PROVE p[i] = <<"DATA", w + i>>
  <2>1. CASE i = Len(q) + 1
    BY <1>3, <1>4, <2>1
  <2>2. CASE i # Len(q) + 1
    <3>1. i \in 1..Len(q)
      BY <1>1, <1>4, <1>5, <2>2
    <3>. QED BY <1>1, <1>3, <3>1
  <2>. QED BY <2>1, <2>2
<1>. QED BY <1>2, <1>3, <1>4, <1>5 DEF UnderWay

LEMMA UnderWayEvents ==
    ASSUME NEW q \in Seq(Messages), NEW w \in Nat, NEW r \in Nat, UnderWay(q, w, r)
    PROVE  Events(q, w, r)
<1>1. w + Len(q) = r /\ Len(q) \in Nat /\ DOMAIN q = 1..Len(q)
  BY LenProperties DEF UnderWay
<1>2. \A i \in DOMAIN q : w + i <= r
  BY <1>1
<1>. QED BY <1>2 DEF UnderWay, Events

LEMMA ReadEventInv ==
    ASSUME IInv, NEW c \in Client, UNCHANGED serverVars, UNCHANGED <<quit_signal, left>>,
           ReadEvent(c)
    PROVE  IInv'
<1>1. /\ Typed /\ ProgramTyped /\ WireTyped /\ pc[c] = "read" /\ pc[c] \in Settled
      /\ UNCHANGED <<tries, slot, buf, next, quit_signal>>
  BY DEF IInv, Typed, ReadEvent, At, Elsewhere, Settled, Streaming
<1>2. PICK n : n = reads[c]
  OBVIOUS
<1>3. n \in Nat /\ n + 1 \in 0..MaxEvents /\ n + 1 \in 1..MaxEvents /\ n <= n + 1
  BY <1>1, <1>2, OptionsAssumption DEF ProgramTyped, ReadEvent
<1>4. reads' = [reads EXCEPT ![c] = n + 1] /\ reads'[c] = n + 1
  BY <1>1, <1>2 DEF ReadEvent, ProgramTyped
<1>5. sock[c] = "open" /\ buf[c] = <<>> /\ next[c] = 1 /\ ~broken[c]
  BY <1>1, SettledFacts
<1>6. CASE Sends(c, <<"DATA", reads[c] + 1>>) /\ Goto(c, "stream") /\ again' = again
  <2>1. PICK m : m = <<"DATA", n + 1>>
    OBVIOUS
  <2>2. m \in Messages
    BY <1>3, <2>1 DEF Messages
  <2>3. /\ ProgramTyped' /\ (\A d \in Client \ {c} : SameProgram(d)) /\ pc'[c] = "stream"
    BY <1>1, <1>3, <1>4, <1>6 DEF ProgramTyped, SameProgram, Goto, Places, Streaming
  <2>4. ASSUME NEW s \in Slots, fd[s] = c, Active(c), Agrees(s, c)
        PROVE  /\ Silent(c)
               /\ up'[c] = Append(up[c], m) => Fits(s, c)' /\ Agrees(s, c)'
    <3>1. Streams(s, c)
      BY <1>1, <2>4, AtSettled
    <3>2. SUFFICES ASSUME up'[c] = Append(up[c], m) PROVE Fits(s, c)' /\ Agrees(s, c)'
      BY <3>1 DEF Streams
    <3>3. PICK w : w = Len(written[c])
      OBVIOUS
    <3>4. w \in Nat /\ up[c] \in Seq(Messages) /\ UnderWay(up[c], w, n)
      <4>1. written[c] \in Seq(1..MaxEvents) /\ up[c] \in Seq(Messages)
        BY <1>1 DEF Typed, ServerTyped, WireTyped
      <4>. QED BY <1>2, <3>1, <3>3, <4>1, LenProperties DEF Streams
    <3>5. up'[c] \in Seq(Messages) /\ UnderWay(up'[c], w, n + 1)
      BY <1>3, <2>1, <2>2, <3>2, <3>4, AppendProperties, EventsLonger
    <3>6. Events(up'[c], w, n + 1)
      BY <1>3, <3>4, <3>5, UnderWayEvents
    <3>7. /\ status'[s] = "SUCCESS" /\ slot'[c] = s /\ Silent(c)' /\ device'[s] # NULL
          /\ Enough(c, device[s])' /\ written' = written
      BY <1>1, <1>6, <3>1 DEF Streams, Silent, Sends, Enough, serverVars
    <3>8. Fits(s, c)'
      BY <1>4, <3>3, <3>6, <3>7 DEF Fits
    <3>9. Streams(s, c)'
      BY <1>4, <2>3, <3>3, <3>5, <3>7 DEF Streams, UnderWay, Settled, Streaming
    <3>. QED BY <3>8, <3>9 DEF Agrees
  <2>5. /\ pc'[c] \notin {"start", "exited", "hello", "setup"} /\ pc'[c] \in Settled
        /\ pc[c] \notin {"hello", "answer"} \cup Awaiting
        /\ buf'[c] = buf[c] /\ next'[c] = 1 /\ again'[c] = again[c] /\ reads[c] <= reads'[c]
    BY <1>1, <1>2, <1>3, <1>4, <1>5, <1>6, <2>3 DEF Awaiting, Settled, Streaming
  <2>. QED BY <1>2, <1>5, <1>6, <2>1, <2>2, <2>3, <2>4, <2>5, SendInSlot
<1>7. CASE /\ CannotSend(c)
           /\ broken' = [broken EXCEPT ![c] = TRUE]
           /\ \/ Goto(c, "hello") /\ again' = [again EXCEPT ![c] = TRUE]
              \/ Goto(c, "leave") /\ again' = again
           /\ UNCHANGED <<sock, gone, up, down>>
  <2>1. c \in gone
    BY <1>5, <1>7 DEF CannotSend
  <2>2. pc' \in [Client -> Places] /\ (\A d \in Client \ {c} : pc'[d] = pc[d])
        /\ pc'[c] \in {"hello", "leave"}
    BY <1>1, <1>7 DEF ProgramTyped, Goto, Places
  <2>3. again' \in [Client -> BOOLEAN] /\ \A d \in Client \ {c} : again'[d] = again[d]
    BY <1>1, <1>7 DEF ProgramTyped
  <2>4. ProgramTyped' /\ \A d \in Client \ {c} : SameProgram(d)
    BY <1>1, <1>3, <1>4, <2>2, <2>3 DEF ProgramTyped, SameProgram
  <2>5. /\ WireTyped' /\ (\A d \in Client \ {c} : SameWire(d)) /\ broken'[c] = TRUE
    BY <1>1, <1>7 DEF WireTyped, SameWire
  <2>6. SockInv(c)'
    <3>1. ~Active(c)'
      BY <1>7, <2>1 DEF Active
    <3>. QED BY <1>1, <1>5, <1>7, <2>2, <2>5, <3>1 DEF IInv, ClientInv, SockInv
  <2>7. reads[c] <= reads'[c] /\ buf'[c] = buf[c]
    BY <1>1, <1>2, <1>3, <1>4
  <2>. QED BY <1>7, <2>1, <2>4, <2>5, <2>6, <2>7, GoneInv
<1>. QED BY <1>6, <1>7 DEF ReadEvent

\* The last message behind the others.
LEMMA QuitBehind ==
    ASSUME NEW q \in Seq(Messages), NEW w \in Nat, NEW r \in Nat, UnderWay(q, w, r),
           NEW m, m = <<"QUIT">>, m \in Messages
    PROVE  LET p == Append(q, m)
           IN  Events(p, w, r) /\ p # <<>> /\ p[Len(p)] = m
<1>1. /\ w + Len(q) = r /\ Len(q) \in Nat /\ DOMAIN q = 1..Len(q)
      /\ \A i \in 1..Len(q) : q[i] = <<"DATA", w + i>>
  BY LenProperties DEF UnderWay
<1>2. PICK p : p = Append(q, m)
  OBVIOUS
<1>3. /\ p \in Seq(Messages) /\ Len(p) = Len(q) + 1 /\ p[Len(q) + 1] = m
      /\ \A i \in 1..Len(q) : p[i] = q[i]
  BY <1>2, AppendProperties
<1>4. DOMAIN p = 1..(Len(q) + 1) /\ p # <<>>
  BY <1>1, <1>3, LenProperties
<1>5. ASSUME NEW i \in DOMAIN p
      PROVE  \/ p[i] = <<"DATA", w + i>> /\ w + i <= r
             \/ i = Len(p) /\ p[i] = <<"QUIT">>
  <2>1. CASE i = Len(q) + 1
    BY <1>3, <2>1
  <2>2. CASE i # Len(q) + 1
    <3>1. i \in 1..Len(q) /\ w + i <= r
      BY <1>1, <1>4, <1>5, <2>2
    <3>. QED BY <1>1, <1>3, <3>1
  <2>. QED BY <2>1, <2>2
<1>6. Events(p, w, r)
  BY <1>5 DEF Events
<1>. QED BY <1>2, <1>3, <1>4, <1>6

LEMMA LeaveInv ==
    ASSUME IInv, NEW c \in Client, UNCHANGED serverVars, UNCHANGED quit_signal, Leave(c)
    PROVE  IInv'
<1>1. /\ ClientInv(c) /\ Typed /\ ProgramTyped /\ WireTyped
      /\ pc[c] = "leave" /\ pc[c] \in Settled
      /\ UNCHANGED <<again, tries, reads, slot, buf, next, quit_signal>> /\ Goto(c, "exited")
  BY DEF IInv, Typed, Leave, At, Elsewhere, Settled
<1>2. sock[c] = "open" /\ buf[c] = <<>> /\ next[c] = 1
  BY <1>1, SettledFacts
<1>3. ProgramTyped' /\ (\A d \in Client \ {c} : SameProgram(d)) /\ pc'[c] = "exited"
  BY <1>1 DEF ProgramTyped, SameProgram, Goto, Places
<1>4. CASE left' = left /\ Closes(c, up[c])
  BY <1>1, <1>2, <1>3, <1>4, ExitInv
<1>5. CASE /\ ~broken[c] /\ c \notin gone
           /\ left' = left \cup {c} /\ Closes(c, Append(up[c], <<"QUIT">>))
  <2>1. PICK m : m = <<"QUIT">>
    OBVIOUS
  <2>2. PICK q : q = Append(up[c], m)
    OBVIOUS
  <2>3. m \in Messages /\ up[c] \in Seq(Messages) /\ q \in Seq(Messages)
    <3>1. m \in Messages /\ up[c] \in Seq(Messages)
      BY <1>1, <2>1 DEF Messages, WireTyped
    <3>. QED BY <3>1, <2>2, AppendProperties
  <2>4. Active(c) /\ c \notin queue
    <3>1. Active(c)
      BY <1>2, <1>5 DEF Active
    <3>. QED BY <1>1, <3>1, InSlot
  <2>5. \A s \in Slots : fd[s] = c => Streams(s, c)
    BY <1>1, <2>4, SettledFacts
  <2>6. PICK s \in Slots : fd[s] = c
    BY <1>1, <2>4, InSlot
  <2>7. down[c] = <<>>
    BY <2>5, <2>6 DEF Streams, Silent
  <2>8. /\ WireTyped' /\ (\A d \in Client \ {c} : SameWire(d))
        /\ broken'[c] = broken[c] /\ sock'[c] = "closed" /\ gone' = gone /\ down'[c] = <<>>
        /\ up'[c] = q
    BY <1>1, <1>5, <2>1, <2>2, <2>3, <2>7, ClosesWire
  <2>9. ~Active(c)' /\ Silent(c)'
    BY <1>1, <1>2, <2>8 DEF Active, Silent
  <2>10. SockInv(c)'
    BY <1>1, <1>2, <1>3, <1>5, <2>8, <2>9 DEF ClientInv, SockInv
  <2>11. AnswerInv(c)' /\ QueueInv(c)'
    BY <2>4, <2>9 DEF AnswerInv, QueueInv, serverVars
  <2>12. EventInv(c)'
    BY <1>1, <2>9 DEF ClientInv, EventInv, serverVars
  <2>13. ASSUME NEW t \in Slots, fd[t] = c PROVE SlotInv(t, c)'
    <3>1. PICK w, r : w = Len(written[c]) /\ r = reads[c]
      OBVIOUS
    <3>2. w \in Nat /\ r \in Nat
      <4>1. written[c] \in Seq(1..MaxEvents) /\ reads[c] \in 0..MaxEvents
        BY <1>1 DEF Typed, ServerTyped, ProgramTyped
      <4>. QED BY <3>1, <4>1, LenProperties
    <3>3. UnderWay(up[c], w, r) /\ status[t] = "SUCCESS"
      BY <2>5, <2>13, <3>1 DEF Streams
    <3>4. Events(q, w, r) /\ q # <<>> /\ q[Len(q)] = m
      BY <2>1, <2>2, <2>3, <3>2, <3>3, QuitBehind
    <3>5. Fits(t, c)'
      BY <1>1, <2>8, <3>1, <3>3, <3>4 DEF Fits, serverVars
    <3>6. QuitUnderWay(c)'
      BY <2>1, <2>8, <3>4 DEF QuitUnderWay
    <3>. QED BY <2>9, <3>5, <3>6 DEF SlotInv
  <2>14. ClientInv(c)'
    BY <2>10, <2>11, <2>12 DEF ClientInv
  <2>. QED BY <1>3, <2>8, <2>13, <2>14, ProgramStepInv
<1>. QED BY <1>4, <1>5 DEF Leave

LEMMA InterruptInv ==
    ASSUME IInv, NEW c \in Client, UNCHANGED serverVars, Interrupt(c)
    PROVE  IInv'
<1>1. /\ Typed /\ ProgramTyped /\ WireTyped /\ left' = left
      /\ pc[c] \notin {"start", "exited"}
      /\ quit_signal' \in [Client -> BOOLEAN]
  BY DEF IInv, Typed, ProgramTyped, Interrupt
<1>2. CASE UNCHANGED <<pc, slot, buf, next, again, tries, reads, wire>>
  <2>1. ProgramTyped' /\ WireTyped'
    BY <1>1, <1>2 DEF ProgramTyped, WireTyped, wire
  <2>2. \A d \in Client : Same(d) /\ SamePlace(d)
    BY <1>1, <1>2 DEF Same, SameProgram, SameWire, SamePlace, wire, serverVars
  <2>3. \A s \in Slots : SameSlot(s)
    BY DEF SameSlot, serverVars
  <2>4. ClientInv(c)'
    BY <2>2, SameClientInv DEF IInv
  <2>5. \A s \in Slots : fd[s] = c => SlotInv(s, c)'
    BY <2>2, <2>3, SameSlotInv DEF IInv
  <2>6. \A d \in Client \ {c} : SameProgram(d) /\ SameWire(d)
    BY <2>2 DEF Same
  <2>. QED BY <2>1, <2>4, <2>5, <2>6, ProgramStepInv
<1>3. CASE ConnectFails(c)
  BY <1>1, <1>3, ConnectFailsInv
<1>4. CASE At(c, "read") /\ ToReopen(c) /\ UNCHANGED <<slot, buf, next, again, reads, wire>>
  <2>1. /\ pc[c] \in Streaming /\ Goto(c, "reopen") /\ "reopen" \in Streaming \cup {"leave"}
        /\ tries' = [tries EXCEPT ![c] = reopen_attempts]
    BY <1>4 DEF At, ToReopen, Streaming
  <2>. QED BY <1>1, <1>4, <2>1, TriesAssumed, LoopInv
<1>. QED BY <1>2, <1>3, <1>4 DEF Interrupt

LEMMA KillInv ==
    ASSUME IInv, NEW c \in Client, UNCHANGED serverVars, Kill(c)
    PROVE  IInv'
<1>1. /\ ClientInv(c) /\ Typed /\ ProgramTyped /\ left' = left
      /\ pc[c] \notin {"start", "exited"} /\ Goto(c, "exited") /\ Closes(c, up[c])
      /\ buf' = [buf EXCEPT ![c] = <<>>] /\ next' = [next EXCEPT ![c] = 1]
      /\ tries' = [tries EXCEPT ![c] = 0] /\ UNCHANGED <<slot, again, quit_signal, reads>>
  BY DEF IInv, Typed, Kill
<1>2. sock[c] = "open"
  BY <1>1 DEF ClientInv, SockInv
<1>3. <<>> \in Seq(AnswerByte) /\ 1 \in 1..Len(SetupMessages(c))
  <2>1. Len(SetupMessages(c)) \in Nat /\ Len(SetupMessages(c)) >= 2
    BY SetupFacts, Zenon
  <2>. QED BY <2>1, EmptySeq
<1>4. /\ ProgramTyped' /\ (\A d \in Client \ {c} : SameProgram(d))
      /\ pc'[c] = "exited" /\ buf'[c] = <<>> /\ next'[c] = 1
  BY <1>1, <1>3, TriesAssumed DEF ProgramTyped, SameProgram, Goto, Places
<1>. QED BY <1>1, <1>2, <1>4, ExitInv

LEMMA ConnectsInv ==
    ASSUME IInv, NEW c \in Client, ConnectStep(c)
    PROVE  IInv'
<1>1. /\ ClientInv(c) /\ Typed /\ ProgramTyped /\ WireTyped /\ ServerTyped /\ pc[c] = "start"
      /\ UNCHANGED <<quit_signal, left, running, fd, status, requested, device, written>>
      /\ undestroyed' = undestroyed
      /\ UNCHANGED <<broken, gone, up, down, again, tries, reads, slot, buf, next>>
  BY DEF IInv, Typed, ConnectStep, Connects, Connect, CannotConnect, At, Elsewhere, wire
<1>2. /\ sock[c] = "none" /\ ~Placed(c) /\ up[c] = <<>> /\ reads[c] = 0 /\ c \notin gone
      /\ down[c] = <<>> /\ buf[c] = <<>> /\ next[c] = 1 /\ c \notin left
      /\ ~again[c] /\ ~broken[c]
  BY <1>1 DEF ClientInv, SockInv, Awaiting
<1>3. CASE Connect(c) /\ queue' = queue \cup {c}
  <2>1. /\ Typed' /\ pc'[c] = "hello" /\ sock'[c] = "open"
        /\ \A d \in Client \ {c} : Same(d) /\ SamePlace(d)
    BY <1>1, <1>3 DEF Connect, Goto, Typed, ProgramTyped, WireTyped, ServerTyped, Places,
                      Same, SameProgram, SameWire, SamePlace
  <2>2. Owners'
    <3>1. \A s \in Slots : fd[s] # c
      BY <1>2 DEF Placed
    <3>. QED BY <1>1, <1>3, <3>1 DEF IInv, Owners
  <2>3. Apart(c)
    BY <1>1, <2>1 DEF Apart, SameSlot
  <2>4. Placed(c)' /\ Silent(c)'
    BY <1>1, <1>2, <1>3 DEF Placed, Silent
  <2>5. SockInv(c)'
    BY <1>1, <1>2, <2>1, <2>4 DEF SockInv
  <2>6. AnswerInv(c)'
    BY <2>4 DEF AnswerInv
  <2>7. EventInv(c)'
    BY <1>1, <1>2 DEF ClientInv, EventInv
  <2>8. QueueInv(c)'
    BY <1>1, <1>2, <2>1, <2>4 DEF QueueInv
  <2>9. \A s \in Slots : fd'[s] # c
    BY <1>1, <1>2 DEF Placed
  <2>10. ClientInv(c)'
    BY <2>5, <2>6, <2>7, <2>8 DEF ClientInv
  <2>. QED BY <2>1, <2>2, <2>3, <2>9, <2>10, ApartInv
<1>4. CASE CannotConnect(c) /\ queue' = queue
  <2>1. UNCHANGED serverVars
    BY <1>1, <1>4 DEF serverVars
  <2>2. /\ ProgramTyped' /\ WireTyped' /\ pc'[c] = "exited" /\ sock' = sock
        /\ \A d \in Client \ {c} : SameProgram(d) /\ SameWire(d)
    BY <1>1, <1>4 DEF CannotConnect, Goto, ProgramTyped, WireTyped, Places, wire,
                      SameProgram, SameWire
  <2>3. ~Placed(c)'
    BY <1>1, <1>2, <1>4 DEF Placed
  <2>4. SockInv(c)'
    BY <1>1, <1>2, <2>2, <2>3 DEF SockInv, Active
  <2>5. AnswerInv(c)'
    BY <1>1, <1>2 DEF AnswerInv, Silent
  <2>6. EventInv(c)'
    BY <1>1, <1>2 DEF ClientInv, EventInv
  <2>7. QueueInv(c)'
    BY <2>3 DEF QueueInv, Placed
  <2>8. \A s \in Slots : fd[s] # c
    BY <1>2 DEF Placed
  <2>9. ClientInv(c)'
    BY <2>4, <2>5, <2>6, <2>7 DEF ClientInv
  <2>. QED BY <2>1, <2>2, <2>8, <2>9, ProgramStepInv
<1>. QED BY <1>3, <1>4 DEF ConnectStep, Connects

\* Whatever a client and its surroundings do.
LEMMA ClientStepInv ==
    ASSUME IInv, NEW c \in Client,
           ClientStep(c) \/ (Surroundings(c) /\ UNCHANGED serverVars)
    PROVE  IInv'
<1>1. CASE UNCHANGED serverVars /\ Program(c)
  <2>1. UNCHANGED quit_signal
    BY <1>1 DEF Program
  <2>2. CASE Leave(c)
    BY <1>1, <2>1, <2>2, LeaveInv
  <2>3. CASE (Handshake(c) \/ Grab(c) \/ LoopTest(c) \/ Retry(c)) /\ left' = left
    BY <1>1, <2>1, <2>3, HandshakeInv, GrabInv, LoopTestInv, RetryInv
  <2>. QED BY <1>1, <2>2, <2>3 DEF Program
<1>2. CASE UNCHANGED serverVars /\ Surroundings(c)
  BY <1>2, ReadEventInv, ReadFailsInv, ReopenInv, InterruptInv, KillInv
     DEF Surroundings, Input
<1>. QED BY <1>1, <1>2 DEF ClientStep

-----------------------------------------------------------------------------
(* What the first message of an owner may be.                              *)

LEMMA TailFacts ==
    ASSUME NEW q \in Seq(Messages), q # <<>>
    PROVE  /\ Len(q) \in Nat \ {0} /\ DOMAIN q = 1..Len(q) /\ q[1] \in Messages
           /\ Tail(q) \in Seq(Messages) /\ Len(Tail(q)) = Len(q) - 1
           /\ DOMAIN Tail(q) = 1..(Len(q) - 1)
           /\ \A i \in 1..(Len(q) - 1) : Tail(q)[i] = q[i + 1]
           /\ Tail(q) = <<>> <=> Len(q) = 1
<1>1. Len(q) \in Nat \ {0} /\ DOMAIN q = 1..Len(q)
  BY LenProperties, EmptySeq
<1>2. /\ Tail(q) \in Seq(Messages) /\ Len(Tail(q)) = Len(q) - 1
      /\ \A i \in 1..Len(Tail(q)) : Tail(q)[i] = q[i + 1]
  BY HeadTailProperties
<1>3. q[1] \in Messages
  BY <1>1, ElementOfSeq
<1>4. DOMAIN Tail(q) = 1..(Len(q) - 1)
  BY <1>2, LenProperties
<1>5. Tail(q) = <<>> <=> Len(q) = 1
  BY <1>1, <1>2, EmptySeq
<1>. QED BY <1>1, <1>2, <1>3, <1>4, <1>5

LEMMA SetupTail ==
    ASSUME NEW c \in Client, NEW q \in Seq(Messages), q # <<>>, NEW k, NEW n, SetupPart(c, q, k, n)
    PROVE  /\ SetupPart(c, Tail(q), k + 1, n) /\ k \in Nat /\ k + 1 \in 1..Len(SetupMessages(c))
           /\ q[1] = SetupMessages(c)[k + 1] /\ k + 1 <= n /\ n \in 0..Len(SetupMessages(c))
           /\ Tail(q) = <<>> <=> k + 1 = n
<1>1. PICK p : p = Tail(q)
  OBVIOUS
<1>2. /\ Len(q) \in Nat \ {0} /\ DOMAIN q = 1..Len(q)
      /\ p \in Seq(Messages) /\ Len(p) = Len(q) - 1 /\ DOMAIN p = 1..(Len(q) - 1)
      /\ \A i \in 1..(Len(q) - 1) : p[i] = q[i + 1]
      /\ p = <<>> <=> Len(q) = 1
  BY <1>1, TailFacts
<1>3. /\ k \in Nat /\ n \in 0..Len(SetupMessages(c)) /\ k + Len(q) = n
      /\ \A i \in 1..Len(q) : q[i] = SetupMessages(c)[k + i]
  BY <1>2 DEF SetupPart
<1>4. Len(SetupMessages(c)) \in Nat
  BY SetupFacts
<1>5. k + 1 \in Nat /\ (k + 1) + Len(p) = n /\ k + 1 \in 1..Len(SetupMessages(c)) /\ k + 1 <= n
  <2>1. n \in Nat /\ n <= Len(SetupMessages(c))
    BY <1>3, <1>4
  <2>2. k + 1 \in Nat /\ (k + 1) + (Len(q) - 1) = n /\ k + 1 <= n
    <3>1. Len(q) \in Nat \ {0} /\ k \in Nat /\ k + Len(q) = n
      BY <1>2, <1>3
    <3>. QED BY <2>1, <3>1
  <2>3. \A a, b, d \in Nat : a + 1 <= b /\ b <= d => a + 1 \in 1..d
    OBVIOUS
  <2>4. k + 1 \in 1..Len(SetupMessages(c))
    BY <1>3, <1>4, <2>1, <2>2, <2>3, Zenon
  <2>. QED BY <1>2, <2>2, <2>4, Zenon
<1>6. ASSUME NEW i \in DOMAIN p PROVE p[i] = SetupMessages(c)[(k + 1) + i]
  <2>1. i \in 1..(Len(q) - 1) /\ i + 1 \in 1..Len(q) /\ k + (i + 1) = (k + 1) + i
    <3>1. Len(q) \in Nat \ {0} /\ k \in Nat /\ i \in 1..(Len(q) - 1)
      BY <1>2, <1>3, <1>6
    <3>. QED BY <3>1
  <2>. QED BY <1>2, <1>3, <2>1
<1>7. SetupPart(c, p, k + 1, n)
  BY <1>3, <1>5, <1>6 DEF SetupPart
<1>8. q[1] = SetupMessages(c)[k + 1]
  <2>1. 1 \in 1..Len(q)
    BY <1>2
  <2>. QED BY <1>3, <2>1
<1>9. p = <<>> <=> k + 1 = n
  <2>1. n \in Nat /\ k \in Nat /\ Len(q) \in Nat /\ k + Len(q) = n
    BY <1>2, <1>3, <1>4
  <2>2. Len(q) = 1 <=> k + 1 = n
    <3>1. \A a, b, d \in Nat : a + b = d => (b = 1 <=> a + 1 = d)
      OBVIOUS
    <3>. QED BY <2>1, <3>1, Zenon
  <2>. QED BY <1>2, <2>2, Zenon
<1>. QED BY <1>1, <1>3, <1>5, <1>7, <1>8, <1>9

LEMMA EventsTail ==
    ASSUME NEW q \in Seq(Messages), q # <<>>, NEW w \in Nat, NEW r \in Nat,
           Events(q, w, r), q[1][1] = "DATA"
    PROVE  /\ Events(Tail(q), w + 1, r) /\ q[1][2] = w + 1 /\ w + 1 <= r
           /\ q[Len(q)] = <<"QUIT">> => /\ Tail(q) # <<>>
                                       /\ Tail(q)[Len(Tail(q))] = <<"QUIT">>
<1>1. PICK p : p = Tail(q)
  OBVIOUS
<1>2. /\ Len(q) \in Nat \ {0} /\ DOMAIN q = 1..Len(q)
      /\ p \in Seq(Messages) /\ Len(p) = Len(q) - 1 /\ DOMAIN p = 1..(Len(q) - 1)
      /\ \A i \in 1..(Len(q) - 1) : p[i] = q[i + 1]
      /\ p = <<>> <=> Len(q) = 1
  BY <1>1, TailFacts
<1>3. \A i \in 1..Len(q) : \/ q[i] = <<"DATA", w + i>> /\ w + i <= r
                           \/ i = Len(q) /\ q[i] = <<"QUIT">>
  BY <1>2 DEF Events
<1>4. q[1] # <<"QUIT">> /\ 1 \in 1..Len(q)
  <2>1. <<"QUIT">>[1] # "DATA"
    OBVIOUS
  <2>. QED BY <1>2, <2>1
<1>5. q[1] = <<"DATA", w + 1>> /\ w + 1 <= r
  BY <1>3, <1>4
<1>6. q[1][2] = w + 1
  BY <1>5
<1>7. ASSUME NEW i \in DOMAIN p
      PROVE  \/ p[i] = <<"DATA", (w + 1) + i>> /\ (w + 1) + i <= r
             \/ i = Len(p) /\ p[i] = <<"QUIT">>
  <2>1. /\ i \in 1..(Len(q) - 1) /\ i + 1 \in 1..Len(q) /\ w + (i + 1) = (w + 1) + i
        /\ i + 1 = Len(q) => i = Len(p)
    <3>1. Len(q) \in Nat \ {0} /\ i \in 1..(Len(q) - 1) /\ Len(p) = Len(q) - 1
      BY <1>2, <1>7
    <3>. QED BY <3>1
  <2>2. p[i] = q[i + 1]
    BY <1>2, <2>1
  <2>. QED BY <1>3, <2>1, <2>2
<1>8. Events(p, w + 1, r)
  BY <1>7 DEF Events
<1>9. ASSUME q[Len(q)] = <<"QUIT">> PROVE p # <<>> /\ p[Len(p)] = <<"QUIT">>
  <2>1. Len(q) # 1
    BY <1>4, <1>9
  <2>2. Len(p) \in 1..(Len(q) - 1) /\ Len(p) + 1 = Len(q)
    BY <1>2, <2>1
  <2>. QED BY <1>2, <1>9, <2>1, <2>2
<1>. QED BY <1>1, <1>5, <1>6, <1>8, <1>9

LEMMA UnderWayTail ==
    ASSUME NEW q \in Seq(Messages), q # <<>>, NEW w \in Nat, NEW r \in Nat, UnderWay(q, w, r)
    PROVE  UnderWay(Tail(q), w + 1, r)
<1>1. PICK p : p = Tail(q)
  OBVIOUS
<1>2. /\ Len(q) \in Nat \ {0} /\ DOMAIN q = 1..Len(q)
      /\ p \in Seq(Messages) /\ Len(p) = Len(q) - 1 /\ DOMAIN p = 1..(Len(q) - 1)
      /\ \A i \in 1..(Len(q) - 1) : p[i] = q[i + 1]
  BY <1>1, TailFacts
<1>3. w + Len(q) = r /\ \A i \in 1..Len(q) : q[i] = <<"DATA", w + i>>
  BY <1>2 DEF UnderWay
<1>4. ASSUME NEW i \in DOMAIN p PROVE p[i] = <<"DATA", (w + 1) + i>>
  <2>1. /\ i \in 1..(Len(q) - 1) /\ i + 1 \in 1..Len(q) /\ w + (i + 1) = (w + 1) + i
    BY <1>2, <1>4
  <2>. QED BY <1>2, <1>3, <2>1
<1>5. (w + 1) + Len(p) = r
  <2>1. Len(q) \in Nat /\ Len(p) = Len(q) - 1 /\ w + Len(q) = r
    BY <1>2, <1>3
  <2>. QED BY <2>1
<1>. QED BY <1>1, <1>4, <1>5 DEF UnderWay

LEMMA FirstType ==
    ASSUME Typed, NEW c \in Client, NEW s \in Slots, Fits(s, c), up[c] # <<>>
    PROVE  /\ up[c] \in Seq(Messages) /\ up[c][1] \in Messages
           /\ \/ /\ status[s] = "PASSWORD_REQUIRED" /\ SentPassword(c)
                 /\ up[c][1][1] = "PASSWORD"
              \/ /\ status[s] = "SETUP_REQUIRED" /\ SentSetup(c)
                 /\ up[c][1][1] \in SetupType
              \/ /\ status[s] = "SUCCESS" /\ Events(up[c], Len(written[c]), reads[c])
                 /\ up[c][1][1] \in {"DATA", "QUIT"}
<1>1. PICK q : q = up[c]
  OBVIOUS
<1>2. q \in Seq(Messages) /\ q # <<>>
  BY <1>1 DEF Typed, WireTyped
<1>3. Len(q) \in Nat \ {0} /\ DOMAIN q = 1..Len(q) /\ q[1] \in Messages
  BY <1>2, TailFacts
<1>4. CASE status[s] = "PASSWORD_REQUIRED" /\ SentPassword(c)
  <2>1. PICK p \in Password : q = <<<<"PASSWORD", p>>>>
    BY <1>1, <1>4 DEF SentPassword
  <2>2. q[1][1] = "PASSWORD"
    BY <2>1
  <2>. QED BY <1>1, <1>2, <1>3, <1>4, <2>2
<1>5. CASE status[s] = "SETUP_REQUIRED" /\ SentSetup(c)
  <2>1. PICK k, n \in Nat : SetupPart(c, q, k, n)
    BY <1>1, <1>5 DEF SentSetup
  <2>2. q[1] = SetupMessages(c)[k + 1] /\ k + 1 \in 1..Len(SetupMessages(c))
    BY <1>2, <2>1, SetupTail
  <2>3. q[1][1] \in SetupType
    BY <2>2, SetupFacts
  <2>. QED BY <1>1, <1>2, <1>3, <1>5, <2>3
<1>6. CASE status[s] = "SUCCESS" /\ Events(up[c], Len(written[c]), reads[c])
  <2>1. q[1] = <<"DATA", Len(written[c]) + 1>> \/ q[1] = <<"QUIT">>
    BY <1>1, <1>3, <1>6 DEF Events
  <2>2. q[1][1] \in {"DATA", "QUIT"}
    BY <2>1
  <2>. QED BY <1>1, <1>2, <1>3, <1>6, <2>2
<1>. QED BY <1>4, <1>5, <1>6 DEF Fits

-----------------------------------------------------------------------------
(* The server's end of a connection.                                       *)

Answers == {<<>>} \cup {<<<<t>>>> : t \in Replies}
           \cup {<<<<"SUCCESS">>, <<"slot", s>>>> : s \in Slots}

LEMMA AnswersTyped ==
    /\ Answers \subseteq Seq(AnswerByte)
    /\ \A reply \in Answers : <<>> \o reply = reply
<1>1. <<>> \in Seq(AnswerByte) /\ <<>> \o <<>> = <<>>
  BY EmptySeq, ConcatEmptySeq
<1>2. ASSUME NEW t \in Replies
      PROVE  <<<<t>>>> \in Seq(AnswerByte) /\ <<>> \o <<<<t>>>> = <<<<t>>>>
  <2>1. <<t>> \in AnswerByte
    BY DEF AnswerByte
  <2>2. PICK b : b = <<t>>
    OBVIOUS
  <2>3. <<b>> \in Seq(AnswerByte)
    BY <2>1, <2>2
  <2>4. <<>> \o <<b>> = <<b>>
    BY <2>3, ConcatEmptySeq
  <2>. QED BY <2>2, <2>3, <2>4
<1>3. ASSUME NEW s \in Slots
      PROVE  /\ <<<<"SUCCESS">>, <<"slot", s>>>> \in Seq(AnswerByte)
             /\ <<>> \o <<<<"SUCCESS">>, <<"slot", s>>>> = <<<<"SUCCESS">>, <<"slot", s>>>>
  <2>1. <<"SUCCESS">> \in AnswerByte /\ <<"slot", s>> \in AnswerByte
    BY DEF AnswerByte, Replies
  <2>2. PICK a, b : a = <<"SUCCESS">> /\ b = <<"slot", s>>
    OBVIOUS
  <2>3. <<a, b>> \in Seq(AnswerByte)
    BY <2>1, <2>2
  <2>4. <<>> \o <<a, b>> = <<a, b>>
    BY <2>3, ConcatEmptySeq
  <2>. QED BY <2>2, <2>3, <2>4
<1>. QED BY <1>1, <1>2, <1>3 DEF Answers

\* The server takes a message: nothing of its own is under way.
LEMMA TakesWire ==
    ASSUME IInv, NEW c \in Client, up[c] # <<>>, NEW reply \in Answers, Takes(c, reply),
           UNCHANGED <<program, left>>
    PROVE  /\ WireTyped' /\ ProgramTyped' /\ \A d \in Client \ {c} : SameProgram(d) /\ SameWire(d)
           /\ SameProgram(c) /\ Silent(c) /\ sock[c] # "none"
           /\ sock'[c] = sock[c] /\ broken'[c] = broken[c] /\ gone' = gone
           /\ up'[c] = Tail(up[c])
           /\ sock[c] # "open" => down'[c] = <<>>
           /\ sock[c] = "open" => down'[c] = reply
<1>1. ProgramTyped /\ WireTyped /\ ClientInv(c)
  BY DEF IInv, Typed
<1>2. Silent(c) /\ sock[c] # "none"
  BY <1>1 DEF ClientInv, AnswerInv, SockInv
<1>3. down[c] \o reply = reply /\ reply \in Seq(AnswerByte) /\ <<>> \in Seq(AnswerByte)
  BY <1>2, AnswersTyped, EmptySeq DEF Silent
<1>4. up[c] \in Seq(Messages) /\ Tail(up[c]) \in Seq(Messages)
  <2>1. up[c] \in Seq(Messages)
    BY <1>1 DEF WireTyped
  <2>. QED BY <2>1, HeadTailProperties
<1>5. ProgramTyped' /\ \A d \in Client : SameProgram(d)
  BY <1>1 DEF program, ProgramTyped, SameProgram
<1>6. PICK p, q : p = Tail(up[c]) /\ q = IF sock[c] = "closed" THEN <<>> ELSE reply
  OBVIOUS
<1>7. /\ up' = [up EXCEPT ![c] = p] /\ down' = [down EXCEPT ![c] = q]
      /\ UNCHANGED <<sock, broken, gone, left>>
      /\ p \in Seq(Messages) /\ q \in Seq(AnswerByte)
  BY <1>3, <1>4, <1>6 DEF Takes
<1>. HIDE DEF Messages, AnswerByte
<1>8. WireTyped' /\ \A d \in Client \ {c} : SameWire(d)
  BY <1>1, <1>7 DEF WireTyped, SameWire
<1>9. up'[c] = p /\ down'[c] = q /\ sock'[c] = sock[c] /\ broken'[c] = broken[c] /\ gone' = gone
  BY <1>1, <1>7 DEF WireTyped
<1>10. sock[c] \in {"none", "open", "closed"}
  BY <1>1 DEF WireTyped
<1>. QED BY <1>2, <1>5, <1>6, <1>8, <1>9, <1>10

\* The server closes the connection on which q is then under way to the client.
LEMMA ClosedWire ==
    ASSUME IInv, NEW c \in Client, sock[c] # "none", UNCHANGED <<program, left>>,
           up' = [up EXCEPT ![c] = <<>>], NEW q \in Seq(AnswerByte),
           down' = [down EXCEPT ![c] = IF sock[c] = "closed" THEN <<>> ELSE q],
           gone' = gone \cup {c}, UNCHANGED <<sock, broken>>,
           NEW reply \in Answers, IsCut(reply, q), Silent(c), Len(reply) <= 1
    PROVE  /\ WireTyped' /\ ProgramTyped' /\ \A d \in Client \ {c} : SameProgram(d) /\ SameWire(d)
           /\ SameProgram(c) /\ sock'[c] = sock[c] /\ broken'[c] = broken[c]
           /\ c \in gone' /\ up'[c] = <<>> /\ AnswerInv(c)'
           /\ sock[c] # "open" => down'[c] = <<>>
<1>1. ProgramTyped /\ WireTyped /\ ClientInv(c)
  BY DEF IInv, Typed
<1>2. <<>> \in Seq(AnswerByte) /\ <<>> \in Seq(Messages)
  BY EmptySeq
<1>3. ProgramTyped' /\ \A d \in Client : SameProgram(d)
  BY <1>1 DEF program, ProgramTyped, SameProgram
<1>4. PICK p : p = IF sock[c] = "closed" THEN <<>> ELSE q
  OBVIOUS
<1>5. /\ down' = [down EXCEPT ![c] = p] /\ p \in Seq(AnswerByte)
  BY <1>2, <1>4
<1>. HIDE DEF Messages, AnswerByte
<1>6. WireTyped' /\ \A d \in Client \ {c} : SameWire(d)
  BY <1>1, <1>2, <1>5 DEF WireTyped, SameWire
<1>7. /\ up'[c] = <<>> /\ down'[c] = p /\ sock'[c] = sock[c] /\ broken'[c] = broken[c]
      /\ c \in gone' /\ sock[c] \in {"none", "open", "closed"}
  BY <1>1, <1>5 DEF WireTyped
<1>8. buf'[c] = <<>>
  BY <1>3 DEF Silent, SameProgram
<1>9. p = <<>> \/ \E t \in Replies : p = <<<<t>>>>
  <2>1. reply = <<>> \/ \E t \in Replies : reply = <<<<t>>>>
    <3>1. ASSUME NEW s \in Slots, reply = <<<<"SUCCESS">>, <<"slot", s>>>> PROVE FALSE
      <4>1. Len(<<<<"SUCCESS">>, <<"slot", s>>>>) = 2
        OBVIOUS
      <4>. QED BY <3>1, <4>1
    <3>. QED BY <3>1 DEF Answers
  <2>2. reply \in Seq(AnswerByte)
    BY AnswersTyped
  <2>3. ASSUME reply = <<>> PROVE q = <<>>
    <3>1. Len(q) \in Nat /\ Len(q) <= 0
      BY <2>3, LenProperties DEF IsCut
    <3>. QED BY <3>1, EmptySeq
  <2>4. \A t \in Replies : reply = <<<<t>>>> => q = <<>> \/ q = reply
    BY <2>2, CutShort, Zenon
  <2>. QED BY <1>4, <2>1, <2>3, <2>4, Zenon
<1>10. AnswerInv(c)'
  BY <1>7, <1>8, <1>9 DEF AnswerInv, Silent, One
<1>. QED BY <1>3, <1>4, <1>6, <1>7, <1>10

LEMMA TakesAndClosesWire ==
    ASSUME IInv, NEW c \in Client, up[c] # <<>>, NEW reply \in Answers, Len(reply) <= 1,
           TakesAndCloses(c, reply), UNCHANGED <<program, left>>
    PROVE  /\ WireTyped' /\ ProgramTyped' /\ \A d \in Client \ {c} : SameProgram(d) /\ SameWire(d)
           /\ SameProgram(c) /\ sock[c] # "none" /\ sock'[c] = sock[c] /\ broken'[c] = broken[c]
           /\ gone' = gone \cup {c} /\ c \in gone' /\ up'[c] = <<>> /\ AnswerInv(c)'
           /\ sock[c] # "open" => down'[c] = <<>>
<1>1. ClientInv(c)
  BY DEF IInv
<1>2. Silent(c) /\ sock[c] # "none"
  BY <1>1 DEF ClientInv, AnswerInv, SockInv
<1>3. down[c] \o reply = reply /\ reply \in Seq(AnswerByte)
  BY <1>2, AnswersTyped DEF Silent
<1>4. PICK q \in Survivors(reply, Tail(up[c])) :
          down' = [down EXCEPT ![c] = IF sock[c] = "closed" THEN <<>> ELSE q]
  BY <1>3 DEF TakesAndCloses
<1>5. q \in Seq(AnswerByte) /\ IsCut(reply, q)
  BY <1>3, SurvivorsCut
<1>6. up' = [up EXCEPT ![c] = <<>>] /\ gone' = gone \cup {c} /\ UNCHANGED <<sock, broken>>
  BY DEF TakesAndCloses
<1>. QED BY <1>2, <1>4, <1>5, <1>6, ClosedWire

\* A connection that has lost its place.
LEMMA DropInv ==
    ASSUME IInv, NEW c \in Client, sock[c] # "none", WireTyped', ProgramTyped', ServerTyped',
           \A d \in Client \ {c} : SameProgram(d) /\ SameWire(d) /\ SamePlace(d),
           SameProgram(c), sock'[c] = sock[c], broken'[c] = broken[c],
           left' = left, c \in gone', up'[c] = <<>>, AnswerInv(c)',
           sock[c] # "open" => down'[c] = <<>>, written' = written,
           Owners', c \notin queue', \A s \in Slots : fd'[s] # c,
           \A s \in Slots : fd[s] \in Client \ {c} => SameSlot(s)
    PROVE  IInv'
<1>1. ClientInv(c)
  BY DEF IInv
<1>2. ~Active(c)' /\ ~Placed(c)'
  BY DEF Active, Placed
<1>3. SockInv(c)'
  BY <1>1, <1>2 DEF ClientInv, SockInv, SameProgram
<1>4. EventInv(c)'
  BY <1>1, <1>2 DEF ClientInv, EventInv, SameProgram
<1>5. ClientInv(c)'
  BY <1>3, <1>4 DEF ClientInv, QueueInv
<1>6. Apart(c)
  BY DEF Apart, Same
<1>. QED BY <1>5, <1>6, ApartInv DEF Typed

\* The client of slot s loses the slot.
LEMMA DropSlotInv ==
    ASSUME IInv, NEW s \in Slots, NEW c \in Client, fd[s] = c, fd' = [fd EXCEPT ![s] = NULL],
           queue' = queue, sock[c] # "none", WireTyped', ProgramTyped',
           \A d \in Client \ {c} : SameProgram(d) /\ SameWire(d),
           SameProgram(c), sock'[c] = sock[c], broken'[c] = broken[c],
           left' = left, c \in gone', up'[c] = <<>>, AnswerInv(c)',
           sock[c] # "open" => down'[c] = <<>>, written' = written,
           status' \in [Slots -> Statuses], requested' \in [Slots -> SUBSET AnyCode],
           device' \in [Slots -> (SUBSET AnyCode) \cup {NULL}],
           \A t \in Slots \ {s} : SameSlot(t)
    PROVE  IInv'
<1>1. ServerTyped /\ Owners
  BY DEF IInv, Typed
<1>2. \A t \in Slots : fd'[t] = IF t = s THEN NULL ELSE fd[t]
  BY <1>1 DEF ServerTyped
<1>3. ServerTyped'
  BY <1>1 DEF ServerTyped
<1>4. \A t \in Slots : fd'[t] # c
  BY <1>1, <1>2, Constants DEF Owners
<1>5. \A d \in Client \ {c} : SamePlace(d)
  BY <1>2, Constants DEF SamePlace
<1>6. \A t \in Slots : fd[t] \in Client \ {c} => SameSlot(t)
  OBVIOUS
<1>7. Owners'
  <2>1. NULL \notin queue
    BY <1>1, Constants DEF ServerTyped
  <2>. QED BY <1>1, <1>2, <2>1 DEF Owners, SameSlot
<1>8. c \notin queue'
  BY <1>1 DEF Owners
<1>. QED BY <1>3, <1>4, <1>5, <1>6, <1>7, <1>8, DropInv

\* A waiting connection is given up; at most idle slots change.
LEMMA DropWaitingInv ==
    ASSUME IInv, NEW c \in Client, c \in queue, queue' = queue \ {c}, fd' = fd,
           status' = status, written' = written, sock[c] # "none", WireTyped', ProgramTyped',
           \A d \in Client \ {c} : SameProgram(d) /\ SameWire(d),
           SameProgram(c), sock'[c] = sock[c], broken'[c] = broken[c],
           left' = left, c \in gone', up'[c] = <<>>, AnswerInv(c)',
           sock[c] # "open" => down'[c] = <<>>,
           requested' \in [Slots -> SUBSET AnyCode],
           device' \in [Slots -> (SUBSET AnyCode) \cup {NULL}],
           \A t \in Slots : fd[t] # NULL => SameSlot(t)
    PROVE  IInv'
<1>1. ServerTyped /\ Owners
  BY DEF IInv, Typed
<1>2. ServerTyped' /\ Owners'
  BY <1>1 DEF ServerTyped, Owners
<1>3. \A t \in Slots : fd'[t] # c
  BY <1>1 DEF Owners
<1>4. \A d \in Client \ {c} : SamePlace(d)
  BY DEF SamePlace
<1>5. \A t \in Slots : fd[t] \in Client \ {c} => SameSlot(t)
  BY Constants
<1>. QED BY <1>2, <1>3, <1>4, <1>5, DropInv

\* The client of slot s keeps it, and is answered.
LEMMA ServeInv ==
    ASSUME IInv, NEW s \in Slots, NEW c \in Client, fd[s] = c, UNCHANGED <<program, left, queue, fd>>,
           up[c] # <<>>, NEW reply \in Answers, Takes(c, reply),
           reply # <<>> => Tail(up[c]) = <<>>,
           ServerTyped', status'[s] # "RESERVED_UNCONN", \A t \in Slots \ {s} : SameSlot(t),
           \A d \in Client \ {c} : written'[d] = written[d],
           EventInv(c)', Fits(s, c)', QuitUnderWay(c)', Active(c) => Agrees(s, c)'
    PROVE  IInv'
<1>1. ClientInv(c) /\ Owners
  BY DEF IInv
<1>2. /\ WireTyped' /\ ProgramTyped' /\ \A d \in Client \ {c} : SameProgram(d) /\ SameWire(d)
      /\ SameProgram(c) /\ Silent(c) /\ sock[c] # "none"
      /\ sock'[c] = sock[c] /\ broken'[c] = broken[c] /\ gone' = gone
      /\ up'[c] = Tail(up[c])
      /\ sock[c] # "open" => down'[c] = <<>>
      /\ sock[c] = "open" => down'[c] = reply
  BY TakesWire
<1>3. Active(c)' <=> Active(c)
  BY <1>2 DEF Active
<1>4. Placed(c)'
  BY DEF Placed
<1>5. SockInv(c)'
  BY <1>1, <1>2, <1>3, <1>4 DEF ClientInv, SockInv, SameProgram
<1>6. AnswerInv(c)'
  <2>1. buf'[c] = <<>>
    BY <1>2 DEF SameProgram, Silent
  <2>2. down'[c] = <<>> \/ down'[c] = reply
    BY <1>2
  <2>. QED BY <1>2, <2>1, <2>2 DEF Answers, AnswerInv, Silent, One, Two
<1>7. c \notin queue'
  BY <1>1 DEF Owners
<1>8. ClientInv(c)'
  BY <1>5, <1>6, <1>7 DEF ClientInv, QueueInv
<1>9. Owners'
  BY <1>1 DEF Owners, SameSlot
<1>10. ASSUME NEW t \in Slots, fd'[t] = c PROVE SlotInv(t, c)'
  <2>1. t = s
    BY <1>1, <1>10, Constants DEF Owners
  <2>. QED BY <1>3, <2>1 DEF SlotInv
<1>11. Apart(c)
  <2>1. \A d \in Client \ {c} : Same(d) /\ SamePlace(d)
    BY <1>2 DEF Same, SamePlace
  <2>. QED BY <2>1 DEF Apart
<1>. QED BY <1>2, <1>8, <1>9, <1>10, <1>11, ApartInv DEF Typed

-----------------------------------------------------------------------------
(* client_hello() and the waiting connections.                             *)

LEMMA FirstIn ==
    ASSUME NEW S \in SUBSET Slots, S # {}
    PROVE  First(S) \in S
<1>1. S \subseteq Nat
  BY Constants
<1>2. \E s \in S : \A t \in S : s <= t
  <2> DEFINE L == {n \in Nat : \A m \in 0..n : m \notin S}
  <2>1. SUFFICES ASSUME \A s \in S : \E t \in S : ~(s <= t) PROVE FALSE
    OBVIOUS
  <2>2. 0 \in L
    <3>1. 0 \notin S
      BY Constants
    <3>. QED BY <3>1
  <2>3. ASSUME NEW n \in Nat, n \in L PROVE n + 1 \in L
    <3>1. \A m \in 0..n : m \notin S
      BY <2>3
    <3>2. \A t \in Nat : ~(n + 1 <= t) => t \in 0..n
      OBVIOUS
    <3>3. n + 1 \notin S
      BY <1>1, <2>1, <3>1, <3>2
    <3>4. \A m \in 0..(n + 1) : m \in 0..n \/ m = n + 1
      OBVIOUS
    <3>. QED BY <3>1, <3>3, <3>4
  <2>4. \A n \in Nat : n \in L
    <3>. HIDE DEF L
    <3>. QED BY <2>2, <2>3, AllNaturals
  <2>5. \A n \in Nat : n \notin S
    BY <2>4
  <2>. QED BY <1>1, <2>5
<1>. QED BY <1>2 DEF First

\* A waiting connection that has said something has said HELLO.
LEMMA HelloFacts ==
    ASSUME IInv, NEW c \in Client, c \in queue, up[c] # <<>>
    PROVE  /\ Silent(c) /\ c \notin left \ gone /\ sock[c] # "none" /\ Tail(up[c]) = <<>>
           /\ \A s \in Slots : fd[s] # c
           /\ Active(c) => pc[c] = "answer"
           /\ up[c][1][3] \in Nat
<1>1. ClientInv(c) /\ Owners
  BY DEF IInv
<1>2. PICK h \in Hellos : up[c] = <<h>> /\ (Active(c) => pc[c] = "answer")
  BY <1>1 DEF ClientInv, QueueInv
<1>3. PICK v \in Version, n \in SlotOption \cup Slots : h = <<"HELLO", v, n>>
  BY DEF Hellos
<1>4. n \in Nat
  BY Constants
<1>5. up[c][1][3] = n
  BY <1>2, <1>3
<1>6. Tail(up[c]) = <<>>
  <2>1. h \in {h} /\ up[c] \in Seq({h}) /\ Len(up[c]) = 1
    BY <1>2
  <2>2. Tail(up[c]) \in Seq({h}) /\ Len(Tail(up[c])) = 0
    BY <2>1, HeadTailProperties
  <2>. QED BY <2>2, EmptySeq
<1>. QED BY <1>1, <1>2, <1>4, <1>5, <1>6 DEF ClientInv, QueueInv, SockInv, Owners

\* The slot that is given is an idle one.
LEMMA ChosenIdle ==
    ASSUME NEW hello, hello[3] \in Nat, Refusal(hello) = "none"
    PROVE  Chosen(hello[3]) \in Idle
<1>1. PICK v, n : v = hello[2] /\ n = hello[3]
  OBVIOUS
<1>2. n \in Nat
  BY <1>1
<1>3. /\ v = PROTOCOL_VERSION
      /\ ~(v = PROTOCOL_VERSION /\ n > MAX_CLIENTS)
      /\ ~(v = PROTOCOL_VERSION /\ n \in Slots \ Idle)
      /\ ~(v = PROTOCOL_VERSION /\ n = 0 /\ Idle = {})
  BY <1>1, <1>2, Constants DEF Refusal
<1>4. CASE n # 0
  <2>1. n \in Slots
    BY <1>2, <1>3, <1>4, Constants
  <2>. QED BY <1>1, <1>3, <1>4, <2>1 DEF Chosen
<1>5. CASE n = 0
  <2>1. Idle \subseteq Slots /\ Deviceless \subseteq Idle /\ Idle # {}
    BY <1>3, <1>5 DEF Idle, Deviceless
  <2>2. First(Idle) \in Idle
    BY <2>1, FirstIn
  <2>3. Deviceless # {} => First(Deviceless) \in Deviceless
    BY <2>1, FirstIn
  <2>. QED BY <1>1, <1>5, <2>1, <2>2, <2>3 DEF Chosen
<1>. QED BY <1>4, <1>5

LEMMA RefuseHelloInv ==
    ASSUME IInv, NEW c \in Client, c \in queue, up[c] # <<>>, queue' = queue \ {c},
           RefuseHello(c, up[c][1]), written' = written, UNCHANGED <<program, left>>
    PROVE  IInv'
<1>1. PICK t : t = Refusal(up[c][1])
  OBVIOUS
<1>2. t \in Replies
  <2>1. PICK v, n : v = up[c][1][2] /\ n = up[c][1][3]
    OBVIOUS
  <2>2. n \in Nat
    BY <2>1, HelloFacts
  <2>3. \/ v # PROTOCOL_VERSION
        \/ v = PROTOCOL_VERSION /\ n > MAX_CLIENTS
        \/ v = PROTOCOL_VERSION /\ n \in Slots \ Idle
        \/ v = PROTOCOL_VERSION /\ n = 0 /\ Idle = {}
    BY <2>1, Zenon DEF RefuseHello, Refusal
  <2>4. n > MAX_CLIENTS => n \notin Slots \ Idle /\ n # 0
    BY <2>2, Constants
  <2>5. n \in Slots => n # 0
    BY Constants
  <2>. QED BY <1>1, <2>1, <2>2, <2>3, <2>4, <2>5 DEF Refusal, Replies
<1>3. /\ TakesAndCloses(c, <<<<t>>>>) /\ UNCHANGED <<fd, status, requested, device>>
  BY <1>1 DEF RefuseHello
<1>4. <<<<t>>>> \in Answers /\ Len(<<<<t>>>>) <= 1
  BY <1>2 DEF Answers
<1>5. PICK reply \in Answers : reply = <<<<t>>>>
  BY <1>4
<1>6. TakesAndCloses(c, reply) /\ Len(reply) <= 1
  BY <1>3, <1>4, <1>5
<1>7. /\ requested' \in [Slots -> SUBSET AnyCode]
      /\ device' \in [Slots -> (SUBSET AnyCode) \cup {NULL}]
      /\ \A s \in Slots : SameSlot(s)
  BY <1>3 DEF IInv, Typed, ServerTyped, SameSlot
<1>. HIDE DEF Messages, AnswerByte
<1>8. left' = left
  OBVIOUS
<1>. QED BY <1>3, <1>6, <1>7, <1>8, TakesAndClosesWire, DropWaitingInv

\* handle_hello() from the choice of the slot on.
LEMMA AcceptHelloInv ==
    ASSUME IInv, NEW c \in Client, c \in queue, up[c] # <<>>, queue' = queue \ {c},
           NEW s \in Slots, NEW destroyed \in BOOLEAN, AcceptHello(c, up[c][1], s, destroyed),
           written' = written, UNCHANGED <<program, left>>
    PROVE  IInv'
<1>1. /\ Silent(c) /\ c \notin left \ gone /\ sock[c] # "none" /\ Tail(up[c]) = <<>>
      /\ (\A t \in Slots : fd[t] # c) /\ (Active(c) => pc[c] = "answer")
  BY HelloFacts
<1>2. fd[s] = NULL
  BY HelloFacts, ChosenIdle DEF AcceptHello, Idle
<1>3. ServerTyped /\ Owners /\ ClientInv(c)
  BY DEF IInv, Typed
<1>4. /\ requested' \in [Slots -> SUBSET AnyCode]
      /\ device' \in [Slots -> (SUBSET AnyCode) \cup {NULL}]
      /\ \A t \in Slots \ {s} : requested'[t] = requested[t] /\ device'[t] = device[t]
  BY <1>3 DEF AcceptHello, CleanupDevice, ServerTyped
<1>5. left' = left
  OBVIOUS
<1>6. CASE TakesAndCloses(c, <<>>) /\ UNCHANGED <<fd, status>>
  <2>1. <<>> \in Answers /\ Len(<<>>) <= 1
    BY DEF Answers
  <2>2. \A t \in Slots : fd[t] # NULL => SameSlot(t)
    BY <1>2, <1>4, <1>6 DEF SameSlot
  <2>. QED BY <1>4, <1>5, <1>6, <2>1, <2>2, TakesAndClosesWire, DropWaitingInv
<1>7. CASE /\ fd' = [fd EXCEPT ![s] = c]
           /\ status' = [status EXCEPT ![s] = FirstStatus(device'[s])]
           /\ Takes(c, StatusBytes(FirstStatus(device'[s])))
  <2>1. PICK st : st = FirstStatus(device'[s])
    OBVIOUS
  <2>2. st \in Replies \cap Statuses /\ st # "RESERVED_UNCONN"
    BY <2>1 DEF FirstStatus, NextStatus, Replies, Statuses
  <2>3. PICK reply \in Answers : reply = <<<<st>>>>
    BY <2>2 DEF Answers
  <2>4. Takes(c, reply)
    BY <1>7, <2>1, <2>3 DEF StatusBytes
  <2>5. /\ WireTyped' /\ ProgramTyped' /\ \A d \in Client \ {c} : SameProgram(d) /\ SameWire(d)
        /\ SameProgram(c) /\ sock'[c] = sock[c] /\ broken'[c] = broken[c] /\ gone' = gone
        /\ up'[c] = <<>>
        /\ sock[c] # "open" => down'[c] = <<>>
        /\ sock[c] = "open" => down'[c] = reply
    BY <1>1, <2>4, TakesWire
  <2>6. /\ \A t \in Slots : fd'[t] = IF t = s THEN c ELSE fd[t]
        /\ \A t \in Slots : status'[t] = IF t = s THEN st ELSE status[t]
    BY <1>3, <1>7, <2>1 DEF ServerTyped
  <2>7. ServerTyped'
    BY <1>3, <1>4, <1>7, <2>1, <2>2 DEF ServerTyped
  <2>8. Owners'
    BY <1>1, <1>3, <2>2, <2>6, Constants DEF Owners
  <2>9. Apart(c)
    <3>1. \A d \in Client \ {c} : Same(d)
      BY <2>5 DEF Same
    <3>2. \A d \in Client \ {c} : SamePlace(d)
      BY <1>2, <2>6, Constants DEF SamePlace
    <3>3. \A t \in Slots : fd[t] \in Client \ {c} => SameSlot(t)
      BY <1>2, <1>4, <2>6, Constants DEF SameSlot
    <3>. QED BY <3>1, <3>2, <3>3 DEF Apart
  <2>10. Placed(c)' /\ (Active(c)' <=> Active(c)) /\ buf'[c] = <<>>
    BY <1>1, <2>5, <2>6 DEF Placed, Active, Silent, SameProgram
  <2>11. SockInv(c)'
    BY <1>3, <2>5, <2>10 DEF ClientInv, SockInv, SameProgram
  <2>12. AnswerInv(c)'
    BY <2>2, <2>3, <2>5, <2>10 DEF AnswerInv, Silent, One
  <2>13. EventInv(c)'
    BY <1>3, <2>5, <2>10 DEF ClientInv, EventInv, SameProgram
  <2>14. ClientInv(c)'
    BY <2>11, <2>12, <2>13 DEF ClientInv, QueueInv
  <2>15. \A t \in Slots : fd'[t] = c => t = s
    BY <1>1, <2>6
  <2>16. SlotInv(s, c)'
    <3>1. Fits(s, c)' /\ QuitUnderWay(c)'
      BY <1>1, <2>5 DEF Fits, QuitUnderWay
    <3>2. Active(c)' => AwaitsAnswer(s, c)'
      BY <1>1, <2>3, <2>5, <2>6, <2>10 DEF AwaitsAnswer, Active, One, SameProgram
    <3>. QED BY <3>1, <3>2 DEF SlotInv, Agrees
  <2>. QED BY <2>5, <2>7, <2>8, <2>9, <2>14, <2>15, <2>16, ApartInv DEF Typed
<1>. QED BY <1>6, <1>7 DEF AcceptHello

LEMMA ClientHelloInv ==
    ASSUME IInv, NEW c \in Client, ClientHello(c), UNCHANGED <<program, left>>
    PROVE  IInv'
<1>1. c \in queue /\ up[c] # <<>> /\ queue' = queue \ {c} /\ written' = written
  BY DEF ClientHello, Receives
<1>2. CASE RefuseHello(c, up[c][1])
  BY <1>1, <1>2, RefuseHelloInv
<1>3. CASE \E s \in Slots, destroyed \in BOOLEAN : AcceptHello(c, up[c][1], s, destroyed)
  BY <1>1, <1>3, AcceptHelloInv
<1>. QED BY <1>2, <1>3 DEF ClientHello

LEMMA TurnAwayInv ==
    ASSUME IInv, NEW c \in Client, TurnAway(c), UNCHANGED <<program, left>>
    PROVE  IInv'
<1>1. /\ c \in queue /\ queue' = queue \ {c}
      /\ up' = [up EXCEPT ![c] = <<>>] /\ gone' = gone \cup {c}
      /\ UNCHANGED <<sock, broken, running, fd, status, requested, device, written>>
  BY DEF TurnAway
<1>2. Silent(c) /\ sock[c] # "none"
  BY <1>1 DEF IInv, ClientInv, QueueInv, SockInv, Placed
<1>3. PICK reply \in Answers : reply = <<<<"CLIENT_SLOTS_EXHAUSTED">>>>
  BY DEF Answers, Replies
<1>4. PICK q \in Survivors(reply, up[c]) :
          down' = [down EXCEPT ![c] = IF sock[c] = "closed" THEN <<>> ELSE q]
  BY <1>3 DEF TurnAway
<1>5. Len(reply) <= 1 /\ reply \in Seq(AnswerByte)
  BY <1>3, AnswersTyped
<1>6. q \in Seq(AnswerByte) /\ IsCut(reply, q)
  BY <1>5, SurvivorsCut
<1>7. /\ WireTyped' /\ ProgramTyped' /\ \A d \in Client \ {c} : SameProgram(d) /\ SameWire(d)
      /\ SameProgram(c) /\ sock'[c] = sock[c] /\ broken'[c] = broken[c]
      /\ c \in gone' /\ up'[c] = <<>> /\ AnswerInv(c)'
      /\ sock[c] # "open" => down'[c] = <<>>
  BY <1>1, <1>2, <1>4, <1>5, <1>6, ClosedWire
<1>8. /\ requested' \in [Slots -> SUBSET AnyCode]
      /\ device' \in [Slots -> (SUBSET AnyCode) \cup {NULL}]
      /\ \A s \in Slots : SameSlot(s)
  BY <1>1 DEF IInv, Typed, ServerTyped, SameSlot
<1>. QED BY <1>1, <1>2, <1>7, <1>8, DropWaitingInv

\* A connection closed by its other end, with nothing left to be received.
LEMMA HangUpWire ==
    ASSUME IInv, NEW c \in Client, Placed(c), up[c] = <<>>, gone' = gone \cup {c},
           UNCHANGED <<sock, broken, up, down, program, left>>
    PROVE  /\ WireTyped' /\ ProgramTyped' /\ \A d \in Client \ {c} : SameProgram(d) /\ SameWire(d)
           /\ SameProgram(c) /\ sock[c] # "none" /\ sock'[c] = sock[c] /\ broken'[c] = broken[c]
           /\ c \in gone' /\ up'[c] = <<>> /\ AnswerInv(c)'
           /\ sock[c] # "open" => down'[c] = <<>>
<1>1. ProgramTyped /\ WireTyped /\ ClientInv(c)
  BY DEF IInv, Typed
<1>2. ProgramTyped' /\ \A d \in Client : SameProgram(d)
  BY <1>1 DEF program, ProgramTyped, SameProgram
<1>3. WireTyped' /\ \A d \in Client \ {c} : SameWire(d)
  BY <1>1 DEF WireTyped, SameWire
<1>4. AnswerInv(c)'
  BY <1>1, <1>2 DEF ClientInv, AnswerInv, SameProgram, Silent, One, Two
<1>. QED BY <1>1, <1>2, <1>3, <1>4 DEF ClientInv, SockInv

LEMMA HangUpWaitingInv ==
    ASSUME IInv, NEW c \in Client, HangUpWaiting(c), UNCHANGED <<program, left>>
    PROVE  IInv'
<1>1. /\ c \in queue /\ queue' = queue \ {c} /\ up[c] = <<>> /\ gone' = gone \cup {c}
      /\ UNCHANGED <<sock, broken, up, down, fd, status, requested, device, written>>
  BY DEF HangUpWaiting
<1>2. Placed(c)
  BY <1>1 DEF Placed
<1>3. /\ requested' \in [Slots -> SUBSET AnyCode]
      /\ device' \in [Slots -> (SUBSET AnyCode) \cup {NULL}]
      /\ \A s \in Slots : SameSlot(s)
  BY <1>1 DEF IInv, Typed, ServerTyped, SameSlot
<1>. QED BY <1>1, <1>2, <1>3, HangUpWire, DropWaitingInv

-----------------------------------------------------------------------------
(* client_data() on the client of a slot.                                  *)

\* Slot s is that of c, whose next message is of the type.
LEMMA OwnerFacts ==
    ASSUME IInv, NEW s \in Slots, NEW c \in Client, fd[s] = c
    PROVE  /\ Typed /\ ClientInv(c) /\ SlotInv(s, c) /\ sock[c] # "none" /\ Placed(c)
           /\ status[s] # "RESERVED_UNCONN"
<1>1. Placed(c)
  BY DEF Placed
<1>. QED BY <1>1, Constants DEF IInv, ClientInv, SockInv, Owners

LEMMA DroppedInv ==
    ASSUME IInv, NEW s \in Slots, NEW c \in Client, fd[s] = c, up[c] # <<>>,
           NEW reply \in Answers, Len(reply) <= 1, Drop(s, reply),
           UNCHANGED <<program, left, queue, written>>,
           status' \in [Slots -> Statuses], requested' \in [Slots -> SUBSET AnyCode],
           device' \in [Slots -> (SUBSET AnyCode) \cup {NULL}],
           \A t \in Slots \ {s} : SameSlot(t)
    PROVE  IInv'
<1>1. TakesAndCloses(c, reply) /\ fd' = [fd EXCEPT ![s] = NULL]
  BY DEF Drop
<1>2. left' = left /\ written' = written
  OBVIOUS
<1>. QED BY <1>1, <1>2, TakesAndClosesWire, DropSlotInv

LEMMA NoReply == <<>> \in Answers /\ Len(<<>>) <= 1
BY DEF Answers

\* A QUIT is the last of several messages.
LEMMA NotQuitting ==
    ASSUME Typed, NEW c \in Client, QuitUnderWay(c), up[c] # <<>>,
           Tail(up[c]) = <<>>, up[c][1][1] # "QUIT"
    PROVE  c \notin left \ gone
<1>1. up[c] \in Seq(Messages)
  BY DEF Typed, WireTyped
<1>2. Len(up[c]) = 1
  BY <1>1, TailFacts
<1>3. <<"QUIT">>[1] = "QUIT"
  OBVIOUS
<1>. QED BY <1>2, <1>3 DEF QuitUnderWay

LEMMA HandlePasswordInv ==
    ASSUME IInv, NEW s \in Slots, NEW c \in Client, fd[s] = c, HandlePassword(s),
           UNCHANGED <<program, left>>
    PROVE  IInv'
<1>1. /\ up[c] # <<>> /\ up[c][1][1] = "PASSWORD"
      /\ UNCHANGED <<running, queue, requested, device, written>>
  BY DEF HandlePassword, Handling, Receives
<1>2. /\ Typed /\ ClientInv(c) /\ SlotInv(s, c) /\ sock[c] # "none"
  BY OwnerFacts
<1>3. status[s] = "PASSWORD_REQUIRED" /\ SentPassword(c)
  BY <1>1, <1>2, FirstType DEF SlotInv, SetupType
<1>4. Tail(up[c]) = <<>>
  <2>1. PICK p \in Password : up[c] = <<<<"PASSWORD", p>>>>
    BY <1>3 DEF SentPassword
  <2>2. up[c] \in Seq(Messages) /\ Len(up[c]) = 1
    BY <1>2, <2>1 DEF Typed, WireTyped
  <2>. QED BY <1>1, <2>2, TailFacts
<1>5. PICK st : st = PasswordStatus(s, up[c][1][2])
  OBVIOUS
<1>6. st \in Replies \cap Statuses /\ st # "RESERVED_UNCONN"
  BY <1>5 DEF PasswordStatus, NextStatus, Replies, Statuses
<1>7. PICK reply \in Answers : reply = <<<<st>>>>
  BY <1>6 DEF Answers
<1>8. Announce(s, st, reply)
  BY <1>3, <1>5, <1>7 DEF HandlePassword, StatusBytes
<1>9. /\ status' = [status EXCEPT ![s] = st] /\ status'[s] = st
      /\ status' \in [Slots -> Statuses] /\ requested' \in [Slots -> SUBSET AnyCode]
      /\ device' \in [Slots -> (SUBSET AnyCode) \cup {NULL}]
      /\ \A t \in Slots \ {s} : SameSlot(t)
  BY <1>1, <1>2, <1>6, <1>8 DEF Announce, Typed, ServerTyped, SameSlot
<1>10. CASE Takes(c, reply) /\ fd' = fd
  <2>1. /\ SameProgram(c) /\ Silent(c) /\ sock'[c] = sock[c] /\ gone' = gone /\ up'[c] = <<>>
        /\ sock[c] = "open" => down'[c] = reply
    BY <1>1, <1>4, <1>10, TakesWire
  <2>2. ServerTyped'
    BY <1>1, <1>2, <1>9, <1>10 DEF Typed, ServerTyped
  <2>3. EventInv(c)'
    BY <1>1, <1>2, <2>1 DEF ClientInv, EventInv, SameProgram, Active
  <2>4. Fits(s, c)'
    BY <2>1 DEF Fits
  <2>5. QuitUnderWay(c)'
    <3>1. c \notin left \ gone
      BY <1>1, <1>2, <1>4, NotQuitting DEF SlotInv
    <3>. QED BY <2>1, <3>1 DEF QuitUnderWay
  <2>6. ASSUME Active(c) PROVE Agrees(s, c)'
    <3>1. pc[c] \in {"answer", "verdict"}
      BY <1>1, <1>2, <1>3, <2>6 DEF SlotInv, Agrees, AwaitsAnswer, OwesPassword, AwaitsVerdict,
                                    SetsUp, AwaitsResult, HasResult, Streams
    <3>2. AwaitsAnswer(s, c)'
      BY <1>7, <1>9, <2>1, <2>6, <3>1 DEF AwaitsAnswer, Active, One, Silent, SameProgram
    <3>. QED BY <3>2 DEF Agrees
  <2>7. UNCHANGED <<program, left, queue, fd>> /\ \A d \in Client \ {c} : written'[d] = written[d]
    BY <1>1, <1>10
  <2>. QED BY <1>1, <1>4, <1>6, <1>9, <1>10, <2>2, <2>3, <2>4, <2>5, <2>6, <2>7, ServeInv
<1>11. CASE Drop(s, <<>>)
  BY <1>1, <1>9, <1>11, NoReply, DroppedInv
<1>. QED BY <1>8, <1>10, <1>11 DEF Announce

LEMMA LastOfSetup ==
    ASSUME NEW c \in Client, NEW q \in Seq(Messages), q # <<>>, NEW k, NEW n, SetupPart(c, q, k, n)
    PROVE  q[Len(q)][1] \in SetupType
<1>1. Len(q) \in DOMAIN q /\ Len(q) \in Nat \ {0} /\ DOMAIN q = 1..Len(q)
  BY TailFacts
<1>2. /\ k \in Nat /\ n \in 0..Len(SetupMessages(c)) /\ k + Len(q) = n
      /\ \A i \in DOMAIN q : q[i] = SetupMessages(c)[k + i]
  BY DEF SetupPart
<1>3. Len(SetupMessages(c)) \in Nat
  BY SetupFacts, Zenon
<1>4. k \in Nat /\ n \in 0..Len(SetupMessages(c)) /\ k + Len(q) = n
  BY <1>2
<1>5. n \in 1..Len(SetupMessages(c))
  BY <1>1, <1>3, <1>4
<1>6. q[Len(q)] = SetupMessages(c)[k + Len(q)]
  BY <1>1, <1>2, Zenon
<1>7. q[Len(q)] = SetupMessages(c)[n]
  BY <1>4, <1>6
<1>8. SetupMessages(c)[n][1] \in SetupType
  BY <1>5, SetupFacts
<1>. QED BY <1>7, <1>8

\* The parts of a setup before its end.
LEMMA DescriptionInv ==
    ASSUME IInv, NEW s \in Slots, NEW c \in Client, fd[s] = c, up[c] # <<>>,
           up[c][1][1] \in SetupType \ {"SETUP_END"}, Consumed(s),
           UNCHANGED <<program, left, queue, device, written>>,
           requested' \in [Slots -> SUBSET AnyCode], requested[s] \subseteq requested'[s],
           \A t \in Slots \ {s} : requested'[t] = requested[t],
           up[c][1][1] = "REQUEST_EVENT" =>
              /\ up[c][1][2] \in InRange
              /\ up[c][1][2] \in Whitelist => up[c][1][2] \in requested'[s]
    PROVE  IInv'
<1>1. Typed /\ ClientInv(c) /\ SlotInv(s, c) /\ status[s] # "RESERVED_UNCONN"
  BY OwnerFacts
<1>2. status[s] = "SETUP_REQUIRED" /\ SentSetup(c) /\ up[c] \in Seq(Messages)
  BY <1>1, FirstType DEF SlotInv, SetupType
<1>3. Takes(c, <<>>) /\ UNCHANGED <<fd, status>>
  BY DEF Consumed
<1>4. /\ SameProgram(c) /\ Silent(c) /\ sock'[c] = sock[c] /\ gone' = gone /\ up'[c] = Tail(up[c])
      /\ down'[c] = <<>>
  <2>1. sock[c] = "open" \/ sock[c] # "open"
    OBVIOUS
  <2>. QED BY <1>3, <2>1, NoReply, TakesWire
<1>5. ServerTyped' /\ \A t \in Slots \ {s} : SameSlot(t)
  BY <1>1, <1>3 DEF Typed, ServerTyped, SameSlot
<1>6. EventInv(c)'
  BY <1>1, <1>4 DEF ClientInv, EventInv, SameProgram, Active
<1>7. PICK k, n \in Nat : SetupPart(c, up[c], k, n)
  BY <1>2 DEF SentSetup
<1>8. Fits(s, c)'
  <2>1. SetupPart(c, Tail(up[c]), k + 1, n)
    BY <1>2, <1>7, SetupTail
  <2>2. SentSetup(c)'
    <3>1. up'[c] = Tail(up[c])
      BY <1>4
    <3>2. PICK j : j = k + 1
      OBVIOUS
    <3>3. j \in Nat /\ SetupPart(c, Tail(up[c]), j, n)
      BY <1>7, <2>1, <3>2
    <3>. QED BY <3>1, <3>3 DEF SentSetup
  <2>. QED BY <1>2, <1>3, <2>2 DEF Fits
<1>9. QuitUnderWay(c)'
  <2>1. PICK q : q = up[c]
    OBVIOUS
  <2>2. q[Len(q)][1] \in SetupType
    <3>1. q \in Seq(Messages) /\ q # <<>> /\ SetupPart(c, q, k, n)
      BY <1>2, <1>7, <2>1
    <3>. QED BY <3>1, LastOfSetup
  <2>3. <<"QUIT">>[1] = "QUIT"
    OBVIOUS
  <2>4. q[Len(q)] # <<"QUIT">>
    BY <2>2, <2>3 DEF SetupType
  <2>. QED BY <1>1, <1>4, <2>1, <2>4 DEF SlotInv, QuitUnderWay
<1>10. ASSUME Active(c) PROVE Agrees(s, c)'
  <2>1. SetsUp(s, c) \/ AwaitsResult(s, c)
    BY <1>1, <1>2, <1>10 DEF SlotInv, Agrees, AwaitsAnswer, OwesPassword, AwaitsVerdict,
                             HasResult, Streams
  <2>2. ASSUME NEW m, Hears(s, c, m)
        PROVE  Hears(s, c, m)' /\ (m = Len(SetupMessages(c)) => Tail(up[c]) # <<>>)
    <3>1. PICK j \in Nat : SetupPart(c, up[c], j, m) /\ Heard(c, s, j)
      BY <2>2 DEF Hears
    <3>2. /\ SetupPart(c, Tail(up[c]), j + 1, m) /\ up[c][1] = SetupMessages(c)[j + 1]
          /\ j + 1 \in 1..Len(SetupMessages(c))
          /\ Tail(up[c]) = <<>> => j + 1 = m
      BY <1>2, <3>1, SetupTail
    <3>3. Heard(c, s, j + 1)'
      <4>1. ASSUME NEW i \in 1..(j + 1), SetupMessages(c)[i][1] = "REQUEST_EVENT"
            PROVE  /\ SetupMessages(c)[i][2] \in InRange
                   /\ SetupMessages(c)[i][2] \in Whitelist =>
                         SetupMessages(c)[i][2] \in requested'[s]
        <5>1. CASE i = j + 1
          BY <3>2, <4>1, <5>1
        <5>2. CASE i # j + 1
          <6>1. i \in 1..j
            BY <3>1, <4>1, <5>2
          <6>. QED BY <3>1, <4>1, <6>1 DEF Heard
        <5>. QED BY <5>1, <5>2
      <4>. QED BY <4>1 DEF Heard
    <3>4. Hears(s, c, m)'
      BY <1>4, <3>1, <3>2, <3>3 DEF Hears
    <3>5. j + 1 # Len(SetupMessages(c))
      BY <3>2, SetupFacts
    <3>. QED BY <3>2, <3>4, <3>5
  <2>3. Silent(c)'
    BY <1>4 DEF Silent, SameProgram
  <2>4. CASE SetsUp(s, c)
    <3>1. SetsUp(s, c)'
      BY <1>3, <1>4, <2>2, <2>3, <2>4 DEF SetsUp, SameProgram
    <3>. QED BY <3>1 DEF Agrees
  <2>5. CASE AwaitsResult(s, c)
    <3>1. AwaitsResult(s, c)'
      BY <1>3, <1>4, <2>2, <2>3, <2>5 DEF AwaitsResult, SameProgram
    <3>. QED BY <3>1 DEF Agrees
  <2>. QED BY <2>1, <2>4, <2>5
<1>11. /\ UNCHANGED <<program, left, queue, fd>> /\ status'[s] # "RESERVED_UNCONN"
       /\ \A d \in Client \ {c} : written'[d] = written[d]
  BY <1>1, <1>3
<1>. QED BY <1>3, <1>5, <1>6, <1>8, <1>9, <1>10, <1>11, NoReply, ServeInv

LEMMA HandleDescriptionInv ==
    ASSUME IInv, NEW s \in Slots, NEW c \in Client, fd[s] = c, HandleDescription(s),
           UNCHANGED <<program, left>>
    PROVE  IInv'
<1>1. /\ up[c] # <<>> /\ up[c][1][1] \in {"DEVICE", "ABSINFO"}
      /\ UNCHANGED <<queue, requested, device, written>>
  BY DEF HandleDescription, Handling, Receives
<1>2. Typed /\ SlotInv(s, c)
  BY OwnerFacts
<1>3. status[s] = "SETUP_REQUIRED"
  BY <1>1, <1>2, FirstType DEF SlotInv
<1>4. Consumed(s)
  BY <1>3 DEF HandleDescription
<1>5. requested' \in [Slots -> SUBSET AnyCode]
  BY <1>1, <1>2 DEF Typed, ServerTyped
<1>6. up[c][1][1] \in SetupType \ {"SETUP_END"} /\ up[c][1][1] # "REQUEST_EVENT"
  BY <1>1 DEF SetupType
<1>. QED BY <1>1, <1>4, <1>5, <1>6, DescriptionInv

LEMMA HandleRequestEventInv ==
    ASSUME IInv, NEW s \in Slots, NEW c \in Client, fd[s] = c, HandleRequestEvent(s),
           UNCHANGED <<program, left>>
    PROVE  IInv'
<1>1. /\ up[c] # <<>> /\ up[c][1][1] = "REQUEST_EVENT"
      /\ UNCHANGED <<queue, device, written>>
  BY DEF HandleRequestEvent, Handling, Receives
<1>2. Typed /\ SlotInv(s, c)
  BY OwnerFacts
<1>3. status[s] = "SETUP_REQUIRED" /\ SentSetup(c) /\ up[c] \in Seq(Messages)
  BY <1>1, <1>2, FirstType DEF SlotInv
<1>4. PICK code : code = up[c][1][2]
  OBVIOUS
<1>5. CASE code \notin InRange /\ Drop(s, <<>>) /\ UNCHANGED <<status, requested>>
  <2>1. /\ status' \in [Slots -> Statuses] /\ requested' \in [Slots -> SUBSET AnyCode]
        /\ device' \in [Slots -> (SUBSET AnyCode) \cup {NULL}]
        /\ \A t \in Slots \ {s} : SameSlot(t)
    BY <1>1, <1>2, <1>5 DEF Typed, ServerTyped, SameSlot
  <2>. QED BY <1>1, <1>5, <2>1, NoReply, DroppedInv
<1>6. CASE /\ code \in InRange /\ Consumed(s)
           /\ requested' = [requested EXCEPT ![s] = @ \cup ({code} \cap Whitelist)]
  <2>1. code \in AnyCode
    <3>1. PICK k, n \in Nat : SetupPart(c, up[c], k, n)
      BY <1>3 DEF SentSetup
    <3>2. up[c][1] = SetupMessages(c)[k + 1] /\ k + 1 \in 1..Len(SetupMessages(c))
      BY <1>1, <1>3, <3>1, SetupTail
    <3>. QED BY <1>1, <1>4, <3>2, SetupFacts
  <2>2. /\ requested' \in [Slots -> SUBSET AnyCode] /\ requested[s] \subseteq requested'[s]
        /\ \A t \in Slots \ {s} : requested'[t] = requested[t]
        /\ code \in Whitelist => code \in requested'[s]
    BY <1>2, <1>6, <2>1 DEF Typed, ServerTyped
  <2>3. up[c][1][1] \in SetupType \ {"SETUP_END"}
    BY <1>1 DEF SetupType
  <2>4. Consumed(s) /\ up[c][1][2] \in InRange
        /\ (up[c][1][2] \in Whitelist => up[c][1][2] \in requested'[s])
    BY <1>4, <1>6, <2>2
  <2>. QED BY <1>1, <2>2, <2>3, <2>4, DescriptionInv
<1>. QED BY <1>3, <1>4, <1>5, <1>6 DEF HandleRequestEvent

\* With all but the end heard, every code that is wanted has been requested.
LEMMA HeardEnough ==
    ASSUME NEW c \in Client, NEW s, NEW k \in Nat, Heard(c, s, k),
           k + 1 = Len(SetupMessages(c))
    PROVE  Enough(c, Enabled(s))
<1>1. ASSUME NEW code \in ToSet(Codes[c]) \ Skipped
      PROVE  code \in InRange /\ (code \in Whitelist => code \in requested[s])
  <2>1. PICK i \in 1..Len(SetupMessages(c)) : IsRequest(SetupMessages(c)[i], code)
    BY SetupFacts
  <2>2. SetupMessages(c)[i][1] = "REQUEST_EVENT" /\ SetupMessages(c)[i][2] = code
    BY <2>1 DEF IsRequest
  <2>3. i # Len(SetupMessages(c))
    BY <2>2, SetupFacts
  <2>4. i \in 1..k
    BY <2>1, <2>3
  <2>. QED BY <2>2, <2>4 DEF Heard
<1>. QED BY <1>1 DEF Enough, Wanted, Enabled

\* SETUP_END comes last, and alone.
LEMMA EndLast ==
    ASSUME NEW c \in Client, NEW q \in Seq(Messages), q # <<>>, q[1][1] = "SETUP_END",
           NEW k, NEW n, SetupPart(c, q, k, n)
    PROVE  Tail(q) = <<>> /\ k + 1 = Len(SetupMessages(c)) /\ n = Len(SetupMessages(c)) /\ k \in Nat
<1>1. /\ k \in Nat /\ k + 1 \in 1..Len(SetupMessages(c))
      /\ q[1] = SetupMessages(c)[k + 1] /\ k + 1 <= n /\ n \in 0..Len(SetupMessages(c))
      /\ Tail(q) = <<>> <=> k + 1 = n
  BY SetupTail
<1>2. k + 1 = Len(SetupMessages(c))
  BY <1>1, SetupFacts
<1>3. k \in Nat /\ k + 1 <= n /\ n \in 0..Len(SetupMessages(c)) /\ k + 1 = Len(SetupMessages(c))
  BY <1>1, <1>2, Zenon
<1>4. n = k + 1
  BY <1>3
<1>. QED BY <1>1, <1>2, <1>4

LEMMA HandleSetupEndInv ==
    ASSUME IInv, NEW s \in Slots, NEW c \in Client, fd[s] = c, HandleSetupEnd(s),
           UNCHANGED <<program, left>>
    PROVE  IInv'
<1>1. up[c] # <<>> /\ up[c][1][1] = "SETUP_END" /\ UNCHANGED <<queue, requested, written>>
  BY DEF HandleSetupEnd, Handling, Receives
<1>2. Typed /\ ClientInv(c) /\ SlotInv(s, c)
  BY OwnerFacts
<1>3. status[s] = "SETUP_REQUIRED" /\ SentSetup(c) /\ up[c] \in Seq(Messages)
  BY <1>1, <1>2, FirstType DEF SlotInv
<1>4. PICK k, n \in Nat : SetupPart(c, up[c], k, n)
  BY <1>3 DEF SentSetup
<1>5. Tail(up[c]) = <<>>
  BY <1>1, <1>3, <1>4, EndLast
<1>6. requested' \in [Slots -> SUBSET AnyCode] /\ left' = left
  BY <1>1, <1>2 DEF Typed, ServerTyped
<1>7. CASE Drop(s, <<>>) /\ UNCHANGED <<status, device>>
  <2>1. /\ status' \in [Slots -> Statuses]
        /\ device' \in [Slots -> (SUBSET AnyCode) \cup {NULL}]
        /\ \A t \in Slots \ {s} : SameSlot(t)
    BY <1>1, <1>2, <1>7 DEF Typed, ServerTyped, SameSlot
  <2>. QED BY <1>1, <1>6, <1>7, <2>1, NoReply, DroppedInv
<1>8. PICK reply \in Answers : reply = <<<<"SUCCESS">>, <<"slot", s>>>>
  BY DEF Answers
<1>9. CASE /\ device' = [device EXCEPT ![s] = Enabled(s)]
           /\ Announce(s, "SUCCESS", reply)
  <2>1. /\ status' = [status EXCEPT ![s] = "SUCCESS"] /\ status'[s] = "SUCCESS"
        /\ status' \in [Slots -> Statuses]
        /\ device' \in [Slots -> (SUBSET AnyCode) \cup {NULL}]
        /\ device'[s] = Enabled(s) /\ Enabled(s) \in SUBSET AnyCode
        /\ \A t \in Slots \ {s} : SameSlot(t)
    <3>1. Enabled(s) \in SUBSET AnyCode
      BY <1>2 DEF Typed, ServerTyped, Enabled
    <3>. QED BY <1>1, <1>2, <1>9, <3>1 DEF Announce, Typed, ServerTyped, SameSlot, Statuses
  <2>2. CASE Drop(s, <<>>)
    BY <1>1, <1>6, <2>1, <2>2, NoReply, DroppedInv
  <2>3. CASE Takes(c, reply) /\ fd' = fd
    <3>1. /\ SameProgram(c) /\ Silent(c) /\ sock'[c] = sock[c] /\ gone' = gone /\ up'[c] = <<>>
          /\ sock[c] = "open" => down'[c] = reply
      BY <1>1, <1>5, <2>3, TakesWire
    <3>2. ServerTyped'
      BY <1>1, <1>2, <1>6, <2>1, <2>3 DEF Typed, ServerTyped
    <3>3. EventInv(c)'
      BY <1>1, <1>2, <3>1 DEF ClientInv, EventInv, SameProgram, Active
    <3>4. Fits(s, c)'
      BY <3>1 DEF Fits
    <3>5. QuitUnderWay(c)'
      <4>1. c \notin left \ gone
        BY <1>1, <1>2, <1>5, NotQuitting DEF SlotInv
      <4>. QED BY <3>1, <4>1 DEF QuitUnderWay
    <3>6. ASSUME Active(c) PROVE Agrees(s, c)'
      <4>1. SetsUp(s, c) \/ AwaitsResult(s, c)
        BY <1>1, <1>2, <1>3, <3>6 DEF SlotInv, Agrees, AwaitsAnswer, OwesPassword, AwaitsVerdict,
                                      HasResult, Streams
      <4>2. CASE SetsUp(s, c)
        <5>1. PICK j \in Nat : SetupPart(c, up[c], j, next[c] - 1)
          BY <4>2 DEF SetsUp, Hears
        <5>2. next[c] - 1 = Len(SetupMessages(c))
          BY <1>1, <1>3, <5>1, EndLast
        <5>3. next[c] \in 1..Len(SetupMessages(c)) /\ Len(SetupMessages(c)) \in Nat
          BY <1>2, SetupFacts, Zenon DEF Typed, ProgramTyped
        <5>. QED BY <5>2, <5>3
      <4>3. CASE AwaitsResult(s, c)
        <5>1. PICK j \in Nat : SetupPart(c, up[c], j, Len(SetupMessages(c))) /\ Heard(c, s, j)
          BY <4>3 DEF AwaitsResult, Hears
        <5>2. j + 1 = Len(SetupMessages(c))
          BY <1>1, <1>3, <5>1, EndLast
        <5>3. Enough(c, Enabled(s)) /\ Enabled(s) # NULL
          BY <2>1, <5>1, <5>2, HeardEnough, Constants
        <5>4. down'[c] = <<<<"SUCCESS">>, <<"slot", s>>>> /\ buf'[c] = <<>>
          BY <1>8, <3>1, <3>6 DEF Active, Silent, SameProgram
        <5>5. HasResult(s, c)'
          BY <2>1, <3>1, <4>3, <5>3, <5>4 DEF HasResult, AwaitsResult, Two, SameProgram, Enough
        <5>. QED BY <5>5 DEF Agrees
      <4>. QED BY <4>1, <4>2, <4>3
    <3>7. /\ UNCHANGED <<program, left, queue, fd>>
          /\ \A d \in Client \ {c} : written'[d] = written[d]
      BY <1>1, <2>3
    <3>. QED BY <1>1, <1>5, <2>1, <2>3, <3>2, <3>3, <3>4, <3>5, <3>6, <3>7, ServeInv
  <2>. QED BY <1>9, <2>2, <2>3 DEF Announce
<1>. QED BY <1>3, <1>7, <1>8, <1>9 DEF HandleSetupEnd

LEMMA HandleDataInv ==
    ASSUME IInv, NEW s \in Slots, NEW c \in Client, fd[s] = c, HandleData(s),
           UNCHANGED <<program, left>>
    PROVE  IInv'
<1>1. up[c] # <<>> /\ up[c][1][1] = "DATA" /\ UNCHANGED <<queue, requested, device>>
  BY DEF HandleData, Handling, Receives
<1>2. Typed /\ ServerTyped /\ ClientInv(c) /\ SlotInv(s, c)
  BY OwnerFacts DEF Typed
<1>3. /\ status[s] = "SUCCESS" /\ Events(up[c], Len(written[c]), reads[c])
      /\ up[c] \in Seq(Messages)
  BY <1>1, <1>2, FirstType DEF SlotInv, SetupType
<1>4. /\ requested' \in [Slots -> SUBSET AnyCode]
      /\ device' \in [Slots -> (SUBSET AnyCode) \cup {NULL}]
  BY <1>1, <1>2 DEF ServerTyped
<1>5. CASE Drop(s, <<>>) /\ UNCHANGED <<status, written>>
  <2>1. status' \in [Slots -> Statuses] /\ \A t \in Slots \ {s} : SameSlot(t)
    BY <1>1, <1>2, <1>5 DEF ServerTyped, SameSlot
  <2>. QED BY <1>1, <1>4, <1>5, <2>1, NoReply, DroppedInv
<1>6. CASE Consumed(s) /\ Written(c, up[c][1][2])
  <2>1. Takes(c, <<>>) /\ UNCHANGED <<fd, status>>
    BY <1>6 DEF Consumed
  <2>2. /\ SameProgram(c) /\ Silent(c) /\ sock'[c] = sock[c] /\ gone' = gone
        /\ up'[c] = Tail(up[c]) /\ down'[c] = <<>>
    <3>1. sock[c] = "open" \/ sock[c] # "open"
      OBVIOUS
    <3>. QED BY <1>1, <2>1, <3>1, NoReply, TakesWire
  <2>3. PICK w, r, p : w = Len(written[c]) /\ r = reads[c] /\ p = written[c]
    OBVIOUS
  <2>4. w \in Nat /\ r \in 0..MaxEvents /\ r \in Nat /\ p \in Seq(1..MaxEvents) /\ Len(p) = w
    <3>1. written[c] \in Seq(1..MaxEvents) /\ reads[c] \in 0..MaxEvents
      BY <1>2 DEF Typed, ServerTyped, ProgramTyped
    <3>. QED BY <2>3, <3>1, LenProperties
  <2>5. /\ Events(Tail(up[c]), w + 1, r) /\ up[c][1][2] = w + 1 /\ w + 1 <= r
        /\ up[c][Len(up[c])] = <<"QUIT">> => /\ Tail(up[c]) # <<>>
                                           /\ Tail(up[c])[Len(Tail(up[c]))] = <<"QUIT">>
    BY <1>1, <1>3, <2>3, <2>4, EventsTail
  <2>6. w + 1 \in 1..MaxEvents
    BY <2>4, <2>5, Constants
  <2>7. written' = [written EXCEPT ![c] = Append(p, w + 1)]
    BY <1>6, <2>3, <2>5 DEF Written
  <2>8. PICK a : a = Append(p, w + 1)
    OBVIOUS
  <2>9. /\ a \in Seq(1..MaxEvents) /\ Len(a) = w + 1 /\ DOMAIN a = 1..(w + 1)
        /\ \A i \in 1..w : a[i] = p[i]
        /\ a[w + 1] = w + 1
    <3>1. /\ a \in Seq(1..MaxEvents) /\ Len(a) = Len(p) + 1
          /\ \A i \in 1..Len(p) : a[i] = p[i]
          /\ a[Len(p) + 1] = w + 1
      BY <2>4, <2>6, <2>8, AppendProperties
    <3>. QED BY <2>4, <3>1, LenProperties
  <2>10. /\ written'[c] = a /\ (\A d \in Client \ {c} : written'[d] = written[d])
         /\ written' \in [Client -> Seq(1..MaxEvents)]
    BY <1>2, <2>7, <2>8, <2>9 DEF ServerTyped
  <2>11. ServerTyped' /\ \A t \in Slots \ {s} : SameSlot(t)
    BY <1>1, <1>2, <1>4, <2>1, <2>10 DEF ServerTyped, SameSlot
  <2>12. EventInv(c)'
    <3>1. \A i \in DOMAIN p : p[i] = i
      BY <1>2, <2>3 DEF ClientInv, EventInv
    <3>2. DOMAIN p = 1..w
      BY <2>4, LenProperties
    <3>3. \A i \in 1..(w + 1) : i \in 1..w \/ i = w + 1
      BY <2>4
    <3>4. \A i \in DOMAIN a : a[i] = i
      BY <2>9, <3>1, <3>2, <3>3, Zenon
    <3>5. Len(a) <= reads[c]
      BY <2>3, <2>5, <2>9
    <3>. QED BY <1>2, <2>2, <2>10, <3>4, <3>5 DEF ClientInv, EventInv, SameProgram, Active
  <2>13. Fits(s, c)'
    BY <1>3, <2>1, <2>2, <2>3, <2>5, <2>9, <2>10 DEF Fits, SameProgram
  <2>14. QuitUnderWay(c)'
    BY <1>1, <1>2, <2>2, <2>5 DEF SlotInv, QuitUnderWay
  <2>15. ASSUME Active(c) PROVE Agrees(s, c)'
    <3>1. Streams(s, c)
      BY <1>1, <1>2, <1>3, <2>15 DEF SlotInv, Agrees, AwaitsAnswer, OwesPassword, AwaitsVerdict,
                                     SetsUp, AwaitsResult, HasResult
    <3>2. UnderWay(Tail(up[c]), w + 1, r)
      BY <1>1, <1>3, <2>3, <2>4, <3>1, UnderWayTail DEF Streams
    <3>3. Streams(s, c)'
      BY <1>1, <2>1, <2>2, <2>3, <2>9, <2>10, <3>1, <3>2 DEF Streams, Silent, SameProgram
    <3>. QED BY <3>3 DEF Agrees
  <2>16. UNCHANGED <<program, left, queue, fd>> /\ status'[s] # "RESERVED_UNCONN"
    BY <1>1, <1>3, <2>1
  <2>. QED BY <1>1, <2>1, <2>10, <2>11, <2>12, <2>13, <2>14, <2>15, <2>16, NoReply, ServeInv
<1>. QED BY <1>3, <1>5, <1>6 DEF HandleData

LEMMA HandleQuitInv ==
    ASSUME IInv, NEW s \in Slots, NEW c \in Client, fd[s] = c, NEW destroyed \in BOOLEAN,
           HandleQuit(s, destroyed), UNCHANGED <<program, left>>
    PROVE  IInv'
<1>1. /\ up[c] # <<>> /\ UNCHANGED <<queue, written>> /\ Drop(s, <<>>)
      /\ status' = [status EXCEPT ![s] = "RESERVED_UNCONN"]
      /\ requested' = [requested EXCEPT ![s] = {}]
      /\ device' = device \/ device' = [device EXCEPT ![s] = NULL]
  BY DEF HandleQuit, Handling, Receives
<1>2. ServerTyped
  BY DEF IInv, Typed
<1>3. /\ status' \in [Slots -> Statuses] /\ requested' \in [Slots -> SUBSET AnyCode]
      /\ device' \in [Slots -> (SUBSET AnyCode) \cup {NULL}]
      /\ \A t \in Slots \ {s} : SameSlot(t)
  BY <1>1, <1>2 DEF ServerTyped, SameSlot, Statuses
<1>. QED BY <1>1, <1>3, NoReply, DroppedInv

LEMMA HangUpInv ==
    ASSUME IInv, NEW s \in Slots, NEW c \in Client, fd[s] = c, HangUp(s),
           UNCHANGED <<program, left>>
    PROVE  IInv'
<1>1. /\ up[c] = <<>> /\ fd' = [fd EXCEPT ![s] = NULL] /\ gone' = gone \cup {c}
      /\ status' = [status EXCEPT ![s] = "RESERVED_UNCONN"]
      /\ requested' = [requested EXCEPT ![s] = {}]
      /\ UNCHANGED <<sock, broken, up, down, queue, device, written>>
  BY DEF HangUp
<1>2. ServerTyped /\ Placed(c)
  BY OwnerFacts DEF Typed
<1>3. /\ status' \in [Slots -> Statuses] /\ requested' \in [Slots -> SUBSET AnyCode]
      /\ device' \in [Slots -> (SUBSET AnyCode) \cup {NULL}]
      /\ \A t \in Slots \ {s} : SameSlot(t)
  BY <1>1, <1>2 DEF ServerTyped, SameSlot, Statuses
<1>. QED BY <1>1, <1>2, <1>3, HangUpWire, DropSlotInv

LEMMA ServerStepInv ==
    ASSUME IInv, NEW c \in Client, ServerStep(c)
    PROVE  IInv'
<1>1. UNCHANGED <<program, left>> /\ Serves(c)
  BY DEF ServerStep
<1>2. CASE ClientHello(c) \/ HangUpWaiting(c)
  BY <1>1, <1>2, ClientHelloInv, HangUpWaitingInv
<1>3. ASSUME NEW s \in Slots, fd[s] = c, ServesSlot(s)
      PROVE  IInv'
  BY <1>1, <1>3, HandlePasswordInv, HandleDescriptionInv, HandleRequestEventInv,
     HandleSetupEndInv, HandleDataInv, HandleQuitInv, HangUpInv DEF ServesSlot
<1>. QED BY <1>1, <1>2, <1>3, Zenon DEF Serves

-----------------------------------------------------------------------------
(* The server process and the network.                                     *)

\* What the end of the server's process leaves.
LEMMA ServerEndsInv ==
    ASSUME IInv, ServerEnds, UNCHANGED <<program, left>>
    PROVE  IInv'
<1>1. /\ queue' = {} /\ gone' = gone \cup Held
      /\ up' = [c \in Client |-> IF c \in Held THEN <<>> ELSE up[c]]
      /\ fd' = [s \in Slots |-> NULL] /\ device' = [s \in Slots |-> NULL]
      /\ status' = [s \in Slots |-> "RESERVED_UNCONN"]
      /\ requested' = [s \in Slots |-> {}]
      /\ UNCHANGED <<sock, broken, written>>
  BY DEF ServerEnds
<1>2. ProgramTyped /\ WireTyped /\ ServerTyped /\ \A c \in Client : ClientInv(c)
  BY DEF IInv, Typed
<1>3. ASSUME NEW c \in Client PROVE c \in Held <=> Placed(c)
  BY Constants DEF Held, Placed
<1>4. PICK kept \in [Client -> UNION {0..Len(down[c]) : c \in Client}] :
          /\ \A c \in Client : \/ kept[c] = Len(down[c])
                               \/ c \in Held /\ up[c] # <<>> /\ kept[c] < Len(down[c])
          /\ down' = [c \in Client |-> SubSeq(down[c], 1, kept[c])]
  BY DEF ServerEnds
<1>5. ASSUME NEW c \in Client PROVE down'[c] = down[c]
  <2>1. down[c] \in Seq(AnswerByte) /\ Len(down[c]) \in Nat
    BY <1>2, LenProperties DEF WireTyped
  <2>2. kept[c] \in Nat
    <3>1. \A d \in Client : 0..Len(down[d]) \subseteq Nat
      OBVIOUS
    <3>2. UNION {0..Len(down[d]) : d \in Client} \subseteq Nat
      BY <3>1
    <3>. QED BY <3>2
  <2>3. kept[c] = Len(down[c])
    <3>1. ASSUME up[c] # <<>>, kept[c] < Len(down[c]) PROVE FALSE
      <4>1. down[c] = <<>>
        BY <1>2, <3>1 DEF ClientInv, AnswerInv, Silent
      <4>2. Len(down[c]) = 0
        BY <4>1
      <4>. QED BY <2>2, <3>1, <4>2
    <3>. QED BY <1>4, <3>1
  <2>4. down'[c] = SubSeq(down[c], 1, Len(down[c]))
    BY <1>4, <2>3
  <2>. QED BY <2>1, <2>4, SubSeqFull
<1>6. Typed'
  <2>1. ProgramTyped'
    BY <1>2 DEF program, ProgramTyped
  <2>2. WireTyped'
    <3>1. \A c \in Client : up'[c] \in Seq(Messages) /\ down'[c] \in Seq(AnswerByte)
      BY <1>1, <1>2, <1>5, EmptySeq DEF WireTyped
    <3>2. gone' \subseteq Client
      BY <1>1, <1>2, Constants DEF WireTyped, ServerTyped, Held
    <3>3. up' \in [Client -> Seq(Messages)] /\ down' \in [Client -> Seq(AnswerByte)]
      <4>1. up' = [c \in Client |-> up'[c]] /\ down' = [c \in Client |-> down'[c]]
        BY <1>1, <1>4
      <4>. HIDE DEF Messages, AnswerByte
      <4>. QED BY <3>1, <4>1
    <3>. QED BY <1>1, <1>2, <3>2, <3>3 DEF WireTyped
  <2>3. ServerTyped'
    BY <1>1, <1>2 DEF ServerTyped, Statuses
  <2>. QED BY <2>1, <2>2, <2>3 DEF Typed
<1>7. Owners'
  BY <1>1 DEF Owners
<1>8. ASSUME NEW c \in Client PROVE ClientInv(c)'
  <2>1. ~Placed(c)' /\ SameProgram(c)
    BY <1>1, Constants DEF Placed, program, SameProgram
  <2>2. sock'[c] = sock[c] /\ broken'[c] = broken[c] /\ down'[c] = down[c] /\ left' = left
    BY <1>1, <1>5
  <2>3. ~Active(c)'
    <3>1. Active(c) => Placed(c)
      BY <1>2 DEF ClientInv, SockInv
    <3>. QED BY <1>1, <1>3, <2>2, <3>1 DEF Active
  <2>4. up'[c] # <<>> => up[c] # <<>>
    BY <1>1
  <2>5. sock[c] = "none" => up'[c] = <<>> /\ c \notin gone'
    BY <1>1, <1>2, <1>3 DEF ClientInv, SockInv
  <2>6. SockInv(c)'
    BY <1>2, <2>1, <2>2, <2>3, <2>5 DEF ClientInv, SockInv, SameProgram
  <2>7. AnswerInv(c)'
    BY <1>2, <2>1, <2>2, <2>4 DEF ClientInv, AnswerInv, SameProgram, Silent, One, Two
  <2>8. EventInv(c)'
    BY <1>1, <1>2, <2>1, <2>3 DEF ClientInv, EventInv, SameProgram
  <2>9. QueueInv(c)'
    BY <1>1 DEF QueueInv
  <2>. QED BY <2>6, <2>7, <2>8, <2>9 DEF ClientInv
<1>9. \A s \in Slots, c \in Client : fd'[s] # c
  BY <1>1, Constants
<1>. QED BY <1>6, <1>7, <1>8, <1>9 DEF IInv

\* A step that changes nothing the invariant speaks of.
LEMMA SameInv ==
    ASSUME IInv, UNCHANGED <<clientVars, queue, fd, status, requested, device, written>>
    PROVE  IInv'
<1>1. Typed' /\ Owners'
  BY DEF IInv, Typed, ProgramTyped, WireTyped, ServerTyped, Owners, clientVars, program, wire
<1>2. \A d \in Client : Same(d) /\ SamePlace(d)
  BY DEF Same, SameProgram, SameWire, SamePlace, clientVars, program, wire
<1>3. \A s \in Slots : SameSlot(s)
  BY DEF SameSlot
<1>4. \A d \in Client : ClientInv(d)'
  BY <1>2, SameClientInv DEF IInv
<1>5. \A s \in Slots, d \in Client : fd[s] = d => SlotInv(s, d)'
  BY <1>2, <1>3, SameSlotInv DEF IInv
<1>. QED BY <1>1, <1>4, <1>5 DEF IInv

\* What a beginning of a short sequence may be.
CutForms(q, p) ==
    /\ q = <<>> => p = <<>>
    /\ \A x : q = <<x>> => p = <<>> \/ p = q
    /\ \A x, y : q = <<x, y>> => p = <<>> \/ p = <<x>> \/ p = q

LEMMA CutShape ==
    ASSUME NEW T, NEW q \in Seq(T), NEW p \in Seq(T), IsCut(q, p)
    PROVE  CutForms(q, p)
<1>. HIDE DEF IsCut
<1>. QED BY CutShort DEF CutForms

LEMMA CutSilent ==
    ASSUME NEW c, CutForms(down[c], down'[c]), buf'[c] = buf[c]
    PROVE  /\ Silent(c) => Silent(c)'
           /\ \A x : One(c, x) => Silent(c)' \/ One(c, x)'
           /\ \A x, y : Two(c, x, y) => Silent(c)' \/ One(c, x)' \/ Two(c, x, y)'
<1>1. Silent(c) => Silent(c)'
  BY DEF Silent, CutForms
<1>2. ASSUME NEW x, One(c, x) PROVE Silent(c)' \/ One(c, x)'
  <2>1. CASE buf[c] = <<>> /\ down[c] = <<x>>
    <3>1. down'[c] = <<>> \/ down'[c] = down[c]
      BY <2>1 DEF CutForms
    <3>. QED BY <2>1, <3>1 DEF Silent, One
  <2>2. CASE buf[c] = <<x>> /\ down[c] = <<>>
    BY <2>2 DEF One, CutForms
  <2>. QED BY <1>2, <2>1, <2>2 DEF One
<1>3. ASSUME NEW x, NEW y, Two(c, x, y) PROVE Silent(c)' \/ One(c, x)' \/ Two(c, x, y)'
  <2>1. CASE buf[c] = <<>> /\ down[c] = <<x, y>>
    <3>1. down'[c] = <<>> \/ down'[c] = <<x>> \/ down'[c] = down[c]
      BY <2>1 DEF CutForms
    <3>. QED BY <2>1, <3>1 DEF Silent, One, Two
  <2>2. CASE buf[c] = <<x>> /\ down[c] = <<y>>
    <3>1. down'[c] = <<>> \/ down'[c] = down[c]
      BY <2>2 DEF CutForms
    <3>. QED BY <2>2, <3>1 DEF One, Two
  <2>3. CASE buf[c] = <<x, y>> /\ down[c] = <<>>
    BY <2>3 DEF Two, CutForms
  <2>. QED BY <1>3, <2>1, <2>2, <2>3 DEF Two
<1>. QED BY <1>1, <1>2, <1>3

LEMMA NetworkFailsInv ==
    ASSUME IInv, NEW c \in Client, NetworkFails(c), UNCHANGED <<program, left>>
    PROVE  IInv'
<1>1. /\ sock[c] = "open" /\ gone' = gone \cup {c} /\ left' = left
      /\ UNCHANGED <<sock, broken>> /\ UNCHANGED serverVars
  BY DEF NetworkFails
<1>2. ProgramTyped /\ WireTyped /\ Typed /\ ClientInv(c)
  BY DEF IInv, Typed
<1>3. PICK p \in Prefixes(up[c]), q \in Prefixes(down[c]) :
          up' = [up EXCEPT ![c] = p] /\ down' = [down EXCEPT ![c] = q]
  BY DEF NetworkFails
<1>4. up[c] \in Seq(Messages) /\ down[c] \in Seq(AnswerByte)
  BY <1>2 DEF WireTyped
<1>5. p \in Seq(Messages) /\ IsCut(up[c], p) /\ q \in Seq(AnswerByte) /\ IsCut(down[c], q)
  BY <1>3, <1>4, PrefixCut
<1>6. CutForms(up[c], p) /\ CutForms(down[c], q)
  BY <1>4, <1>5, CutShape, Zenon
<1>7. \A x : up[c] = <<>> \/ up[c] = <<x>> => p = <<>> \/ p = up[c]
  BY <1>6 DEF CutForms
<1>8. ProgramTyped' /\ (\A d \in Client : SameProgram(d)) /\ reads'[c] = reads[c]
  BY <1>2 DEF program, ProgramTyped, SameProgram
<1>. HIDE DEF Messages, AnswerByte
<1>9. WireTyped' /\ \A d \in Client \ {c} : SameWire(d)
  BY <1>1, <1>2, <1>3, <1>5 DEF WireTyped, SameWire
<1>10. /\ up'[c] = p /\ down'[c] = q /\ sock'[c] = sock[c] /\ broken'[c] = broken[c]
      /\ c \in gone'
  BY <1>1, <1>2, <1>3 DEF WireTyped
<1>11. ~Active(c)' /\ (Placed(c)' <=> Placed(c)) /\ buf'[c] = buf[c]
  BY <1>1, <1>8, <1>10 DEF Active, Placed, serverVars, SameProgram
<1>12. SockInv(c)'
  <2>1. sock'[c] = "open"
    BY <1>1, <1>10
  <2>2. c \notin left
    BY <1>1, <1>2 DEF ClientInv, SockInv
  <2>. QED BY <1>1, <1>2, <1>8, <1>10, <1>11, <2>1, <2>2 DEF ClientInv, SockInv, SameProgram
<1>13. AnswerInv(c)'
  <2>1. /\ up[c] # <<>> => Silent(c)
        /\ \/ Silent(c)
           \/ \E t \in Replies : One(c, <<t>>)
           \/ \E s \in Slots : Two(c, <<"SUCCESS">>, <<"slot", s>>)
    BY <1>2 DEF ClientInv, AnswerInv
  <2>2. up'[c] # <<>> => up[c] # <<>>
    BY <1>6, <1>10 DEF CutForms
  <2>3. /\ Silent(c) => Silent(c)'
        /\ \A x : One(c, x) => Silent(c)' \/ One(c, x)'
        /\ \A x, y : Two(c, x, y) => Silent(c)' \/ One(c, x)' \/ Two(c, x, y)'
    BY <1>6, <1>10, <1>11, CutSilent
  <2>4. "SUCCESS" \in Replies
    BY DEF Replies
  <2>. QED BY <2>1, <2>2, <2>3, <2>4, Zenon DEF AnswerInv
<1>14. EventInv(c)'
  BY <1>1, <1>2, <1>8, <1>11 DEF ClientInv, EventInv, serverVars
<1>15. QueueInv(c)'
  <2>1. ASSUME c \in queue PROVE QueueInv(c)'
    <3>1. Silent(c) /\ (up[c] = <<>> \/ \E h \in Hellos : up[c] = <<h>>)
      BY <1>2, <2>1 DEF ClientInv, QueueInv
    <3>2. Silent(c)'
      BY <1>6, <1>10, <1>11, <3>1, CutSilent
    <3>3. p = <<>> \/ p = up[c]
      BY <1>7, <3>1
    <3>. QED BY <1>10, <1>11, <3>1, <3>2, <3>3 DEF QueueInv
  <2>. QED BY <1>1, <2>1 DEF QueueInv, serverVars
<1>16. ASSUME NEW s \in Slots, fd[s] = c PROVE SlotInv(s, c)'
  <2>1. Fits(s, c)
    BY <1>16 DEF IInv, SlotInv
  <2>2. reads'[c] \in Nat /\ reads[c] <= reads'[c]
    BY <1>2, <1>8, ReadsSame
  <2>3. status'[s] = status[s] /\ written'[c] = written[c]
    BY <1>1 DEF serverVars
  <2>4. Fits(s, c)'
    BY <1>2, <1>5, <1>10, <2>1, <2>2, <2>3, CutFits
  <2>5. QuitUnderWay(c)'
    BY <1>10 DEF QuitUnderWay
  <2>. QED BY <1>11, <2>4, <2>5 DEF SlotInv
<1>17. ClientInv(c)'
  BY <1>12, <1>13, <1>14, <1>15 DEF ClientInv
<1>. QED BY <1>1, <1>8, <1>9, <1>16, <1>17, ProgramStepInv

LEMMA NextInv == IInv /\ [Next]_vars => IInv'
<1>. SUFFICES ASSUME IInv, [Next]_vars PROVE IInv'
  OBVIOUS
<1>1. CASE UNCHANGED vars
  BY <1>1, SameInv DEF vars, serverVars
<1>2. ASSUME NEW c \in Client, ClientStep(c) PROVE IInv'
  BY <1>2, ClientStepInv
<1>3. ASSUME NEW c \in Client, ServerStep(c) PROVE IInv'
  BY <1>3, ServerStepInv
<1>4. ASSUME NEW c \in Client, ConnectStep(c) PROVE IInv'
  BY <1>4, ConnectsInv
<1>5. ASSUME NEW c \in Client, Surroundings(c) /\ UNCHANGED serverVars PROVE IInv'
  BY <1>5, ClientStepInv
<1>6. ASSUME NEW c \in Client, TurnAway(c) \/ NetworkFails(c), UNCHANGED <<program, left>>
      PROVE  IInv'
  BY <1>6, TurnAwayInv, NetworkFailsInv
<1>7. CASE ServerEnds /\ UNCHANGED <<program, left>>
  BY <1>7, ServerEndsInv
<1>8. CASE ServerStarts /\ UNCHANGED <<program, left>>
  BY <1>8, SameInv DEF ServerStarts, clientVars
<1>. QED BY <1>1, <1>2, <1>3, <1>4, <1>5, <1>6, <1>7, <1>8 DEF Next, Surrounds

\* The two ends of every connection stay in step, and the server takes from its
\* clients what it expects of them (init_connect() and run() against
\* client_data()), whatever breaks, ends or starts again.
THEOREM Invariant == Spec => []IInv
BY InitInv, NextInv, PTL DEF Spec

-----------------------------------------------------------------------------
(* What follows from the invariant.                                        *)

\* A client that QUIT could not rid of its device is gone.
Lost == undestroyed \subseteq gone

LEMMA NextLost ==
    ASSUME IInv, Lost, [Next]_vars
    PROVE  Lost'
<1>1. gone \subseteq gone'
  <2>1. ASSUME NEW c \in Client, Program(c) \/ Surroundings(c) PROVE gone' = gone
    BY <2>1 DEF Program, Handshake, SendHello, SendPassword, SendSetup, Recv, RecvFails,
        PasswordRequired, SetupRequired, Success, Refused, Proceed, ConnectFails, Grab,
        LoopTest, Retry, Leave, Surroundings, Input, ReadEvent, ReadFails, Reopen, Interrupt,
        Kill, Sends, Closes, wire
  <2>2. ASSUME NEW c \in Client, Serves(c) PROVE gone \subseteq gone'
    BY <2>2 DEF Serves, ClientHello, RefuseHello, AcceptHello, HangUpWaiting, ServesSlot,
        HandlePassword, HandleDescription, HandleRequestEvent, HandleSetupEnd, HandleData,
        HandleQuit, HangUp, Announce, Consumed, Drop, Takes, TakesAndCloses
  <2>3. ASSUME NEW c \in Client, Connects(c) \/ TurnAway(c) \/ NetworkFails(c)
        PROVE  gone \subseteq gone'
    BY <2>3 DEF Connects, Connect, CannotConnect, TurnAway, NetworkFails, wire
  <2>4. ASSUME ServerEnds \/ ServerStarts \/ UNCHANGED vars PROVE gone \subseteq gone'
    BY <2>4 DEF ServerEnds, ServerStarts, vars, clientVars, wire
  <2>. QED BY <2>1, <2>2, <2>3, <2>4 DEF Next, Surrounds, ClientStep, ConnectStep, ServerStep
<1>2. \/ undestroyed' = undestroyed
      \/ \E s \in Slots, destroyed \in BOOLEAN : HandleQuit(s, destroyed)
  BY DEF Next, Surrounds, ClientStep, ConnectStep, ServerStep, Serves, ClientHello,
         HangUpWaiting, ServesSlot, HandlePassword, HandleDescription, HandleRequestEvent,
         HandleSetupEnd, HandleData, HangUp, TurnAway, NetworkFails, ServerEnds, ServerStarts,
         serverVars, vars
<1>3. ASSUME NEW s \in Slots, NEW destroyed \in BOOLEAN, HandleQuit(s, destroyed) PROVE Lost'
  BY <1>3 DEF HandleQuit, Drop, TakesAndCloses, Lost
<1>. QED BY <1>1, <1>2, <1>3 DEF Lost

LEMMA FullInvariant == Spec => [](IInv /\ Lost)
<1>1. Init => Lost
  BY DEF Init, Lost
<1>. QED BY <1>1, NextLost, InitInv, NextInv, PTL DEF Spec

LEMMA InvTypes == IInv /\ Lost => TypeOK
<1>. SUFFICES ASSUME IInv, Lost PROVE TypeOK
  OBVIOUS
<1>1. ProgramTyped /\ WireTyped /\ ServerTyped
  BY DEF IInv, Typed
<1>2. ASSUME NEW c \in Client
      PROVE  /\ slot[c] \in SlotOption \cup Slots
             /\ ToSet(up[c]) \subseteq Messages
             /\ ToSet(written[c]) \subseteq 1..reads[c]
             /\ reads[c] <= MaxEvents /\ next[c] \in DOMAIN SetupMessages(c)
             /\ tries[c] \in -1..IF reopen_attempts < 0 THEN 0 ELSE reopen_attempts
  <2>1. slot[c] \in SlotOption \cup Slots /\ tries[c] \in Tries
    BY <1>1 DEF ProgramTyped
  <2>2. ToSet(up[c]) \subseteq Messages
    <3>1. up[c] \in Seq(Messages)
      BY <1>1 DEF WireTyped
    <3>2. \A i \in DOMAIN up[c] : up[c][i] \in Messages
      BY <3>1, LenProperties, ElementOfSeq
    <3>. HIDE DEF Messages
    <3>. QED BY <3>2 DEF ToSet
  <2>3. reads[c] \in 0..MaxEvents /\ written[c] \in Seq(1..MaxEvents)
    BY <1>1 DEF ProgramTyped, ServerTyped
  <2>4. ToSet(written[c]) \subseteq 1..reads[c]
    <3>1. Len(written[c]) \in Nat /\ DOMAIN written[c] = 1..Len(written[c])
      BY <2>3, LenProperties
    <3>2. Len(written[c]) <= reads[c] /\ \A i \in DOMAIN written[c] : written[c][i] = i
      BY DEF IInv, ClientInv, EventInv
    <3>3. \A i \in DOMAIN written[c] : written[c][i] \in 1..reads[c]
      <4>1. ASSUME NEW i \in DOMAIN written[c] PROVE i \in 1..reads[c]
        <5>1. i \in 1..Len(written[c]) /\ Len(written[c]) <= reads[c]
          BY <3>1, <3>2, <4>1
        <5>. QED BY <2>3, <3>1, <5>1
      <4>. QED BY <3>2, <4>1
    <3>. QED BY <3>3 DEF ToSet
  <2>5. next[c] \in DOMAIN SetupMessages(c)
    <3>1. DOMAIN SetupMessages(c) = 1..Len(SetupMessages(c))
      BY SetupFacts, Zenon
    <3>. QED BY <1>1, <3>1 DEF ProgramTyped
  <2>6. reads[c] <= MaxEvents
    BY <2>3, Constants
  <2>. QED BY <2>1, <2>2, <2>4, <2>5, <2>6 DEF Tries
<1>3. pc \in [Client -> {"start", "hello", "password", "setup", "grab", "leave", "exited"}
                       \cup Awaiting \cup Streaming]
  BY <1>1 DEF ProgramTyped, Places
<1>4. undestroyed \subseteq Client
  BY <1>1 DEF WireTyped, Lost
<1>. QED BY <1>1, <1>2, <1>3, <1>4 DEF TypeOK, ServerTyped

\* A client that believes it is connected has the slot, the status and the
\* device, and its events are under way.
LEMMA ConnectedStreams ==
    ASSUME IInv, NEW c \in Client, Connected(c)
    PROVE  \E s \in Slots : fd[s] = c /\ Streams(s, c)
<1>1. pc[c] \in Settled \ {"leave"} /\ c \in Held /\ c \notin gone
  BY DEF Connected, Settled, Streaming
<1>2. pc[c] \notin {"start", "exited", "hello", "answer", "leave"}
  BY <1>1 DEF Settled, Streaming
<1>3. sock[c] = "open"
  BY <1>2 DEF IInv, ClientInv, SockInv
<1>4. Active(c)
  BY <1>1, <1>3 DEF Active
<1>5. PICK s \in Slots : fd[s] = c
  BY <1>2, <1>4, InSlot
<1>. QED BY <1>1, <1>4, <1>5, SettledFacts

\* Every client keeps to what the program can be in, what it has under way is
\* what it can send, and what has been written is what it has read.
THEOREM TypesHold == Spec => []TypeOK
BY FullInvariant, InvTypes, PTL

\* A client that streams owns the slot SUCCESS told it, and the server takes its
\* DATA (init_connect() against handle_setup_end() and client_hello()).
THEOREM SlotsAgreed == Spec => []SlotAgreed
<1>1. IInv => SlotAgreed
  <2>. SUFFICES ASSUME IInv, NEW c \in Client, Connected(c)
                PROVE  slot[c] \in Slots /\ fd[slot[c]] = c /\ status[slot[c]] = "SUCCESS"
    BY DEF SlotAgreed
  <2>1. PICK s \in Slots : fd[s] = c /\ Streams(s, c)
    BY ConnectedStreams
  <2>. QED BY <2>1 DEF Streams
<1>. QED BY <1>1, Invariant, PTL

\* Its device can send every code of its input device but those three filters
\* take out: setup_device() passes over EV_REP and EV_LED, handle_request_event()
\* drops what the lists forbid, enable_events() what it has no ioctl for.  Between
\* the two ends nothing else is lost, and a code out of range ends the setup.
THEOREM DevicesComplete == Spec => []DeviceComplete
<1>1. IInv => DeviceComplete
  <2>. SUFFICES ASSUME IInv, NEW c \in Client, Connected(c)
                PROVE  /\ ToSet(Codes[c]) \subseteq InRange \cup Skipped
                       /\ \E s \in Slots : fd[s] = c /\ device[s] # NULL
                              /\ (ToSet(Codes[c]) \ Skipped) \cap Whitelist \cap Known
                                    \subseteq device[s]
    BY DEF DeviceComplete
  <2>1. PICK s \in Slots : fd[s] = c /\ Streams(s, c)
    BY ConnectedStreams
  <2>. QED BY <2>1 DEF Streams, Enough, Wanted
<1>. QED BY <1>1, Invariant, PTL

\* Events reach the uinput device once, in order and without a gap, and while
\* the connection holds none is lost between run() and handle_data().
THEOREM EventsArrive == Spec => []EventsDelivered
<1>1. IInv => EventsDelivered
  <2>1. ASSUME IInv, NEW c \in Client PROVE \A i \in DOMAIN written[c] : written[c][i] = i
    BY <2>1 DEF IInv, ClientInv, EventInv
  <2>2. ASSUME IInv, NEW c \in Client, Connected(c)
        PROVE  /\ Len(written[c]) + Len(up[c]) = reads[c]
               /\ \A i \in DOMAIN up[c] : up[c][i] = <<"DATA", Len(written[c]) + i>>
    <3>1. PICK s \in Slots : fd[s] = c /\ Streams(s, c)
      BY <2>2, ConnectedStreams
    <3>. QED BY <3>1 DEF Streams, UnderWay
  <2>. QED BY <2>1, <2>2 DEF EventsDelivered
<1>. QED BY <1>1, Invariant, PTL

-----------------------------------------------------------------------------
(* The QUIT of a client.                                                   *)

\* Before a QUIT that is still under way there is nothing but DATA.
LEMMA QuitBehindData ==
    ASSUME IInv, NEW s \in Slots, NEW c \in Client, fd[s] = c, c \in left \ gone
    PROVE  up[c] # <<>> /\ up[c][1][1] \in {"DATA", "QUIT"}
<1>1. Typed /\ Fits(s, c) /\ QuitUnderWay(c)
  BY DEF IInv, SlotInv
<1>2. PICK q : q = up[c]
  OBVIOUS
<1>3. q # <<>> /\ q[Len(q)] = <<"QUIT">> /\ q \in Seq(Messages)
  BY <1>1, <1>2 DEF QuitUnderWay, Typed, WireTyped
<1>4. /\ \/ status[s] = "PASSWORD_REQUIRED" /\ SentPassword(c)
         \/ status[s] = "SETUP_REQUIRED" /\ SentSetup(c)
         \/ q[1][1] \in {"DATA", "QUIT"}
  BY <1>1, <1>2, <1>3, FirstType
<1>5. <<"QUIT">>[1] = "QUIT"
  OBVIOUS
<1>6. ~SentPassword(c)
  <2>1. ASSUME NEW p \in Password, q = <<<<"PASSWORD", p>>>> PROVE FALSE
    <3>1. q[Len(q)][1] = "PASSWORD"
      BY <2>1
    <3>. QED BY <1>3, <1>5, <3>1
  <2>. QED BY <1>2, <2>1 DEF SentPassword
<1>7. ~SentSetup(c)
  <2>1. ASSUME NEW k \in Nat, NEW n \in Nat, SetupPart(c, q, k, n) PROVE FALSE
    <3>1. q[Len(q)][1] \in SetupType
      BY <1>3, <2>1, LastOfSetup
    <3>. QED BY <1>3, <1>5, <3>1 DEF SetupType
  <2>. QED BY <1>2, <2>1 DEF SentSetup
<1>. QED BY <1>2, <1>3, <1>4, <1>6, <1>7

\* What becomes of the slot of a client that has said QUIT.
Vacated(s, c) == (device'[s] = NULL \/ c \in undestroyed' \ undestroyed) /\ requested'[s] = {}

\* The slot of a client changes hands by a step of the server with this client,
\* or with the end of the server.
LEMMA QuitStep ==
    ASSUME IInv, Lost, [Next]_vars, NEW s \in Slots, NEW c \in Client, fd[s] = c,
           c \in left \ gone, fd'[s] # c, up[c] = <<>> \/ up[c][1][1] # "DATA"
    PROVE  Vacated(s, c)
<1>1. up[c] # <<>> /\ up[c][1][1] = "QUIT"
  BY QuitBehindData
<1>2. ServerTyped /\ Owners
  BY DEF IInv, Typed
<1>3. ASSUME NEW d \in Client, ServerStep(d) PROVE Vacated(s, c)
  <2>1. CASE ClientHello(d)
    <3>1. d \in queue /\ up[d] # <<>>
      BY <2>1 DEF ClientHello, Receives
    <3>2. PICK t \in Slots, destroyed \in BOOLEAN :
              AcceptHello(d, up[d][1], t, destroyed) /\ fd' = [fd EXCEPT ![t] = d]
      BY <2>1 DEF ClientHello, RefuseHello, AcceptHello
    <3>3. fd[t] = NULL
      BY <3>1, <3>2, HelloFacts, ChosenIdle DEF AcceptHello, Idle
    <3>4. t # s
      BY <3>3, Constants
    <3>. QED BY <1>2, <3>2, <3>4 DEF ServerTyped
  <2>2. CASE HangUpWaiting(d)
    BY <2>2 DEF HangUpWaiting
  <2>3. ASSUME NEW t \in Slots, fd[t] = d, t # s, ServesSlot(t)
        PROVE  FALSE
    <3>1. fd' = fd \/ fd' = [fd EXCEPT ![t] = NULL]
      BY <2>3 DEF ServesSlot, HandlePassword, HandleDescription, HandleRequestEvent,
                  HandleSetupEnd, HandleData, HandleQuit, HangUp, Announce, Drop, Consumed
    <3>. QED BY <1>2, <2>3, <3>1 DEF ServerTyped
  <2>4. CASE \/ HandlePassword(s) \/ HandleDescription(s) \/ HandleRequestEvent(s)
             \/ HandleSetupEnd(s) \/ HandleData(s) \/ HangUp(s)
    BY <1>1, <2>4 DEF HandlePassword, HandleDescription, HandleRequestEvent, HandleSetupEnd,
                      HandleData, HangUp, Handling, Receives
  <2>5. ASSUME NEW destroyed \in BOOLEAN, HandleQuit(s, destroyed) PROVE Vacated(s, c)
    <3>1. requested'[s] = {}
      BY <1>2, <2>5 DEF HandleQuit, ServerTyped
    <3>2. CASE destroyed \/ device[s] = NULL
      BY <1>2, <2>5, <3>1, <3>2 DEF HandleQuit, ServerTyped, Vacated
    <3>3. CASE ~destroyed /\ device[s] # NULL
      <4>1. c \in undestroyed' /\ c \notin undestroyed
        BY <2>5, <3>3 DEF HandleQuit, Lost
      <4>. QED BY <3>1, <4>1 DEF Vacated
    <3>. QED BY <3>2, <3>3
  <2>. QED BY <1>3, <2>1, <2>2, <2>3, <2>4, <2>5 DEF ServerStep, Serves, ServesSlot
<1>4. CASE ServerEnds
  BY <1>4 DEF ServerEnds, Vacated
<1>5. CASE fd' = fd
  BY <1>5
<1>6. \/ \E d \in Client : ServerStep(d)
      \/ ServerEnds
      \/ fd' = fd
  BY DEF Next, Surrounds, ClientStep, ConnectStep, TurnAway, NetworkFails, ServerStarts,
         serverVars, vars
<1>. QED BY <1>3, <1>4, <1>5, <1>6

\* A QUIT that is not overtaken by a failure reaches handle_quit(), which takes
\* the requests of the client, and its device unless UI_DEV_DESTROY fails for
\* this very client in this very step.
THEOREM QuitsHonoured == Spec => QuitHonoured
<1>1. ASSUME IInv, Lost, [Next]_vars
      PROVE  [\A s \in Slots : LET c == fd[s] IN
                (c # NULL /\ c \in left \ gone /\ fd'[s] # c
                   /\ (up[c] = <<>> \/ up[c][1][1] # "DATA"))
                  => /\ device'[s] = NULL \/ c \in undestroyed' \ undestroyed
                     /\ requested'[s] = {}]_vars
  <2>1. ASSUME NEW s \in Slots, fd[s] # NULL, fd[s] \in left \ gone, fd'[s] # fd[s],
               up[fd[s]] = <<>> \/ up[fd[s]][1][1] # "DATA"
        PROVE  Vacated(s, fd[s])
    <3>1. fd[s] \in Client
      BY <1>1, <2>1 DEF IInv, Typed, ServerTyped
    <3>2. PICK c \in Client : c = fd[s]
      BY <3>1
    <3>. QED BY <1>1, <2>1, <3>2, QuitStep
  <2>. QED BY <2>1 DEF Vacated
<1>. QED BY <1>1, FullInvariant, PTL DEF Spec, QuitHonoured

-----------------------------------------------------------------------------
(* Session implements SlotService.                                         *)

stage == [s \in Slots |-> IF fd[s] = NULL THEN "idle" ELSE StageOf(status[s])]
made  == [s \in Slots |-> device[s] # NULL]

LEMMA Stages ==
    /\ StageOf("PASSWORD_REQUIRED") = "auth"
    /\ StageOf("INVALID_PASSWORD") = "denied"
    /\ StageOf("SETUP_REQUIRED") = "setup"
    /\ StageOf("SUCCESS") = "live"
BY DEF StageOf

\* Owners, statuses and devices stay.
LEMMA Stutters ==
    ASSUME UNCHANGED <<fd, status, device>>
    PROVE  UNCHANGED Service!vars
<1>1. stage' = stage /\ made' = made
  BY DEF stage, made
<1>. QED BY <1>1 DEF Service!vars, stage, made

\* A slot loses its owner; its device stays or goes.
LEMMA SlotEmptied ==
    ASSUME ServerTyped, NEW s \in Slots, fd[s] # NULL, fd' = [fd EXCEPT ![s] = NULL],
           \A t \in Slots \ {s} : status'[t] = status[t]
    PROVE  Service!Vacate(s)
<1>1. \A t \in Slots : fd'[t] = IF t = s THEN NULL ELSE fd[t]
  BY DEF ServerTyped
<1>2. stage' = [stage EXCEPT ![s] = "idle"]
  BY <1>1 DEF stage
<1>. QED BY <1>2 DEF Service!Vacate, stage

LEMMA Releases ==
    ASSUME ServerTyped, NEW s \in Slots, fd[s] # NULL, fd' = [fd EXCEPT ![s] = NULL],
           \A t \in Slots \ {s} : status'[t] = status[t], device' = device
    PROVE  Service!Next
<1>1. made' = made
  BY DEF made
<1>2. Service!Release(s)
  BY <1>1, SlotEmptied DEF Service!Release, made
<1>. QED BY <1>2 DEF Service!Next

\* A slot with an owner gets a status.
LEMMA SlotProceeds ==
    ASSUME ServerTyped, NEW s \in Slots, fd[s] # NULL, fd' = fd,
           NEW st, status' = [status EXCEPT ![s] = st]
    PROVE  Service!Proceed(s, StageOf(st)) /\ stage[s] = StageOf(status[s])
<1>1. stage' = [stage EXCEPT ![s] = StageOf(st)]
  BY DEF stage, ServerTyped
<1>. QED BY <1>1 DEF Service!Proceed, stage

LEMMA HelloServes ==
    ASSUME IInv, NEW c \in Client, ClientHello(c)
    PROVE  [Service!Next]_Service!vars
<1>1. c \in queue /\ up[c] # <<>> /\ ServerTyped
  BY DEF ClientHello, Receives, IInv, Typed
<1>2. CASE RefuseHello(c, up[c][1])
  BY <1>2, Stutters DEF RefuseHello
<1>3. ASSUME NEW s \in Slots, NEW destroyed \in BOOLEAN, AcceptHello(c, up[c][1], s, destroyed)
      PROVE  [Service!Next]_Service!vars
  <2>1. fd[s] = NULL /\ (\A t \in Slots : fd[t] # c)
    BY <1>1, <1>3, HelloFacts, ChosenIdle DEF AcceptHello, Idle
  <2>2. s \in Service!Idle
    BY <2>1 DEF Service!Idle
  <2>3. Service!Evict(s) \/ device' = device
    <3>1. CASE Evicts(up[c][1][3]) /\ device' = [device EXCEPT ![s] = NULL]
      <4>1. \A t \in Service!Idle : made[t]
        BY <3>1 DEF Evicts, Deviceless, Idle, Service!Idle, made
      <4>2. made' = [made EXCEPT ![s] = FALSE]
        BY <1>1, <3>1 DEF made, ServerTyped
      <4>. QED BY <2>2, <4>1, <4>2 DEF Service!Evict, made
    <3>. QED BY <1>3, <3>1 DEF AcceptHello, CleanupDevice
  <2>4. CASE UNCHANGED <<fd, status>>
    <3>1. CASE Service!Evict(s)
      <4>1. stage' = stage
        BY <2>4 DEF stage
      <4>. QED BY <2>4, <3>1, <4>1 DEF Service!GrantLost, Service!Next, stage
    <3>. QED BY <2>3, <2>4, <3>1, Stutters
  <2>5. CASE /\ fd' = [fd EXCEPT ![s] = c]
             /\ status' = [status EXCEPT ![s] = FirstStatus(device'[s])]
    <3>1. PICK st : st = FirstStatus(device'[s])
      OBVIOUS
    <3>2. stage' = [stage EXCEPT ![s] = StageOf(st)]
      BY <1>1, <2>5, <3>1, Constants DEF stage, ServerTyped
    <3>3. made'[s] = (device'[s] # NULL)
      BY DEF made
    <3>4. StageOf(st) = IF PasswordSet THEN "auth" ELSE Service!ReadyStage(made'[s])
      BY <3>1, <3>3, Stages DEF FirstStatus, NextStatus, Service!ReadyStage
    <3>5. Service!Evict(s) \/ made' = made
      BY <2>3 DEF made
    <3>6. Service!Grant(s, c)
      BY <2>1, <2>2, <2>5, <3>2, <3>4, <3>5 DEF Service!Grant, stage, made
    <3>. QED BY <3>6 DEF Service!Next
  <2>. QED BY <1>3, <2>4, <2>5 DEF AcceptHello
<1>. QED BY <1>2, <1>3 DEF ClientHello

LEMMA HandlersServe ==
    ASSUME IInv, NEW s \in Slots, NEW c \in Client, fd[s] = c, ServesSlot(s)
    PROVE  [Service!Next]_Service!vars
<1>1. ServerTyped /\ fd[s] # NULL
  BY Constants DEF IInv, Typed
<1>2. CASE HandlePassword(s)
  <2>1. device' = device
    BY <1>2 DEF HandlePassword
  <2>2. CASE status[s] # "PASSWORD_REQUIRED"
    BY <1>2, <2>1, <2>2, Stutters DEF HandlePassword, Consumed
  <2>3. PICK st : st = PasswordStatus(s, up[fd[s]][1][2])
    OBVIOUS
  <2>4. CASE status[s] = "PASSWORD_REQUIRED"
    <3>1. status' = [status EXCEPT ![s] = st] /\ (fd' = fd \/ fd' = [fd EXCEPT ![s] = NULL])
      BY <1>2, <2>3, <2>4 DEF HandlePassword, Announce, Drop
    <3>2. CASE fd' = fd
      <4>1. Service!Proceed(s, StageOf(st)) /\ stage[s] = "auth" /\ made' = made
        BY <1>1, <2>1, <2>4, <3>1, <3>2, SlotProceeds, Stages DEF made
      <4>2. CASE st = "INVALID_PASSWORD"
        <5>1. Service!Deny(s)
          BY <4>1, <4>2, Stages DEF Service!Deny, stage, made
        <5>. QED BY <5>1 DEF Service!Next
      <4>3. CASE st # "INVALID_PASSWORD"
        <5>1. StageOf(st) = IF device[s] # NULL THEN "live" ELSE "setup"
          BY <2>3, <4>3, Stages DEF PasswordStatus, NextStatus
        <5>2. /\ fd' = fd /\ made' = made /\ stage[s] = "auth"
              /\ stage' = [stage EXCEPT ![s] = IF device[s] # NULL THEN "live" ELSE "setup"]
          BY <4>1, <5>1 DEF Service!Proceed, stage
        <5>3. Service!Authenticate(s)
          BY <5>2 DEF Service!Authenticate, Service!Proceed, Service!ReadyStage, stage, made
        <5>. QED BY <5>3 DEF Service!Next
      <4>. QED BY <4>2, <4>3
    <3>3. CASE fd' = [fd EXCEPT ![s] = NULL]
      <4>1. \A t \in Slots \ {s} : status'[t] = status[t]
        BY <1>1, <3>1 DEF ServerTyped
      <4>. QED BY <1>1, <2>1, <3>3, <4>1, Releases
    <3>. QED BY <3>1, <3>2, <3>3
  <2>. QED BY <2>2, <2>4
<1>3. CASE HandleDescription(s) \/ HandleRequestEvent(s)
  <2>1. device' = device /\ status' = status /\ (fd' = fd \/ fd' = [fd EXCEPT ![s] = NULL])
    BY <1>3 DEF HandleDescription, HandleRequestEvent, Consumed, Drop
  <2>. QED BY <1>1, <2>1, Stutters, Releases
<1>4. CASE HandleSetupEnd(s)
  <2>1. CASE Drop(s, <<>>) /\ UNCHANGED <<status, device>>
    BY <1>1, <2>1, Releases DEF Drop
  <2>2. CASE Drop(s, <<<<"INVALID">>>>) /\ UNCHANGED <<status, device>>
    BY <1>1, <2>2, Releases DEF Drop
  <2>3. ASSUME device' = [device EXCEPT ![s] = Enabled(s)], status[s] = "SETUP_REQUIRED",
               NEW bytes, Announce(s, "SUCCESS", bytes)
        PROVE  [Service!Next]_Service!vars
    <3>1. Enabled(s) # NULL
      BY <1>1, Constants DEF ServerTyped, Enabled
    <3>2. made' = [made EXCEPT ![s] = TRUE]
      BY <1>1, <2>3, <3>1 DEF made, ServerTyped
    <3>3. stage[s] = "setup"
      BY <1>1, <2>3, Stages DEF stage
    <3>4. /\ status' = [status EXCEPT ![s] = "SUCCESS"]
          /\ fd' = fd \/ fd' = [fd EXCEPT ![s] = NULL]
      BY <2>3 DEF Announce, Drop
    <3>5. Service!Proceed(s, "live") \/ Service!Vacate(s)
      <4>1. CASE fd' = fd
        BY <1>1, <3>4, <4>1, SlotProceeds, Stages
      <4>2. CASE fd' = [fd EXCEPT ![s] = NULL]
        <5>1. \A t \in Slots \ {s} : status'[t] = status[t]
          BY <1>1, <3>4 DEF ServerTyped
        <5>. QED BY <1>1, <4>2, <5>1, SlotEmptied
      <4>. QED BY <3>4, <4>1, <4>2
    <3>6. Service!Configure(s)
      BY <3>2, <3>3, <3>5 DEF Service!Configure, stage, made
    <3>. QED BY <3>6 DEF Service!Next
  <2>. QED BY <1>4, <2>1, <2>2, <2>3 DEF HandleSetupEnd
<1>5. CASE HandleData(s)
  <2>1. device' = device /\ status' = status /\ (fd' = fd \/ fd' = [fd EXCEPT ![s] = NULL])
    BY <1>5 DEF HandleData, Consumed, Drop
  <2>. QED BY <1>1, <2>1, Stutters, Releases
<1>6. ASSUME NEW destroyed \in BOOLEAN, HandleQuit(s, destroyed)
      PROVE  [Service!Next]_Service!vars
  <2>1. /\ fd' = [fd EXCEPT ![s] = NULL] /\ status' = [status EXCEPT ![s] = "RESERVED_UNCONN"]
        /\ device' = device \/ device' = [device EXCEPT ![s] = NULL]
    BY <1>6 DEF HandleQuit, Drop
  <2>2. \A t \in Slots \ {s} : status'[t] = status[t]
    BY <1>1, <2>1 DEF ServerTyped
  <2>3. CASE device' = device
    BY <1>1, <2>1, <2>2, <2>3, Releases
  <2>4. CASE device' = [device EXCEPT ![s] = NULL]
    <3>1. made' = [made EXCEPT ![s] = FALSE]
      BY <1>1, <2>4 DEF made, ServerTyped
    <3>2. Service!Quit(s)
      BY <1>1, <2>1, <2>2, <3>1, SlotEmptied DEF Service!Quit, made
    <3>. QED BY <3>2 DEF Service!Next
  <2>. QED BY <2>1, <2>3, <2>4
<1>7. CASE HangUp(s)
  <2>1. /\ fd' = [fd EXCEPT ![s] = NULL] /\ status' = [status EXCEPT ![s] = "RESERVED_UNCONN"]
        /\ device' = device
    BY <1>7 DEF HangUp
  <2>2. \A t \in Slots \ {s} : status'[t] = status[t]
    BY <1>1, <2>1 DEF ServerTyped
  <2>. QED BY <1>1, <2>1, <2>2, Releases
<1>. QED BY <1>2, <1>3, <1>4, <1>5, <1>6, <1>7 DEF ServesSlot

\* Seen from its slots the server keeps the promise with clients that run
\* input-client, and through the end and restart of its process.
THEOREM ServiceKept == Spec => ImplementsService
<1>1. Init => Service!Init
  <2>. SUFFICES ASSUME Init PROVE Service!Init
    OBVIOUS
  <2>1. fd = [s \in Slots |-> NULL] /\ stage = [s \in Slots |-> "idle"]
        /\ made = [s \in Slots |-> FALSE]
    BY DEF Init, stage, made
  <2>. QED BY <2>1 DEF Service!Init, Service!Unused, stage, made
<1>2. IInv /\ [Next]_vars => [Service!Next]_Service!vars
  <2>. SUFFICES ASSUME IInv, [Next]_vars PROVE [Service!Next]_Service!vars
    OBVIOUS
  <2>1. ASSUME NEW c \in Client, ServerStep(c) PROVE [Service!Next]_Service!vars
    <3>1. CASE HangUpWaiting(c)
      BY <3>1, Stutters DEF HangUpWaiting
    <3>. QED BY <2>1, <3>1, HelloServes, HandlersServe DEF ServerStep, Serves
  <2>2. CASE ServerEnds
    <3>1. fd' = [s \in Slots |-> NULL] /\ stage' = [s \in Slots |-> "idle"]
          /\ made' = [s \in Slots |-> FALSE]
      BY <2>2 DEF ServerEnds, stage, made
    <3>. QED BY <3>1 DEF Service!Next, Service!Shutdown, Service!Unused, stage, made
  <2>3. CASE UNCHANGED <<fd, status, device>>
    BY <2>3, Stutters
  <2>4. \/ \E c \in Client : ServerStep(c)
        \/ ServerEnds
        \/ UNCHANGED <<fd, status, device>>
    BY DEF Next, Surrounds, ClientStep, ConnectStep, TurnAway, NetworkFails, ServerStarts,
           serverVars, vars
  <2>. QED BY <2>1, <2>2, <2>3, <2>4
<1>. QED BY <1>1, <1>2, Invariant, PTL DEF Spec, ImplementsService, Service!Spec
=============================================================================
