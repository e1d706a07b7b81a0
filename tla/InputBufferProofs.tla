------------------------- MODULE InputBufferProofs -------------------------
(* Proofs about InputBuffer, for every size of the buffer, every table of  *)
(* message sizes and every set of messages.                                *)
EXTENDS InputBuffer, SequenceLemmas

-----------------------------------------------------------------------------
(* A buffer.                                                               *)

InArray(b) == b \in Buffer /\ b.off + b.avail <= INPUT_BUFFER_SIZE

LEMMA BytesOf ==
    ASSUME NEW b \in Buffer, NEW n \in Nat, b.off + n <= INPUT_BUFFER_SIZE
    PROVE  /\ Bytes(b, n) \in Seq(Byte) /\ Len(Bytes(b, n)) = n
           /\ \A i \in 1..n : Bytes(b, n)[i] = b.data[b.off + i - 1]
<1>1. /\ b.data \in [Index -> Byte] /\ b.off \in 0..INPUT_BUFFER_SIZE
      /\ INPUT_BUFFER_SIZE \in Nat
  BY BoundsAssumption DEF Buffer
<1>2. Bytes(b, n) = [i \in 1..n |-> b.data[b.off + i - 1]]
  BY <1>1 DEF Bytes
<1>3. \A i \in 1..n : b.off + i - 1 \in Index
  BY <1>1 DEF Index
<1>4. Bytes(b, n) \in [1..n -> Byte]
  BY <1>1, <1>2, <1>3
<1>5. Bytes(b, n) \in Seq(Byte)
  BY <1>4, SeqDef
<1>. QED BY <1>2, <1>4, <1>5

LEMMA ReceivedBytes ==
    ASSUME NEW b, InArray(b), NEW bytes \in Seq(Byte), Len(bytes) <= Room(b)
    PROVE  LET r == Received(b, bytes)
           IN  /\ InArray(r) /\ r.off = 0 /\ r.avail = b.avail + Len(bytes)
               /\ Bytes(r, r.avail) = Bytes(b, b.avail) \o bytes
<1>1. PICK r : r = Received(b, bytes)
  OBVIOUS
<1>2. /\ b \in Buffer /\ b.data \in [Index -> Byte] /\ b.off \in Nat /\ b.avail \in Nat
      /\ b.off + b.avail <= INPUT_BUFFER_SIZE /\ INPUT_BUFFER_SIZE \in Nat
      /\ Len(bytes) \in Nat /\ \A i \in 1..Len(bytes) : bytes[i] \in Byte
      /\ b.avail + Len(bytes) <= INPUT_BUFFER_SIZE
  BY BoundsAssumption, LenProperties, ElementOfSeq DEF InArray, Buffer, Room
<1>3. /\ r.off = 0 /\ r.avail = b.avail + Len(bytes)
      /\ r = [data |-> r.data, off |-> r.off, avail |-> r.avail]
      /\ r.data = [i \in Index |->
                   CASE i < b.avail -> b.data[b.off + i]
                     [] i \in b.avail..(b.avail + Len(bytes) - 1)
                                    -> bytes[i - b.avail + 1]
                     [] OTHER       -> b.data[i]]
  BY <1>1 DEF Received
<1>4. /\ DOMAIN r.data = Index /\ r.data = [i \in Index |-> r.data[i]]
      /\ \A i \in Index : r.data[i] =
             IF i < b.avail THEN b.data[b.off + i]
             ELSE IF i < b.avail + Len(bytes) THEN bytes[i - b.avail + 1] ELSE b.data[i]
  <2>1. \A i \in Index : i \in Int
    BY DEF Index
  <2>. QED BY <1>2, <1>3, <2>1
<1>5. \A i \in Index : r.data[i] \in Byte
  <2>1. SUFFICES ASSUME NEW i \in Index PROVE r.data[i] \in Byte
    OBVIOUS
  <2>2. /\ i \in Nat
        /\ i < b.avail => b.off + i \in Index
        /\ ~(i < b.avail) /\ i < b.avail + Len(bytes) => i - b.avail + 1 \in 1..Len(bytes)
    <3>1. /\ i \in Nat /\ b.off \in Nat /\ b.avail \in Nat /\ Len(bytes) \in Nat
          /\ b.off + b.avail <= INPUT_BUFFER_SIZE /\ INPUT_BUFFER_SIZE \in Nat
      BY <1>2 DEF Index
    <3>2. i < b.avail => b.off + i \in Index
      BY <3>1 DEF Index
    <3>3. ~(i < b.avail) /\ i < b.avail + Len(bytes) => i - b.avail + 1 \in 1..Len(bytes)
      BY <3>1
    <3>. QED BY <3>1, <3>2, <3>3
  <2>. QED BY <1>2, <1>4, <2>2
<1>6. r.data \in [Index -> Byte]
  BY <1>4, <1>5
<1>7. r \in Buffer /\ InArray(r)
  BY <1>2, <1>3, <1>6 DEF Buffer, InArray
<1>8. /\ Bytes(r, r.avail) \in Seq(Byte) /\ Len(Bytes(r, r.avail)) = r.avail
      /\ \A i \in 1..r.avail : Bytes(r, r.avail)[i] = r.data[i - 1]
  <2>1. r.avail \in Nat /\ r.off + r.avail <= INPUT_BUFFER_SIZE
    BY <1>2, <1>3
  <2>2. /\ Bytes(r, r.avail) \in Seq(Byte) /\ Len(Bytes(r, r.avail)) = r.avail
        /\ \A i \in 1..r.avail : Bytes(r, r.avail)[i] = r.data[r.off + i - 1]
    BY <1>7, <2>1, BytesOf, Zenon
  <2>3. \A i \in 1..r.avail : r.off + i - 1 = i - 1
    BY <1>3, <2>1
  <2>. QED BY <2>2, <2>3
<1>9. /\ Bytes(b, b.avail) \in Seq(Byte) /\ Len(Bytes(b, b.avail)) = b.avail
      /\ \A i \in 1..b.avail : Bytes(b, b.avail)[i] = b.data[b.off + i - 1]
  BY <1>2, BytesOf, Zenon
<1>10. /\ Bytes(b, b.avail) \o bytes \in Seq(Byte)
       /\ Len(Bytes(b, b.avail) \o bytes) = r.avail
       /\ \A i \in 1..r.avail : (Bytes(b, b.avail) \o bytes)[i] =
              IF i <= b.avail THEN b.data[b.off + i - 1] ELSE bytes[i - b.avail]
  <2>1. /\ Bytes(b, b.avail) \o bytes \in Seq(Byte)
        /\ Len(Bytes(b, b.avail) \o bytes) = Len(Bytes(b, b.avail)) + Len(bytes)
        /\ \A i \in 1..(Len(Bytes(b, b.avail)) + Len(bytes)) : (Bytes(b, b.avail) \o bytes)[i] =
               IF i <= Len(Bytes(b, b.avail)) THEN Bytes(b, b.avail)[i]
               ELSE bytes[i - Len(Bytes(b, b.avail))]
    BY <1>9, ConcatProperties, Zenon
  <2>. QED BY <1>2, <1>3, <1>9, <2>1
<1>11. \A i \in 1..r.avail : Bytes(r, r.avail)[i] = (Bytes(b, b.avail) \o bytes)[i]
  <2>1. SUFFICES ASSUME NEW i \in 1..r.avail
                 PROVE  Bytes(r, r.avail)[i] = (Bytes(b, b.avail) \o bytes)[i]
    OBVIOUS
  <2>2. /\ i - 1 \in Index /\ b.off + (i - 1) = b.off + i - 1
        /\ (i - 1) - b.avail + 1 = i - b.avail
        /\ i - 1 < b.avail <=> i <= b.avail /\ i - 1 < b.avail + Len(bytes)
    BY <1>2, <1>3 DEF Index
  <2>3. r.data[i - 1] = IF i <= b.avail THEN b.data[b.off + i - 1] ELSE bytes[i - b.avail]
    BY <1>4, <2>2, <1>2, <1>3
  <2>. QED BY <1>8, <1>10, <2>3
<1>12. Bytes(r, r.avail) = Bytes(b, b.avail) \o bytes
  BY <1>8, <1>10, <1>11, SeqEqual
<1>. QED BY <1>1, <1>3, <1>7, <1>12

LEMMA AdvancedBytes ==
    ASSUME NEW b, InArray(b), NEW n \in 0..b.avail
    PROVE  LET a == Advance(b, n)
           IN  /\ InArray(a) /\ a.avail = b.avail - n
               /\ Bytes(b, b.avail) = Bytes(b, n) \o Bytes(a, a.avail)
<1>1. PICK a : a = Advance(b, n)
  OBVIOUS
<1>2. /\ b \in Buffer /\ b.data \in [Index -> Byte] /\ b.off \in Nat /\ b.avail \in Nat
      /\ b.off + b.avail <= INPUT_BUFFER_SIZE /\ INPUT_BUFFER_SIZE \in Nat
      /\ n \in Nat /\ n <= b.avail
  BY BoundsAssumption DEF InArray, Buffer
<1>3. a.data = b.data /\ a.off = b.off + n /\ a.avail = b.avail - n /\ a \in Buffer /\ InArray(a)
  <2>1. b = [data |-> b.data, off |-> b.off, avail |-> b.avail]
    BY <1>2 DEF Buffer
  <2>2. a = [data |-> b.data, off |-> b.off + n, avail |-> b.avail - n]
    BY <1>1, <2>1 DEF Advance
  <2>. QED BY <1>2, <2>2 DEF Buffer, InArray
<1>4. /\ Bytes(b, n) \in Seq(Byte) /\ Len(Bytes(b, n)) = n
      /\ \A i \in 1..n : Bytes(b, n)[i] = b.data[b.off + i - 1]
  <2>1. b.off + n <= INPUT_BUFFER_SIZE
    BY <1>2
  <2>. QED BY <1>2, <2>1, BytesOf, Zenon
<1>5. /\ Bytes(a, a.avail) \in Seq(Byte) /\ Len(Bytes(a, a.avail)) = a.avail
      /\ \A i \in 1..a.avail : Bytes(a, a.avail)[i] = b.data[b.off + n + i - 1]
  <2>1. a.avail \in Nat /\ a.off + a.avail <= INPUT_BUFFER_SIZE
    BY <1>2, <1>3
  <2>2. /\ Bytes(a, a.avail) \in Seq(Byte) /\ Len(Bytes(a, a.avail)) = a.avail
        /\ \A i \in 1..a.avail : Bytes(a, a.avail)[i] = a.data[a.off + i - 1]
    BY <1>3, <2>1, BytesOf, Zenon
  <2>. QED BY <1>2, <1>3, <2>2
<1>6. /\ Bytes(b, b.avail) \in Seq(Byte) /\ Len(Bytes(b, b.avail)) = b.avail
      /\ \A i \in 1..b.avail : Bytes(b, b.avail)[i] = b.data[b.off + i - 1]
  BY <1>2, BytesOf, Zenon
<1>7. /\ Bytes(b, n) \o Bytes(a, a.avail) \in Seq(Byte)
      /\ Len(Bytes(b, n) \o Bytes(a, a.avail)) = b.avail
      /\ \A i \in 1..b.avail : (Bytes(b, n) \o Bytes(a, a.avail))[i] = b.data[b.off + i - 1]
  <2>1. /\ Bytes(b, n) \o Bytes(a, a.avail) \in Seq(Byte)
        /\ Len(Bytes(b, n) \o Bytes(a, a.avail)) = Len(Bytes(b, n)) + Len(Bytes(a, a.avail))
        /\ \A i \in 1..(Len(Bytes(b, n)) + Len(Bytes(a, a.avail))) :
               (Bytes(b, n) \o Bytes(a, a.avail))[i] =
                   IF i <= Len(Bytes(b, n)) THEN Bytes(b, n)[i]
                   ELSE Bytes(a, a.avail)[i - Len(Bytes(b, n))]
    BY <1>4, <1>5, ConcatProperties, Zenon
  <2>2. \A i \in 1..b.avail : i > n => /\ i - n \in 1..a.avail
                                       /\ b.off + n + (i - n) - 1 = b.off + i - 1
    BY <1>2, <1>3
  <2>3. ASSUME NEW i \in 1..b.avail
        PROVE  (Bytes(b, n) \o Bytes(a, a.avail))[i] = b.data[b.off + i - 1]
    <3>1. i \in 1..(n + a.avail)
      BY <1>2, <1>3
    <3>2. CASE i <= n
      <4>1. (Bytes(b, n) \o Bytes(a, a.avail))[i] = Bytes(b, n)[i]
        BY <1>4, <1>5, <2>1, <3>1, <3>2
      <4>. QED BY <1>4, <3>2, <4>1
    <3>3. CASE i > n
      <4>1. (Bytes(b, n) \o Bytes(a, a.avail))[i] = Bytes(a, a.avail)[i - n]
        BY <1>2, <1>4, <1>5, <2>1, <3>1, <3>3
      <4>2. Bytes(a, a.avail)[i - n] = b.data[b.off + n + (i - n) - 1]
        BY <1>5, <2>2, <3>3
      <4>. QED BY <2>2, <3>3, <4>1, <4>2
    <3>4. i <= n \/ i > n
      BY <1>2
    <3>. QED BY <3>2, <3>3, <3>4
  <2>4. Len(Bytes(b, n)) + Len(Bytes(a, a.avail)) = b.avail
    <3>1. Len(Bytes(b, n)) = n /\ Len(Bytes(a, a.avail)) = a.avail
      BY <1>4, <1>5
    <3>2. n + a.avail = b.avail
      BY <1>2, <1>3
    <3>. QED BY <3>1, <3>2
  <2>. QED BY <2>1, <2>3, <2>4
<1>8. Bytes(b, b.avail) = Bytes(b, n) \o Bytes(a, a.avail)
  <2>1. PICK x, y : x = Bytes(b, b.avail) /\ y = Bytes(b, n) \o Bytes(a, a.avail)
    OBVIOUS
  <2>2. x \in Seq(Byte) /\ y \in Seq(Byte) /\ Len(x) = Len(y) /\ \A i \in 1..Len(x) : x[i] = y[i]
    BY <2>1, <1>6, <1>7
  <2>. QED BY <2>1, <2>2, SeqEqual, Zenon
<1>. QED BY <1>1, <1>3, <1>8

-----------------------------------------------------------------------------
(* The inductive invariant.                                                *)

HistoriesTyped == hello \in Hello \cup {<<>>} /\ sent \in Seq(Message)

\* The entry's buffer is scanned from its start, and holds less than a HELLO.
EntryShort == waiting.off = 0 /\ waiting.avail < HelloSize

\* Nothing of an earlier connection is left in the entry, and while it waits
\* it has all the connection has sent, as far as that has arrived.
EntryClean == at # "waiting" => waiting.avail = 0
EntryFresh == at = "waiting" => verdict = "none" /\ sent = <<>> /\ handled = <<>>
EntryHolds ==
    at = "waiting" => /\ hup => hello = <<>>
                      /\ Bytes(waiting, waiting.avail) \o wire = hello

\* A slot at rest with bytes in its buffer waits for more, or for good.
AtRest ==
    at = "slot" /\ ~scanning /\ slot.avail > 0
        => TypeByte(slot) \notin Known \/ Incomplete(slot)

\* No recv() has ended behind the type byte of a message of variable length.
HeadersWhole == at = "slot" => ~CutsHeader(Len(FlattenSeq(sent)) - Len(wire))

\* What has been handled is the beginning of what was sent.
HandledFirst ==
    at = "slot" => /\ Len(handled) <= Len(sent)
                   /\ handled = SubSeq(sent, 1, Len(handled))

EntryInv == EntryShort /\ EntryClean /\ EntryFresh /\ EntryHolds /\ HelloJudged
SlotInv  == AtRest /\ HeadersWhole /\ HandledFirst /\ NothingLost
IInv     == TypeOK /\ HistoriesTyped /\ EntryInv /\ SlotInv

\* Nothing is split behind a type byte, and no client gives up its HELLO.
NoTrouble == Trouble = {}

-----------------------------------------------------------------------------
(* Sequences that are put together and taken apart.                        *)

Joins(x, y, w, z) == (x \o y) \o w = z

LEMMA JoinsRight ==
    ASSUME NEW T, NEW x \in Seq(T), NEW y \in Seq(T), NEW w \in Seq(T), NEW z, Joins(x, y, w, z)
    PROVE  x \o (y \o w) = z /\ y \o w \in Seq(T)
<1>1. (x \o y) \o w = x \o (y \o w)
  OBVIOUS
<1>2. y \o w \in Seq(T)
  BY ConcatProperties
<1>. QED BY <1>1, <1>2, Zenon DEF Joins

LEMMA JoinsLength ==
    ASSUME NEW T, NEW x \in Seq(T), NEW y \in Seq(T), NEW w \in Seq(T), NEW z, Joins(x, y, w, z)
    PROVE  Len(z) = Len(x) + Len(y) + Len(w)
<1>1. Len((x \o y) \o w) = Len(x) + Len(y) + Len(w)
  OBVIOUS
<1>. QED BY <1>1, Zenon DEF Joins

LEMMA JoinsLonger ==
    ASSUME NEW T, NEW x \in Seq(T), NEW y \in Seq(T), NEW w \in Seq(T), NEW m \in Seq(T), NEW z,
           Joins(x, y, w, z)
    PROVE  Joins(x, y, w \o m, z \o m)
<1>1. ((x \o y) \o w) \o m = (x \o y) \o (w \o m)
  BY SMTT(60)
<1>. QED BY <1>1 DEF Joins

\* y \o w, if it stands behind x in x \o z, is z.
LEMMA Cancel ==
    ASSUME NEW T, NEW x \in Seq(T), NEW y \in Seq(T), NEW w \in Seq(T), NEW z \in Seq(T),
           Joins(x, y, w, x \o z)
    PROVE  y \o w = z
<1>1. x \o (y \o w) = x \o z /\ y \o w \in Seq(T)
  BY JoinsRight
<1>. QED BY <1>1, ConcatSimplifications

LEMMA SameFront ==
    ASSUME NEW T, NEW y \in Seq(T), NEW w \in Seq(T), NEW m \in Seq(T), NEW r \in Seq(T),
           y \o w = m \o r
    PROVE  \A i \in 1..Len(m) : i <= Len(y) => y[i] = m[i]
<1>1. SUFFICES ASSUME NEW i \in 1..Len(m), i <= Len(y) PROVE y[i] = m[i]
  OBVIOUS
<1>2. (y \o w)[i] = y[i] /\ (m \o r)[i] = m[i]
  BY <1>1
<1>. QED BY <1>2

LEMMA SameBeginning ==
    ASSUME NEW T, NEW p \in Seq(T), NEW v \in Seq(T), NEW m \in Seq(T), NEW r \in Seq(T),
           p \o v = m \o r, Len(p) = Len(m)
    PROVE  p = m
<1>2. \A i \in 1..Len(m) : i <= Len(p) => p[i] = m[i]
  BY SameFront
<1>3. \A i \in 1..Len(m) : p[i] = m[i]
  BY <1>2
<1>. QED BY <1>3, SeqEqual

LEMMA MoveBoundary ==
    ASSUME NEW T, NEW x \in Seq(T), NEW y \in Seq(T), NEW u \in Seq(T), NEW w \in Seq(T),
           NEW g, g = u \o w, NEW z, Joins(x, y, g, z)
    PROVE  Joins(x, y \o u, w, z)
<1>1. (x \o (y \o u)) \o w = (x \o y) \o (u \o w)
  BY SMTT(60)
<1>. QED BY <1>1 DEF Joins

LEMMA MoveFront ==
    ASSUME NEW T, NEW x \in Seq(T), NEW m \in Seq(T), NEW q \in Seq(T), NEW w \in Seq(T),
           NEW g, g = m \o q, NEW z, Joins(x, g, w, z)
    PROVE  Joins(x \o m, q, w, z)
<1>1. (x \o (m \o q)) \o w = ((x \o m) \o q) \o w
  BY SMTT(60)
<1>. QED BY <1>1 DEF Joins

LEMMA CutWire ==
    ASSUME NEW T, NEW w \in Seq(T), NEW n \in 1..Len(w)
    PROVE  /\ SubSeq(w, 1, n) \in Seq(T) /\ SubSeq(w, n + 1, Len(w)) \in Seq(T)
           /\ Len(SubSeq(w, 1, n)) = n /\ Len(SubSeq(w, n + 1, Len(w))) = Len(w) - n
           /\ w = SubSeq(w, 1, n) \o SubSeq(w, n + 1, Len(w))
<1>1. Len(w) \in Nat /\ \A i \in 1..Len(w) : w[i] \in T
  BY LenProperties, ElementOfSeq
<1>2. SubSeq(w, 1, n) \in Seq(T) /\ Len(SubSeq(w, 1, n)) = n
  BY <1>1, SubSeqProperties
<1>3. SubSeq(w, n + 1, Len(w)) \in Seq(T) /\ Len(SubSeq(w, n + 1, Len(w))) = Len(w) - n
  BY <1>1, SubSeqProperties
<1>4. SubSeq(w, 1, n) \o SubSeq(w, n + 1, Len(w)) = SubSeq(w, 1, Len(w))
  BY <1>1, ConcatAdjacentSubSeq
<1>. QED BY <1>2, <1>3, <1>4, SubSeqFull

-----------------------------------------------------------------------------
(* The message at the scan offset.                                         *)

LEMMA Histories ==
    ASSUME NEW s \in Seq(Message)
    PROVE  s \in Seq(Seq(Byte)) /\ FlattenSeq(s) \in Seq(Byte)
<1>1. Message \subseteq Seq(Byte)
  BY MessageAssumption
<1>2. s \in Seq(Seq(Byte))
  BY <1>1, SeqMonotonic
<1>. QED BY <1>2, FlattenTyped

LEMMA SlotFacts ==
    ASSUME IInv, at = "slot"
    PROVE  /\ InArray(slot) /\ slot.avail \in Nat
           /\ wire \in Seq(Byte) /\ sent \in Seq(Message)
           /\ handled \in Seq(Message)
           /\ FlattenSeq(sent) \in Seq(Byte) /\ FlattenSeq(handled) \in Seq(Byte)
           /\ Bytes(slot, slot.avail) \in Seq(Byte)
           /\ Len(Bytes(slot, slot.avail)) = slot.avail
           /\ \A i \in 1..slot.avail : Bytes(slot, slot.avail)[i] = slot.data[slot.off + i - 1]
<1>1. InArray(slot) /\ slot.avail \in Nat /\ slot \in Buffer
      /\ slot.off + slot.avail <= INPUT_BUFFER_SIZE
  BY BoundsAssumption DEF IInv, TypeOK, InArray, Buffer
<1>2. wire \in Seq(Byte) /\ sent \in Seq(Message)
  BY DEF IInv, TypeOK, HistoriesTyped
<1>3. handled \in Seq(Message)
  <2>1. PICK h : h = Len(handled)
    OBVIOUS
  <2>2. handled = SubSeq(sent, 1, h) /\ h <= Len(sent)
    BY <2>1 DEF IInv, SlotInv, HandledFirst
  <2>3. h \in Nat
    <3>1. handled = SubSeq(sent, 1, Len(handled))
      BY <2>1, <2>2
    <3>. QED BY <2>1, <2>2, <3>1
  <2>4. \A i \in 1..h : sent[i] \in Message
    BY <1>2, <2>2, <2>3, LenProperties, ElementOfSeq
  <2>. QED BY <2>2, <2>3, <2>4, SubSeqProperties
<1>4. FlattenSeq(sent) \in Seq(Byte) /\ FlattenSeq(handled) \in Seq(Byte)
  BY <1>2, <1>3, Histories
<1>5. /\ Bytes(slot, slot.avail) \in Seq(Byte) /\ Len(Bytes(slot, slot.avail)) = slot.avail
      /\ \A i \in 1..slot.avail : Bytes(slot, slot.avail)[i] = slot.data[slot.off + i - 1]
  BY <1>1, BytesOf, Zenon
<1>. QED BY <1>1, <1>2, <1>3, <1>4, <1>5

\* What the head of the buffer is: the next message of the client, and the
\* server knows its size as soon as it knows its type.
Heads(m, rest) ==
    /\ Len(handled) < Len(sent) /\ m = sent[Len(handled) + 1]
    /\ Bytes(slot, slot.avail) \o wire = m \o rest
    /\ TypeByte(slot) = m[1]
    /\ TypeByte(slot) \in Known => /\ get_size_from_command(slot) = Len(m)
                                   /\ slot.avail >= Len(m) => Used(slot) = {Len(m)}

LEMMA SlotHead ==
    ASSUME IInv, at = "slot", slot.avail > 0
    PROVE  \E m \in Message, rest \in Seq(Byte) : Heads(m, rest)
<1> DEFINE held == Bytes(slot, slot.avail)
           h    == Len(handled)
<1>1. /\ InArray(slot) /\ slot.avail \in Nat
      /\ wire \in Seq(Byte) /\ sent \in Seq(Message) /\ handled \in Seq(Message)
      /\ FlattenSeq(sent) \in Seq(Byte) /\ FlattenSeq(handled) \in Seq(Byte)
      /\ held \in Seq(Byte) /\ Len(held) = slot.avail
      /\ \A i \in 1..slot.avail : held[i] = slot.data[slot.off + i - 1]
  BY SlotFacts
<1>2. Joins(FlattenSeq(handled), held, wire, FlattenSeq(sent))
  BY DEF IInv, SlotInv, NothingLost, Joins
<1>3. h \in Nat /\ h < Len(sent) /\ handled = SubSeq(sent, 1, h)
  <2>1. h \in Nat /\ Len(sent) \in Nat /\ h <= Len(sent) /\ handled = SubSeq(sent, 1, h)
    BY <1>1, LenProperties DEF IInv, SlotInv, HandledFirst
  <2>2. ASSUME h = Len(sent) PROVE FALSE
    <3>1. handled = sent
      BY <1>1, <2>1, <2>2, SubSeqFull
    <3>2. PICK x \in Seq(Byte) : x = FlattenSeq(handled)
      BY <1>1
    <3>3. PICK y \in Seq(Byte) : y = held
      BY <1>1
    <3>4. Joins(x, y, wire, x)
      BY <1>2, <3>1, <3>2, <3>3
    <3>. HIDE DEF held
    <3>5. x \o (y \o wire) = x /\ y \o wire \in Seq(Byte)
      BY <3>4, <1>1, JoinsRight
    <3>6. y \o wire = <<>>
      BY <3>5, ConcatSimplifications
    <3>7. y = <<>>
      BY <3>6, <1>1, ConcatSimplifications
    <3>. QED BY <1>1, <3>3, <3>7, EmptySeq
  <2>. QED BY <2>1, <2>2
<1>4. PICK m \in Message : m = sent[h + 1]
  BY <1>1, <1>3, ElementOfSeq
<1>5. m \in Seq(Byte) /\ Len(m) \in 1..INPUT_BUFFER_SIZE /\ (m[1] \in Known => WellFormed(m))
  BY <1>4, MessageAssumption
<1>6. PICK rest \in Seq(Byte) : FlattenSeq(sent) = FlattenSeq(handled) \o (m \o rest)
  <2>1. sent \in Seq(Seq(Byte)) /\ h \in 0..(Len(sent) - 1)
    BY <1>1, <1>3, Histories, LenProperties
  <2>2. FlattenedAt(sent, h, Byte)
    BY <2>1, FlattenAt
  <2>. QED BY <2>2, <1>3, <1>4 DEF FlattenedAt, Begins
<1>7. held \o wire = m \o rest
  <2>1. PICK z \in Seq(Byte) : z = m \o rest
    BY <1>5, ConcatProperties
  <2>2. Joins(FlattenSeq(handled), held, wire, FlattenSeq(handled) \o z)
    BY <1>2, <1>6, <2>1
  <2>. HIDE DEF held
  <2>3. held \o wire = z
    BY <1>1, <2>2, Cancel
  <2>. QED BY <2>1, <2>3
<1>8. \A i \in 1..Len(m) : i <= slot.avail => slot.data[slot.off + i - 1] = m[i]
  <2>. HIDE DEF held
  <2>1. \A i \in 1..Len(m) : i <= Len(held) => held[i] = m[i]
    BY <1>1, <1>5, <1>7, SameFront
  <2>. QED BY <1>1, <1>5, <2>1
<1>9. TypeByte(slot) = m[1]
  <2>1. slot.off + 1 - 1 = slot.off
    BY <1>1 DEF InArray, Buffer
  <2>2. 1 \in 1..Len(m) /\ 1 <= slot.avail
    BY <1>1, <1>5
  <2>3. slot.data[slot.off + 1 - 1] = m[1]
    BY <1>8, <2>2
  <2>. QED BY <2>1, <2>3 DEF TypeByte
<1>10. ASSUME m[1] \in Variable PROVE slot.avail > 1
  <2>1. SUFFICES ASSUME slot.avail = 1 PROVE FALSE
    BY <1>1
  <2>2. Len(FlattenSeq(sent)) - Len(wire) = Len(FlattenSeq(SubSeq(sent, 1, h))) + 1
    <3>1. PICK x \in Seq(Byte) : x = FlattenSeq(handled)
      BY <1>1
    <3>2. PICK y \in Seq(Byte) : y = held
      BY <1>1
    <3>3. PICK z \in Seq(Byte) : z = FlattenSeq(sent)
      BY <1>1
    <3>. HIDE DEF held
    <3>4. Joins(x, y, wire, z) /\ Len(y) = 1
      BY <1>1, <1>2, <2>1, <3>1, <3>2, <3>3
    <3>5. Len(z) = Len(x) + Len(y) + Len(wire)
      <4>1. wire \in Seq(Byte) /\ Joins(x, y, wire, z)
        BY <1>1, <3>4
      <4>. QED BY <4>1, JoinsLength
    <3>6. Len(x) \in Nat /\ Len(y) \in Nat /\ Len(wire) \in Nat
      BY <1>1, LenProperties
    <3>7. Len(z) - Len(wire) = Len(x) + 1
      BY <3>4, <3>5, <3>6
    <3>. QED BY <1>3, <3>1, <3>3, <3>7
  <2>3. h + 1 \in DOMAIN sent /\ (h + 1) - 1 = h /\ sent[h + 1][1] \in Variable
    BY <1>1, <1>3, <1>4, <1>10, LenProperties
  <2>4. CutsHeader(Len(FlattenSeq(sent)) - Len(wire))
    BY <2>2, <2>3 DEF CutsHeader
  <2>. QED BY <2>4 DEF IInv, SlotInv, HeadersWhole
<1>11. ASSUME TypeByte(slot) \in Known
       PROVE  /\ get_size_from_command(slot) = Len(m)
              /\ slot.avail >= Len(m) => Used(slot) = {Len(m)}
  <2>1. m[1] \in Known /\ (m[1] \in Variable => Len(m) > 1) /\ Len(m) = Size(m)
    BY <1>5, <1>9, <1>11 DEF WellFormed
  <2>2. CASE m[1] \notin Variable
    <3>1. Len(m) = Length[m[1]]
      BY <2>1, <2>2 DEF Size
    <3>. QED BY <1>9, <2>1, <2>2, <3>1 DEF get_size_from_command, Used
  <2>3. CASE m[1] \in Variable
    <3>1. Len(m) = Length[m[1]] + m[2] /\ Len(m) > 1
      BY <2>1, <2>3 DEF Size
    <3>2. slot.avail > 1 /\ slot.off + 2 - 1 = slot.off + 1 /\ slot.off + 1 \in Index
      BY <1>1, <1>10, <2>3, BoundsAssumption DEF InArray, Buffer, Index
    <3>3. slot.data[slot.off + 1] = m[2]
      <4>1. 2 \in 1..Len(m) /\ 2 <= slot.avail
        BY <1>1, <1>5, <3>1, <3>2
      <4>2. slot.data[slot.off + 2 - 1] = m[2]
        BY <1>8, <4>1
      <4>. QED BY <3>2, <4>2
    <3>4. get_size_from_command(slot) = Length[m[1]] + slot.data[slot.off + 1]
      BY <1>9, <2>1, <2>3, <3>2 DEF get_size_from_command
    <3>5. Used(slot) = {Length[m[1]] + slot.data[slot.off + 1]}
      BY <1>9, <2>3, <3>2 DEF Used
    <3>. QED BY <3>1, <3>3, <3>4, <3>5
  <2>. QED BY <2>2, <2>3
<1>. QED BY <1>3, <1>4, <1>7, <1>9, <1>11 DEF Heads

-----------------------------------------------------------------------------
(* The invariant holds at first.                                           *)

LEMMA EmptyBuffer == InArray(Empty) /\ Empty.avail = 0 /\ Bytes(Empty, 0) = <<>>
<1>1. Cleared \in [Index -> Byte]
  BY LengthAssumption DEF Cleared
<1>2. Empty \in Buffer /\ Empty.off = 0 /\ Empty.avail = 0 /\ InArray(Empty)
  BY <1>1, BoundsAssumption DEF Empty, Buffer, InArray
<1>3. Bytes(Empty, 0) \in Seq(Byte) /\ Len(Bytes(Empty, 0)) = 0
  BY <1>2, BytesOf, BoundsAssumption
<1>. QED BY <1>2, <1>3, EmptySeq

LEMMA InitInv == Init => IInv
<1>1. SUFFICES ASSUME Init PROVE IInv
  OBVIOUS
<1>2. Empty \in Buffer /\ Empty.off = 0 /\ Empty.avail = 0
  BY EmptyBuffer DEF InArray, Empty
<1>3. TypeOK /\ HistoriesTyped
  <2>1. <<>> \in Seq(Byte) /\ <<>> \in Seq(Message)
    BY EmptySeq
  <2>2. Empty.off + Empty.avail <= INPUT_BUFFER_SIZE
    BY EmptyBuffer DEF InArray
  <2>. QED BY <1>1, <1>2, <2>1, <2>2 DEF Init, TypeOK, HistoriesTyped
<1>4. EntryInv
  BY <1>1, <1>2
  DEF Init, EntryInv, EntryShort, EntryClean, EntryFresh, EntryHolds, HelloJudged, HelloSize
<1>5. SlotInv
  BY <1>1 DEF Init, SlotInv, AtRest, HeadersWhole, HandledFirst, NothingLost
<1>. QED BY <1>3, <1>4, <1>5 DEF IInv

-----------------------------------------------------------------------------
(* The steps of the client.                                                *)

LEMMA EntryFacts ==
    ASSUME IInv
    PROVE  /\ InArray(waiting) /\ waiting.off = 0 /\ waiting.avail \in Nat
           /\ waiting.avail < HelloSize
           /\ Bytes(waiting, waiting.avail) \in Seq(Byte)
           /\ Len(Bytes(waiting, waiting.avail)) = waiting.avail
           /\ wire \in Seq(Byte) /\ hello \in Seq(Byte)
<1>1. InArray(waiting) /\ waiting.off = 0 /\ waiting.avail \in Nat /\ waiting.avail < HelloSize
      /\ waiting \in Buffer /\ waiting.off + waiting.avail <= INPUT_BUFFER_SIZE
  BY BoundsAssumption DEF IInv, TypeOK, InArray, Buffer, EntryInv, EntryShort
<1>2. /\ Bytes(waiting, waiting.avail) \in Seq(Byte)
      /\ Len(Bytes(waiting, waiting.avail)) = waiting.avail
  BY <1>1, BytesOf, Zenon
<1>3. wire \in Seq(Byte) /\ hello \in Seq(Byte)
  BY MessageAssumption, EmptySeq DEF IInv, TypeOK
<1>. QED BY <1>1, <1>2, <1>3

\* Before its HELLO a connection has sent nothing.
LEMMA BeforeHello ==
    ASSUME IInv, at = "waiting", hello = <<>>
    PROVE  waiting.avail = 0 /\ Bytes(waiting, waiting.avail) = <<>> /\ wire = <<>>
<1>1. /\ Bytes(waiting, waiting.avail) \in Seq(Byte) /\ wire \in Seq(Byte)
      /\ Len(Bytes(waiting, waiting.avail)) = waiting.avail
  BY EntryFacts
<1>2. Bytes(waiting, waiting.avail) \o wire = <<>>
  BY DEF IInv, EntryInv, EntryHolds
<1>3. Bytes(waiting, waiting.avail) = <<>> /\ wire = <<>>
  BY <1>1, <1>2, ConcatSimplifications
<1>. QED BY <1>1, <1>3, EmptySeq

LEMMA ConnectInv ==
    ASSUME IInv, Connect
    PROVE  IInv'
<1>1. TypeOK' /\ HistoriesTyped'
  BY EmptySeq DEF IInv, TypeOK, HistoriesTyped, Connect
<1>2. EntryInv'
  <2>1. waiting.avail = 0 /\ waiting' = waiting
    BY DEF IInv, EntryInv, EntryClean, Connect
  <2>2. Bytes(waiting, waiting.avail) = <<>>
    BY <2>1, EntryFacts, EmptySeq
  <2>3. EntryHolds'
    BY <2>1, <2>2, EmptySeq, ConcatEmptySeq DEF EntryHolds, Connect
  <2>4. (EntryShort /\ EntryClean)'
    BY <2>1 DEF IInv, EntryInv, EntryShort, EntryClean, Connect
  <2>. QED BY <2>3, <2>4 DEF EntryInv, EntryFresh, HelloJudged, Connect
<1>3. SlotInv'
  BY DEF SlotInv, AtRest, HeadersWhole, HandledFirst, NothingLost, Connect
<1>. QED BY <1>1, <1>2, <1>3 DEF IInv

LEMMA SendHelloInv ==
    ASSUME IInv, NEW h \in Hello, SendHello(h)
    PROVE  IInv'
<1>0. h \in Seq(Byte)
  BY MessageAssumption
<1>1. wire = <<>> /\ Bytes(waiting, waiting.avail) = <<>>
  BY BeforeHello DEF SendHello
<1>2. wire' = h
  BY <1>0, <1>1, ConcatEmptySeq DEF SendHello
<1>3. TypeOK' /\ HistoriesTyped'
  BY <1>0, <1>2 DEF IInv, TypeOK, HistoriesTyped, SendHello, server
<1>4. EntryInv'
  <2>1. Bytes(waiting, waiting.avail) \o wire' = h
    BY <1>0, <1>1, <1>2, ConcatEmptySeq
  <2>2. EntryHolds'
    BY <2>1 DEF EntryHolds, SendHello, server
  <2>3. at = "waiting" /\ verdict = "none" /\ sent = <<>> /\ handled = <<>>
    BY DEF IInv, EntryInv, EntryFresh, SendHello
  <2>. QED BY <2>2, <2>3
       DEF IInv, EntryInv, EntryShort, EntryClean, EntryFresh, HelloJudged, SendHello, server
<1>5. SlotInv'
  BY DEF SlotInv, AtRest, HeadersWhole, HandledFirst, NothingLost, SendHello, server
<1>. QED BY <1>3, <1>4, <1>5 DEF IInv

LEMMA PeerCloseInv ==
    ASSUME IInv, NoTrouble, PeerClose
    PROVE  IInv'
<1>1. TypeOK' /\ HistoriesTyped'
  BY DEF IInv, TypeOK, HistoriesTyped, PeerClose, server
<1>2. EntryInv'
  <2>1. at = "waiting" => hello = <<>>
    BY DEF PeerClose, NoTrouble
  <2>. QED BY <2>1
       DEF IInv, EntryInv, EntryShort, EntryClean, EntryFresh, EntryHolds, HelloJudged,
           PeerClose, server
<1>3. SlotInv'
  BY DEF IInv, SlotInv, AtRest, HeadersWhole, CutsHeader, HandledFirst, NothingLost, PeerClose, server
<1>. QED BY <1>1, <1>2, <1>3 DEF IInv

\* What is sent later does not move the messages sent before, nor make a
\* header of bytes that have been received.
LEMMA SendMessageInv ==
    ASSUME IInv, NEW m \in Message, SendMessage(m)
    PROVE  IInv'
<1>1. /\ at = "slot" /\ at' = at /\ slot' = slot /\ waiting' = waiting /\ scanning' = scanning
      /\ handled' = handled /\ verdict' = verdict /\ hello' = hello /\ hup' = hup
      /\ sent' = Append(sent, m) /\ wire' = wire \o m
  BY DEF SendMessage, server
<1>2. /\ wire \in Seq(Byte) /\ m \in Seq(Byte) /\ sent \in Seq(Message)
      /\ handled \in Seq(Message)
      /\ FlattenSeq(sent) \in Seq(Byte) /\ FlattenSeq(handled) \in Seq(Byte)
      /\ Bytes(slot, slot.avail) \in Seq(Byte)
  BY <1>1, SlotFacts, MessageAssumption
<1>3. /\ sent' \in Seq(Message) /\ Len(sent') = Len(sent) + 1 /\ Len(sent) \in Nat
      /\ \A i \in 1..Len(sent) : sent'[i] = sent[i]
      /\ sent'[Len(sent) + 1] = m
      /\ wire' \in Seq(Byte) /\ Len(wire') = Len(wire) + Len(m)
  BY <1>1, <1>2, AppendProperties, ConcatProperties, LenProperties
<1>4. TypeOK' /\ HistoriesTyped'
  BY <1>1, <1>3 DEF IInv, TypeOK, HistoriesTyped
<1>5. EntryInv'
  BY <1>1 DEF IInv, EntryInv, EntryShort, EntryClean, EntryFresh, EntryHolds, HelloJudged
<1>6. AtRest'
  BY <1>1 DEF IInv, SlotInv, AtRest
<1>7. FlattenSeq(sent') = FlattenSeq(sent) \o m
  BY <1>1, <1>2, Histories, FlattenAppend
<1>8. HandledFirst'
  <2>1. Len(handled) \in Nat /\ Len(handled) <= Len(sent) /\ handled = SubSeq(sent, 1, Len(handled))
    BY <1>1, <1>2, LenProperties DEF IInv, SlotInv, HandledFirst
  <2>2. Len(handled) \in 0..Len(sent)
    BY <1>3, <2>1
  <2>3. SubSeq(sent', 1, Len(handled)) = SubSeq(sent, 1, Len(handled))
    BY <1>1, <1>2, <2>2, PrefixOfAppend
  <2>. QED BY <1>1, <1>3, <2>1, <2>3 DEF HandledFirst
<1>9. NothingLost'
  <2>1. PICK x \in Seq(Byte), y \in Seq(Byte), z \in Seq(Byte) :
            x = FlattenSeq(handled) /\ y = Bytes(slot, slot.avail) /\ z = FlattenSeq(sent)
    BY <1>2
  <2>2. Joins(x, y, wire, z)
    BY <1>1, <2>1 DEF IInv, SlotInv, NothingLost, Joins
  <2>3. Joins(x, y, wire \o m, z \o m)
    BY <1>2, <2>2, JoinsLonger
  <2>. QED BY <1>1, <1>7, <2>1, <2>3 DEF NothingLost, Joins
<1>10. HeadersWhole'
  <2>1. PICK k \in Nat : k = Len(FlattenSeq(sent)) - Len(wire) /\ k <= Len(FlattenSeq(sent))
    <3>1. PICK x \in Seq(Byte), y \in Seq(Byte), z \in Seq(Byte) :
            x = FlattenSeq(handled) /\ y = Bytes(slot, slot.avail) /\ z = FlattenSeq(sent)
      BY <1>2
    <3>2. Joins(x, y, wire, z)
      BY <1>1, <3>1 DEF IInv, SlotInv, NothingLost, Joins
    <3>3. Len(z) = Len(x) + Len(y) + Len(wire)
      BY <1>2, <3>2, JoinsLength
    <3>4. Len(x) \in Nat /\ Len(y) \in Nat /\ Len(wire) \in Nat /\ Len(z) \in Nat
      BY <1>2, LenProperties
    <3>5. Len(z) - Len(wire) \in Nat /\ Len(z) - Len(wire) <= Len(z)
      BY <3>3, <3>4
    <3>. QED BY <3>1, <3>5
  <2>2. Len(FlattenSeq(sent')) - Len(wire') = k
    <3>1. Len(FlattenSeq(sent')) = Len(FlattenSeq(sent)) + Len(m)
      BY <1>2, <1>7, ConcatProperties
    <3>2. Len(FlattenSeq(sent)) \in Nat /\ Len(m) \in Nat /\ Len(wire) \in Nat
      BY <1>2, LenProperties
    <3>. QED BY <1>3, <2>1, <3>1, <3>2
  <2>3. ASSUME NEW i \in DOMAIN sent', sent'[i][1] \in Variable,
               k = Len(FlattenSeq(SubSeq(sent', 1, i - 1))) + 1
        PROVE  FALSE
    <3>1. i \in 1..(Len(sent) + 1) /\ i - 1 \in 0..Len(sent)
      BY <1>3, LenProperties
    <3>2. SubSeq(sent', 1, i - 1) = SubSeq(sent, 1, i - 1)
      BY <1>1, <1>2, <3>1, PrefixOfAppend
    <3>3. CASE i \in 1..Len(sent)
      <4>1. i \in DOMAIN sent /\ sent[i][1] \in Variable
        BY <1>2, <1>3, <2>3, <3>3, LenProperties
      <4>2. CutsHeader(k)
        BY <2>3, <3>2, <4>1 DEF CutsHeader
      <4>. QED BY <1>1, <2>1, <4>2 DEF IInv, SlotInv, HeadersWhole
    <3>4. CASE i = Len(sent) + 1
      <4>1. SubSeq(sent, 1, i - 1) = sent
        BY <1>2, <1>3, <3>4, SubSeqFull
      <4>2. k = Len(FlattenSeq(sent)) + 1
        BY <2>3, <3>2, <4>1
      <4>3. Len(FlattenSeq(sent)) \in Nat
        BY <1>2, LenProperties
      <4>. QED BY <2>1, <4>2, <4>3
    <3>. QED BY <1>3, <3>1, <3>3, <3>4
  <2>. QED BY <2>2, <2>3 DEF HeadersWhole, CutsHeader
<1>. QED BY <1>4, <1>5, <1>6, <1>8, <1>9, <1>10 DEF IInv, SlotInv

-----------------------------------------------------------------------------
(* The steps of the server: the waiting entry.                             *)

\* The entry never takes more than the HELLO, so the one judged is that of
\* the connection, whole.
LEMMA RecvHelloInv ==
    ASSUME IInv, NEW n \in 1..INPUT_BUFFER_SIZE, RecvHello(n)
    PROVE  IInv'
<1> DEFINE b == Received(waiting, SubSeq(wire, 1, n))
<1>1. /\ at = "waiting" /\ n \in 1..Len(wire) /\ n <= Room(waiting)
      /\ wire' = SubSeq(wire, n + 1, Len(wire))
      /\ hup' = hup /\ hello' = hello /\ sent' = sent
      /\ scanning' = scanning /\ handled' = handled
  BY DEF RecvHello, Recv
<1>2. /\ InArray(waiting) /\ waiting.avail \in Nat
      /\ Bytes(waiting, waiting.avail) \in Seq(Byte)
      /\ Len(Bytes(waiting, waiting.avail)) = waiting.avail
      /\ wire \in Seq(Byte) /\ hello \in Seq(Byte)
  BY EntryFacts
<1>3. /\ verdict = "none" /\ sent = <<>> /\ handled = <<>> /\ (hup => hello = <<>>)
      /\ Bytes(waiting, waiting.avail) \o wire = hello
  BY <1>1 DEF IInv, EntryInv, EntryFresh, EntryHolds
<1>4. /\ SubSeq(wire, 1, n) \in Seq(Byte) /\ Len(SubSeq(wire, 1, n)) = n
      /\ wire' \in Seq(Byte) /\ Len(wire') = Len(wire) - n
      /\ wire = SubSeq(wire, 1, n) \o wire'
  BY <1>1, <1>2, CutWire
<1>5. /\ InArray(b) /\ b.off = 0 /\ b.avail = waiting.avail + n
      /\ Bytes(b, b.avail) = Bytes(waiting, waiting.avail) \o SubSeq(wire, 1, n)
  BY <1>1, <1>2, <1>4, ReceivedBytes
<1>6. PICK p \in Seq(Byte) : p = Bytes(b, b.avail)
  BY <1>2, <1>4, <1>5, ConcatProperties
<1>. HIDE DEF b
<1>7. p \o wire' = hello /\ Len(p) = b.avail
  <2>1. PICK u \in Seq(Byte), v \in Seq(Byte), w \in Seq(Byte) :
            u = Bytes(waiting, waiting.avail) /\ v = SubSeq(wire, 1, n) /\ w = wire'
    BY <1>2, <1>4
  <2>2. u \o (v \o w) = hello /\ p = u \o v /\ Len(u) = waiting.avail /\ Len(v) = n
    BY <1>2, <1>3, <1>4, <1>5, <1>6, <2>1
  <2>3. (u \o v) \o w = u \o (v \o w) /\ Len(u \o v) = Len(u) + Len(v)
    BY <2>1
  <2>. QED BY <1>5, <2>1, <2>2, <2>3
<1>8. Len(hello) = b.avail + Len(wire') /\ b.avail \in Nat /\ b.avail > 0 /\ Len(wire') \in Nat
  <2>1. Len(hello) = Len(p) + Len(wire') /\ Len(wire') \in Nat
    BY <1>4, <1>6, <1>7, ConcatProperties, LenProperties
  <2>2. n >= 1 /\ waiting.avail \in Nat /\ b.avail = waiting.avail + n
    BY <1>2, <1>5
  <2>3. Len(p) = b.avail
    BY <1>7
  <2>. QED BY <2>1, <2>2, <2>3
<1>9. hello \in Hello /\ Len(hello) = HelloSize /\ ~hup
  <2>1. hello # <<>>
    BY <1>8, EmptySeq
  <2>. QED BY <1>3, <2>1, MessageAssumption DEF IInv, TypeOK
<1>10. CASE b.avail < HelloSize
  <2>1. waiting' = b /\ at' = at /\ slot' = slot /\ verdict' = verdict
    <3>1. ~(b.avail >= HelloSize)
      BY <1>8, <1>10 DEF HelloSize
    <3>. QED BY <3>1 DEF RecvHello, b
  <2>2. TypeOK' /\ HistoriesTyped'
    BY <1>1, <1>4, <1>5, <2>1 DEF IInv, TypeOK, HistoriesTyped, InArray
  <2>3. EntryInv'
    BY <1>1, <1>3, <1>5, <1>6, <1>7, <1>9, <1>10, <2>1
    DEF EntryInv, EntryShort, EntryClean, EntryFresh, EntryHolds, HelloJudged
  <2>4. SlotInv'
    BY <1>1, <2>1 DEF SlotInv, AtRest, HeadersWhole, HandledFirst, NothingLost
  <2>. QED BY <2>2, <2>3, <2>4 DEF IInv
<1>11. CASE b.avail >= HelloSize
  <2>1. b.avail = HelloSize /\ wire' = <<>> /\ Bytes(b, HelloSize) = hello
    <3>1. b.avail = HelloSize /\ Len(wire') = 0
      BY <1>8, <1>9, <1>11 DEF HelloSize
    <3>2. wire' = <<>>
      BY <1>4, <3>1, EmptySeq
    <3>. QED BY <1>6, <1>7, <3>1, <3>2, ConcatEmptySeq
  <2>2. PICK c : c = [b EXCEPT !.off = 0, !.avail = 0]
    OBVIOUS
  <2>3. c \in Buffer /\ c.off = 0 /\ c.avail = 0
    <3>1. b.data \in [Index -> Byte] /\ b = [data |-> b.data, off |-> b.off, avail |-> b.avail]
      BY <1>5 DEF InArray, Buffer
    <3>2. c = [data |-> b.data, off |-> 0, avail |-> 0]
      BY <2>2, <3>1
    <3>. QED BY <3>1, <3>2, BoundsAssumption DEF Buffer
  <2>4. waiting' = c /\ \/ at' = "slot" /\ slot' = Empty /\ verdict' = "accepted" /\ hello \in GoodHello
                        \/ at' = "none" /\ slot' = slot /\ verdict' = "refused" /\ hello \notin GoodHello
    <3>1. ~(b.avail < HelloSize)
      BY <2>1 DEF HelloSize
    <3>. QED BY <2>1, <2>2, <3>1 DEF RecvHello, b, Answered, Moved
  <2>5. InArray(Empty) /\ Empty.avail = 0 /\ Bytes(Empty, 0) = <<>>
    BY EmptyBuffer
  <2>6. TypeOK' /\ HistoriesTyped'
    <3>1. slot' \in Buffer /\ slot'.off + slot'.avail <= INPUT_BUFFER_SIZE
      BY <2>4, <2>5 DEF IInv, TypeOK, InArray
    <3>2. scanning' = FALSE
      BY <1>1 DEF IInv, TypeOK
    <3>3. waiting' \in Buffer /\ waiting'.off + waiting'.avail <= INPUT_BUFFER_SIZE
      BY <2>3, <2>4, BoundsAssumption
    <3>4. /\ at' \in {"none", "waiting", "slot"} /\ verdict' \in {"none", "accepted", "refused"}
          /\ hup' \in BOOLEAN /\ hello' \in Hello \cup {<<>>} /\ sent' \in Seq(Message)
      BY <1>1, <2>4 DEF IInv, TypeOK, HistoriesTyped
    <3>. QED BY <1>4, <3>1, <3>2, <3>3, <3>4 DEF TypeOK, HistoriesTyped
  <2>7. EntryInv'
    <3>1. (EntryShort /\ EntryClean)'
      BY <2>3, <2>4 DEF EntryShort, EntryClean, HelloSize
    <3>2. (EntryFresh /\ EntryHolds)'
      BY <2>4 DEF EntryFresh, EntryHolds
    <3>3. HelloJudged'
      BY <1>1, <2>4 DEF HelloJudged
    <3>. QED BY <3>1, <3>2, <3>3 DEF EntryInv
  <2>8. SlotInv'
    <3>1. SUFFICES ASSUME at' = "slot" PROVE SlotInv'
      BY DEF SlotInv, AtRest, HeadersWhole, HandledFirst, NothingLost
    <3>2. slot' = Empty /\ sent' = <<>> /\ handled' = <<>> /\ wire' = <<>>
      BY <1>1, <1>3, <2>1, <2>4, <3>1
    <3>3. AtRest'
      BY <2>5, <3>2 DEF AtRest
    <3>4. HeadersWhole'
      BY <3>2 DEF HeadersWhole, CutsHeader
    <3>5. HandledFirst'
      <4>1. SubSeq(<<>>, 1, 0) = <<>> /\ Len(<<>>) = 0
        BY SubSeqEmpty, EmptySeq
      <4>. QED BY <3>2, <4>1 DEF HandledFirst
    <3>6. NothingLost'
      BY <2>5, <3>2, FlattenEmpty, ConcatEmptySeq, EmptySeq DEF NothingLost
    <3>. QED BY <3>3, <3>4, <3>5, <3>6 DEF SlotInv
  <2>. QED BY <2>6, <2>7, <2>8 DEF IInv
<1>. QED BY <1>5, <1>8, <1>10, <1>11 DEF HelloSize

LEMMA WaitingRecvFailsInv ==
    ASSUME IInv, WaitingRecvFails
    PROVE  IInv'
<1>1. waiting.avail = 0
  BY BeforeHello DEF IInv, EntryInv, EntryHolds, WaitingRecvFails
<1>2. scanning = FALSE
  BY DEF IInv, TypeOK, WaitingRecvFails
<1>3. TypeOK' /\ HistoriesTyped'
  BY <1>2 DEF IInv, TypeOK, HistoriesTyped, WaitingRecvFails, network
<1>4. EntryInv'
  BY <1>1 DEF IInv, EntryInv, EntryShort, EntryClean, EntryFresh, EntryHolds, HelloJudged,
              WaitingRecvFails, network
<1>5. SlotInv'
  BY DEF SlotInv, AtRest, HeadersWhole, HandledFirst, NothingLost, WaitingRecvFails
<1>. QED BY <1>3, <1>4, <1>5 DEF IInv

-----------------------------------------------------------------------------
(* The steps of the server: the slot.                                      *)

\* None of them touches the entry.
LEMMA EntryUntouched ==
    ASSUME IInv, at = "slot", at' \in {"slot", "none"}, waiting' = waiting,
           verdict' = verdict, hello' = hello
    PROVE  EntryInv'
BY DEF IInv, EntryInv, EntryShort, EntryClean, EntryFresh, EntryHolds, HelloJudged

LEMMA SlotReset ==
    ASSUME IInv, slot' = [slot EXCEPT !.off = 0]
    PROVE  slot' \in Buffer /\ slot'.off + slot'.avail <= INPUT_BUFFER_SIZE
<1>1. /\ slot.data \in [Index -> Byte] /\ slot.avail \in 0..INPUT_BUFFER_SIZE
      /\ slot = [data |-> slot.data, off |-> slot.off, avail |-> slot.avail]
  BY DEF IInv, TypeOK, Buffer
<1>2. slot' = [data |-> slot.data, off |-> 0, avail |-> slot.avail]
  BY <1>1
<1>. QED BY <1>1, <1>2, BoundsAssumption DEF Buffer

LEMMA RecvSlotInv ==
    ASSUME IInv, NoTrouble, NEW n \in 1..INPUT_BUFFER_SIZE, RecvSlot(n)
    PROVE  IInv'
<1> DEFINE b == Received(slot, SubSeq(wire, 1, n))
<1>1. /\ at = "slot" /\ at' = at /\ n \in 1..Len(wire) /\ n <= Room(slot)
      /\ wire' = SubSeq(wire, n + 1, Len(wire)) /\ slot' = b /\ scanning' = TRUE
      /\ hup' = hup /\ hello' = hello /\ sent' = sent
      /\ waiting' = waiting /\ handled' = handled /\ verdict' = verdict
      /\ ~CutsHeader(Len(FlattenSeq(sent)) - Len(wire) + n)
  BY DEF RecvSlot, Recv, NoTrouble
<1>2. /\ InArray(slot) /\ slot.avail \in Nat /\ wire \in Seq(Byte)
      /\ sent \in Seq(Message) /\ FlattenSeq(sent) \in Seq(Byte) /\ FlattenSeq(handled) \in Seq(Byte)
      /\ Bytes(slot, slot.avail) \in Seq(Byte)
  BY <1>1, SlotFacts
<1>3. /\ SubSeq(wire, 1, n) \in Seq(Byte) /\ Len(SubSeq(wire, 1, n)) = n
      /\ wire' \in Seq(Byte) /\ Len(wire') = Len(wire) - n
      /\ wire = SubSeq(wire, 1, n) \o wire'
  BY <1>1, <1>2, CutWire
<1>4. /\ InArray(b) /\ b.off = 0 /\ b.avail = slot.avail + n
      /\ Bytes(b, b.avail) = Bytes(slot, slot.avail) \o SubSeq(wire, 1, n)
  BY <1>1, <1>2, <1>3, ReceivedBytes
<1>. HIDE DEF b
<1>5. TypeOK' /\ HistoriesTyped'
  <2>1. slot'.avail > 0
    BY <1>1, <1>2, <1>4
  <2>. QED BY <1>1, <1>3, <1>4, <2>1 DEF IInv, TypeOK, HistoriesTyped, InArray
<1>6. EntryInv'
  BY <1>1, EntryUntouched
<1>7. AtRest' /\ HandledFirst'
  BY <1>1 DEF IInv, SlotInv, AtRest, HandledFirst
<1>8. HeadersWhole'
  <2>1. Len(FlattenSeq(sent)) \in Nat /\ Len(wire) \in Nat
    BY <1>2, LenProperties
  <2>2. Len(FlattenSeq(sent)) - Len(wire') = Len(FlattenSeq(sent)) - Len(wire) + n
    BY <1>3, <2>1
  <2>. QED BY <1>1, <2>2 DEF HeadersWhole, CutsHeader
<1>9. NothingLost'
  <2>1. PICK x \in Seq(Byte), y \in Seq(Byte), u \in Seq(Byte), w \in Seq(Byte) :
            /\ x = FlattenSeq(handled) /\ y = Bytes(slot, slot.avail)
            /\ u = SubSeq(wire, 1, n) /\ w = wire'
    BY <1>2, <1>3
  <2>2. PICK z : z = FlattenSeq(sent)
    OBVIOUS
  <2>3. Joins(x, y, wire, z) /\ wire = u \o w
    BY <1>1, <1>3, <2>1, <2>2 DEF IInv, SlotInv, NothingLost, Joins
  <2>4. Joins(x, y \o u, w, z)
    BY <2>3, MoveBoundary
  <2>. QED BY <1>1, <1>4, <2>1, <2>2, <2>4 DEF NothingLost, Joins
<1>. QED BY <1>5, <1>6, <1>7, <1>8, <1>9 DEF IInv, SlotInv

LEMMA RecvFailsInv ==
    ASSUME IInv, RecvFails
    PROVE  IInv'
<1>1. /\ at = "slot" /\ at' = "none" /\ scanning = FALSE /\ scanning' = scanning
      /\ slot' = [slot EXCEPT !.off = 0] /\ waiting' = waiting /\ verdict' = verdict
      /\ hup' = hup /\ wire' = wire /\ hello' = hello /\ sent' = sent
  BY DEF RecvFails, network, IInv, TypeOK
<1>2. slot' \in Buffer /\ slot'.off + slot'.avail <= INPUT_BUFFER_SIZE
  BY <1>1, SlotReset
<1>3. TypeOK' /\ HistoriesTyped'
  BY <1>1, <1>2 DEF IInv, TypeOK, HistoriesTyped
<1>4. EntryInv'
  BY <1>1, EntryUntouched
<1>5. SlotInv'
  BY <1>1 DEF SlotInv, AtRest, HeadersWhole, HandledFirst, NothingLost
<1>. QED BY <1>3, <1>4, <1>5 DEF IInv

LEMMA HandleFailsInv ==
    ASSUME IInv, HandleFails
    PROVE  IInv'
<1>1. /\ at = "slot" /\ at' = "none" /\ scanning' = FALSE
      /\ slot' \in {slot, [slot EXCEPT !.off = 0]} /\ waiting' = waiting /\ verdict' = verdict
      /\ hup' = hup /\ wire' = wire /\ hello' = hello /\ sent' = sent
  BY DEF HandleFails, Scanning, network
<1>2. slot' \in Buffer /\ slot'.off + slot'.avail <= INPUT_BUFFER_SIZE
  <2>1. CASE slot' = slot
    BY <2>1 DEF IInv, TypeOK
  <2>. QED BY <1>1, <2>1, SlotReset
<1>3. TypeOK' /\ HistoriesTyped'
  BY <1>1, <1>2 DEF IInv, TypeOK, HistoriesTyped
<1>4. EntryInv'
  BY <1>1, EntryUntouched
<1>5. SlotInv'
  BY <1>1 DEF SlotInv, AtRest, HeadersWhole, HandledFirst, NothingLost
<1>. QED BY <1>3, <1>4, <1>5 DEF IInv

\* The loop stops in front of an unknown type, or where a message has begun.
LEMMA ScanStopsInv ==
    ASSUME IInv, InvalidMessage \/ ShortRead
    PROVE  IInv'
<1>1. /\ at = "slot" /\ at' = at /\ scanning /\ scanning' = FALSE /\ slot' = slot
      /\ waiting' = waiting /\ verdict' = verdict /\ handled' = handled
      /\ hup' = hup /\ wire' = wire /\ hello' = hello /\ sent' = sent
  BY DEF InvalidMessage, ShortRead, Scanning, network
<1>2. TypeOK' /\ HistoriesTyped'
  BY <1>1 DEF IInv, TypeOK, HistoriesTyped
<1>3. EntryInv'
  BY <1>1, EntryUntouched
<1>4. HeadersWhole' /\ HandledFirst' /\ NothingLost'
  BY <1>1 DEF IInv, SlotInv, HeadersWhole, CutsHeader, HandledFirst, NothingLost
<1>5. AtRest'
  <2>1. TypeByte(slot) \notin Known \/ Incomplete(slot)
    <3>1. CASE InvalidMessage
      <4>1. get_size_from_command(slot) < 0
        BY <3>1 DEF InvalidMessage
      <4>2. slot.avail > 0
        BY <1>1 DEF IInv, TypeOK
      <4>3. PICK m \in Message, rest \in Seq(Byte) : Heads(m, rest)
        BY <1>1, <4>2, SlotHead
      <4>4. Len(m) \in Nat
        BY MessageAssumption, LenProperties
      <4>. QED BY <4>1, <4>3, <4>4 DEF Heads
    <3>2. CASE ShortRead
      BY <3>2 DEF ShortRead
    <3>. QED BY <3>1, <3>2
  <2>. QED BY <1>1, <2>1 DEF AtRest
<1>. QED BY <1>2, <1>3, <1>4, <1>5 DEF IInv, SlotInv

\* A handler takes the next message, the whole of it and nothing else.
LEMMA HandleInv ==
    ASSUME IInv, Handle
    PROVE  IInv'
<1>1. /\ at = "slot" /\ at' = at /\ scanning
      /\ waiting' = waiting /\ verdict' = verdict
      /\ hup' = hup /\ wire' = wire /\ hello' = hello /\ sent' = sent
      /\ get_size_from_command(slot) >= 0 /\ ~Incomplete(slot)
      /\ scanning' \in BOOLEAN /\ (scanning' <=> slot'.avail > 0)
  <2>1. scanning' = ScansOn(slot')
    BY DEF Handle
  <2>2. scanning' \in BOOLEAN /\ (scanning' <=> slot'.avail > 0)
    <3>1. scanning' = (slot'.avail > 0)
      BY <2>1, Zenon DEF ScansOn
    <3>2. scanning' \in BOOLEAN
      <4>1. (slot'.avail > 0) \in BOOLEAN
        OBVIOUS
      <4>. QED BY <3>1, <4>1, Zenon
    <3>3. CASE slot'.avail > 0
      BY <3>1, <3>2, <3>3, Zenon
    <3>4. CASE ~(slot'.avail > 0)
      BY <3>1, <3>2, <3>4, Zenon
    <3>. QED BY <3>2, <3>3, <3>4
  <2>. QED BY <2>2 DEF Handle, Scanning, network
<1>2. slot.avail > 0
  BY <1>1 DEF IInv, TypeOK
<1>3. /\ InArray(slot) /\ slot.avail \in Nat /\ wire \in Seq(Byte)
      /\ sent \in Seq(Message) /\ handled \in Seq(Message)
      /\ FlattenSeq(sent) \in Seq(Byte) /\ FlattenSeq(handled) \in Seq(Byte)
      /\ Bytes(slot, slot.avail) \in Seq(Byte)
  BY <1>1, SlotFacts
<1>4. PICK m \in Message, rest \in Seq(Byte) : Heads(m, rest)
  BY <1>1, <1>2, SlotHead
<1>5. m \in Seq(Byte) /\ Len(m) \in Nat
  BY MessageAssumption, LenProperties
<1>6. slot.avail >= Len(m) /\ Used(slot) = {Len(m)}
  <2>1. TypeByte(slot) \in Known
    <3>1. SUFFICES ASSUME TypeByte(slot) \notin Known PROVE FALSE
      OBVIOUS
    <3>2. get_size_from_command(slot) = -1
      BY <3>1, LengthAssumption DEF get_size_from_command
    <3>. QED BY <1>1, <3>2
  <2>2. get_size_from_command(slot) = Len(m)
    BY <1>4, <2>1 DEF Heads
  <2>. QED BY <1>1, <1>3, <1>4, <1>5, <2>1, <2>2 DEF Heads, Incomplete
<1>7. slot' = Advance(slot, Len(m)) /\ handled' = Append(handled, Bytes(slot, Len(m)))
  BY <1>6 DEF Handle
<1>8. /\ InArray(slot') /\ slot'.avail = slot.avail - Len(m)
      /\ Bytes(slot, slot.avail) = Bytes(slot, Len(m)) \o Bytes(slot', slot'.avail)
  <2>1. Len(m) \in 0..slot.avail
    BY <1>3, <1>5, <1>6
  <2>2. PICK a : a = Advance(slot, Len(m))
    OBVIOUS
  <2>3. /\ InArray(a) /\ a.avail = slot.avail - Len(m)
        /\ Bytes(slot, slot.avail) = Bytes(slot, Len(m)) \o Bytes(a, a.avail)
    BY <1>3, <2>1, <2>2, AdvancedBytes, Zenon
  <2>. QED BY <1>7, <2>2, <2>3
<1>9. PICK p \in Seq(Byte), q \in Seq(Byte) :
          p = Bytes(slot, Len(m)) /\ q = Bytes(slot', slot'.avail) /\ Len(p) = Len(m)
  <2>1. slot \in Buffer /\ slot.off + Len(m) <= INPUT_BUFFER_SIZE
    BY <1>3, <1>5, <1>6, BoundsAssumption DEF InArray, Buffer
  <2>2. Bytes(slot, Len(m)) \in Seq(Byte) /\ Len(Bytes(slot, Len(m))) = Len(m)
    BY <1>5, <2>1, BytesOf, Zenon
  <2>3. slot' \in Buffer /\ slot'.avail \in Nat /\ slot'.off + slot'.avail <= INPUT_BUFFER_SIZE
    BY <1>8, BoundsAssumption DEF InArray, Buffer
  <2>4. Bytes(slot', slot'.avail) \in Seq(Byte)
    BY <2>3, BytesOf, Zenon
  <2>. QED BY <2>2, <2>4
<1>10. p = m
  <2>1. (p \o q) \o wire = m \o rest
    BY <1>4, <1>8, <1>9 DEF Heads
  <2>2. PICK z : z = m \o rest
    OBVIOUS
  <2>3. Joins(p, q, wire, z)
    BY <2>1, <2>2 DEF Joins
  <2>4. p \o (q \o wire) = z /\ q \o wire \in Seq(Byte)
    BY <1>3, <2>3, JoinsRight
  <2>5. PICK v \in Seq(Byte) : p \o v = m \o rest
    BY <2>2, <2>4
  <2>. QED BY <1>5, <1>9, <2>5, SameBeginning
<1>11. TypeOK' /\ HistoriesTyped'
  <2>1. slot' \in Buffer /\ slot'.off + slot'.avail <= INPUT_BUFFER_SIZE
    BY <1>8 DEF InArray
  <2>. QED BY <1>1, <2>1 DEF IInv, TypeOK, HistoriesTyped
<1>12. EntryInv'
  BY <1>1, EntryUntouched
<1>13. AtRest'
  BY <1>1 DEF AtRest
<1>14. HeadersWhole'
  BY <1>1 DEF IInv, SlotInv, HeadersWhole, CutsHeader
<1>15. handled' = Append(handled, m)
  BY <1>7, <1>9, <1>10
<1>16. HandledFirst'
  <2>1. PICK h \in Nat : h = Len(handled) /\ h < Len(sent) /\ m = sent[h + 1]
                         /\ handled = SubSeq(sent, 1, h) /\ Len(sent) \in Nat
    BY <1>1, <1>3, <1>4, LenProperties DEF Heads, IInv, SlotInv, HandledFirst
  <2>2. Len(handled') = h + 1
    BY <1>3, <1>15, <2>1, AppendProperties
  <2>3. SubSeq(sent, 1, h + 1) = SubSeq(sent, 1, h) \o <<sent[h + 1]>>
    <3>1. h + 1 \in 1..Len(sent) /\ 1 \in 1..Len(sent) /\ (h + 1) - 1 = h
      BY <2>1
    <3>. QED BY <1>3, <3>1, SubSeqRecursiveSecond
  <2>4. Append(handled, m) = handled \o <<m>>
    BY <1>3, AppendIsConcat
  <2>. QED BY <1>1, <1>15, <2>1, <2>2, <2>3, <2>4 DEF HandledFirst
<1>17. NothingLost'
  <2>1. FlattenSeq(handled') = FlattenSeq(handled) \o m
    BY <1>3, <1>5, <1>15, Histories, FlattenAppend
  <2>2. PICK x \in Seq(Byte) : x = FlattenSeq(handled)
    BY <1>3
  <2>3. PICK g, z : g = Bytes(slot, slot.avail) /\ z = FlattenSeq(sent)
    OBVIOUS
  <2>4. Joins(x, g, wire, z) /\ g = m \o q
    BY <1>1, <1>8, <1>9, <1>10, <2>2, <2>3 DEF IInv, SlotInv, NothingLost, Joins
  <2>5. Joins(x \o m, q, wire, z)
    <3>1. m \in Seq(Byte) /\ wire \in Seq(Byte)
      BY <1>3, <1>5
    <3>. QED BY <2>4, <3>1, MoveFront
  <2>. QED BY <1>1, <1>9, <2>1, <2>2, <2>3, <2>5 DEF NothingLost, Joins
<1>. QED BY <1>11, <1>12, <1>13, <1>14, <1>16, <1>17 DEF IInv, SlotInv

-----------------------------------------------------------------------------
(* The invariant.                                                          *)

LEMMA StutterInv ==
    ASSUME IInv, UNCHANGED vars
    PROVE  IInv'
<1>1. TypeOK' /\ HistoriesTyped'
  BY DEF IInv, TypeOK, HistoriesTyped, vars, server, network
<1>2. EntryInv'
  BY DEF IInv, EntryInv, EntryShort, EntryClean, EntryFresh, EntryHolds, HelloJudged,
         vars, server, network
<1>3. SlotInv'
  BY DEF IInv, SlotInv, AtRest, HeadersWhole, CutsHeader, HandledFirst, NothingLost,
         vars, server, network
<1>. QED BY <1>1, <1>2, <1>3 DEF IInv

LEMMA NextInv ==
    ASSUME NoTrouble, IInv, [Next]_vars
    PROVE  IInv'
<1>1. CASE Connect
  BY <1>1, ConnectInv
<1>2. CASE PeerClose
  BY <1>2, PeerCloseInv
<1>3. ASSUME NEW h \in Hello, SendHello(h) PROVE IInv'
  BY <1>3, SendHelloInv
<1>4. ASSUME NEW m \in Message, SendMessage(m) PROVE IInv'
  BY <1>4, SendMessageInv
<1>5. ASSUME NEW n \in 1..INPUT_BUFFER_SIZE, RecvHello(n) PROVE IInv'
  BY <1>5, RecvHelloInv
<1>6. ASSUME NEW n \in 1..INPUT_BUFFER_SIZE, RecvSlot(n) PROVE IInv'
  BY <1>6, RecvSlotInv
<1>7. CASE WaitingRecvFails
  BY <1>7, WaitingRecvFailsInv
<1>8. CASE RecvFails
  BY <1>8, RecvFailsInv
<1>9. CASE InvalidMessage \/ ShortRead
  BY <1>9, ScanStopsInv
<1>10. CASE Handle
  BY <1>10, HandleInv
<1>11. CASE HandleFails
  BY <1>11, HandleFailsInv
<1>12. CASE UNCHANGED vars
  BY <1>12, StutterInv
<1>. QED BY <1>1, <1>2, <1>3, <1>4, <1>5, <1>6, <1>7, <1>8, <1>9, <1>10, <1>11, <1>12
         DEF Next, Client, Server

\* The inductive invariant holds as long as nobody splits a header or gives up
\* a HELLO.
THEOREM Invariant == ASSUME NoTrouble PROVE Spec => []IInv
<1>1. IInv /\ [Next]_vars => IInv'
  BY NextInv
<1>. QED BY InitInv, <1>1, PTL DEF Spec

\* The pointer arithmetic of recv_data() and client_data() stays in the array.
THEOREM TypesHold == ASSUME NoTrouble PROVE Spec => []TypeOK
<1>1. IInv => TypeOK
  BY DEF IInv
<1>. QED BY Invariant, <1>1, PTL

\* recv_data() and client_data() lose, repeat and move no byte of the stream.
THEOREM NoByteLost == ASSUME NoTrouble PROVE Spec => []NothingLost
<1>1. IInv => NothingLost
  BY DEF IInv, SlotInv
<1>. QED BY Invariant, <1>1, PTL

\* Handlers run on the messages of the client, each whole, in the order sent.
THEOREM MessagesAsSent == ASSUME NoTrouble PROVE Spec => []HandledAsSent
<1>1. ASSUME IInv PROVE HandledAsSent
  <2>1. SUFFICES ASSUME at = "slot" PROVE IsPrefix(handled, sent)
    BY DEF HandledAsSent
  <2>2. Len(handled) <= Len(sent) /\ handled = SubSeq(sent, 1, Len(handled))
    BY <1>1, <2>1 DEF IInv, SlotInv, HandledFirst
  <2>3. handled = SubSeq(sent, 1, Len(handled)) /\ Len(handled) <= Len(sent)
    BY <2>2
  <2>. QED BY <2>3 DEF IsPrefix
<1>. QED BY Invariant, <1>1, PTL

\* A full buffer at rest begins with a byte that is no type: a message the
\* server knows fits into it.
THEOREM RestFits == ASSUME NoTrouble PROVE Spec => []RoomForTheRest
<1>1. ASSUME IInv PROVE RoomForTheRest
  <2>1. SUFFICES ASSUME at = "slot", ~scanning, Room(slot) = 0, TypeByte(slot) \in Known
                 PROVE  FALSE
    BY DEF RoomForTheRest
  <2>2. slot.avail \in Nat
    BY <1>1, <2>1, SlotFacts
  <2>3. slot.avail = INPUT_BUFFER_SIZE /\ slot.avail > 0
    BY <2>1, <2>2, BoundsAssumption DEF Room, HelloSize
  <2>4. PICK m \in Message, rest \in Seq(Byte) : Heads(m, rest)
    BY <1>1, <2>1, <2>3, SlotHead
  <2>5. get_size_from_command(slot) = Len(m) /\ Len(m) \in 1..INPUT_BUFFER_SIZE
    BY <2>1, <2>4, MessageAssumption DEF Heads
  <2>6. Incomplete(slot)
    BY <1>1, <2>1, <2>3 DEF IInv, SlotInv, AtRest
  <2>. QED BY <2>3, <2>5, <2>6, BoundsAssumption DEF Incomplete
<1>. QED BY Invariant, <1>1, PTL

\* client_hello() judges the HELLO of its connection and no other's.
THEOREM JudgedAsSent == ASSUME NoTrouble PROVE Spec => []HelloJudged
<1>1. IInv => HelloJudged
  BY DEF IInv, EntryInv
<1>. QED BY Invariant, <1>1, PTL

=============================================================================
