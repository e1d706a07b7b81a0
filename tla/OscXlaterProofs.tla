-------------------------- MODULE OscXlaterProofs --------------------------
(* Proofs about OscXlater, for every table of controls and every set of    *)
(* OSC paths and answers.                                                  *)
EXTENDS OscXlater, TLAPS, WellFoundedInduction

\* The least number of a set is a member of it.
LEMMA MinIsMember ==
    ASSUME NEW S, S \subseteq Nat, S # {}
    PROVE  Min(S) \in S /\ \A n \in S : Min(S) <= n
<1> DEFINE Less == {p \in Nat \X Nat : p[1] < p[2]}
<1>1. IsWellFoundedOn(Less, Nat)
  BY NatLessThanWellFounded DEF OpToRel
<1>2. PICK m \in S : \A n \in S : ~(<<n, m>> \in Less)
  BY <1>1, WFMin
<1>3. ASSUME NEW n \in S PROVE m <= n
  <2>1. CASE n < m
    <3>1. <<n, m>> \in Nat \X Nat /\ <<n, m>>[1] = n /\ <<n, m>>[2] = m
      OBVIOUS
    <3>2. <<n, m>> \in Less
      BY <3>1, <2>1
    <3>. QED BY <3>2, <1>2
  <2>. QED BY <2>1
<1>. QED BY <1>3 DEF Min

-----------------------------------------------------------------------------
(* The inductive invariant.                                                *)

Mapping == [control : Controls, path : Path]

MappingsTyped == osc_controls \in Seq(Mapping) /\ choice \in [Controls -> Key \cup {NULL}]

\* The inner loop runs for a control that exists.
AtControl == pc \in {"wait", "select", "decide"} => current_control \in Controls

\* What is recorded is behind current_control, so what is read next is not for
\* it.
RecordedBefore ==
    \A i \in DOMAIN osc_controls : osc_controls[i].control < current_control

\* A path comes from a packet heard for this control, and that packet, or what
\* was read after it, is what the buffer holds.
PathHeard ==
    pc \in {"wait", "select", "decide"} /\ current_path # NULL
        => choice[current_control] = buffer

\* The setup describes or requests nothing, or requests every key.
Announced ==
    requested \cup described = {} \/ KeyCodes \subseteq requested

MappingInv ==
    /\ MappingsTyped /\ AtControl /\ RecordedBefore
    /\ PathHeard /\ MappedIfConfirmed

IInv == TypeOK /\ MappingInv /\ Announced

-----------------------------------------------------------------------------
(* Lemmas about the tables.                                                *)

LEMMA Element ==
    ASSUME NEW S, NEW seq \in Seq(S), NEW n \in DOMAIN seq
    PROVE  seq[n] \in S
OBVIOUS

LEMMA Appended ==
    ASSUME NEW S, NEW seq \in Seq(S), NEW e \in S
    PROVE  /\ Append(seq, e) \in Seq(S)
           /\ DOMAIN Append(seq, e) = DOMAIN seq \cup {Len(seq) + 1}
           /\ \A n \in DOMAIN seq : Append(seq, e)[n] = seq[n]
           /\ Append(seq, e)[Len(seq) + 1] = e
OBVIOUS

LEMMA ControlsInterval ==
    Len(gamepad_controls) \in Nat /\ Controls = 1..Len(gamepad_controls)
BY ControlsAssumption DEF Controls

\* A control's codes are a sequence, and some of all the codes.
LEMMA CodesOfControl ==
    ASSUME NEW k \in Controls
    PROVE  /\ Codes(k) \in Seq(STRING)
           /\ ToSet(Codes(k)) \subseteq AllCodes
<1>1. gamepad_controls[k] \in [type : STRING, codes : Seq(STRING)]
  BY ControlsAssumption, Element DEF Controls
<1>2. Codes(k) \in Seq(STRING)
  BY <1>1 DEF Codes
<1>3. ToSet(Codes(k)) \subseteq AllCodes
  BY DEF AllCodes
<1>. QED BY <1>2, <1>3

\* enable_codes() requests every key.
LEMMA EnableCodesAnnounces ==
    ASSUME EnableCodes
    PROVE  KeyCodes \subseteq requested'
BY DEF EnableCodes, KeyCodes

\* What a packet is translated to, whole or cut short, are codes of the table.
LEMMA TranslationOfCodes ==
    ASSUME MappingsTyped, NEW path
    PROVE  /\ Translation(path) \in Seq(AllCodes \cup {"SYN_REPORT"})
           /\ ToSet(Translation(path)) \subseteq AllCodes \cup {"SYN_REPORT"}
           /\ \A part \in Prefixes(Translation(path)) :
                 ToSet(part) \subseteq AllCodes \cup {"SYN_REPORT"}
<1>1. CASE Matches(path) = {}
  BY <1>1 DEF Translation, ToSet, Prefixes
<1>2. CASE Matches(path) # {}
  <2> DEFINE m == Min(Matches(path))
             k == osc_controls[m].control
  <2>1. Matches(path) \subseteq DOMAIN osc_controls /\ DOMAIN osc_controls \subseteq Nat
    BY DEF Matches, MappingsTyped
  <2>2. m \in DOMAIN osc_controls
    BY <2>1, <1>2, MinIsMember
  <2> HIDE DEF m
  <2>3. osc_controls[m] \in Mapping
    BY <2>2, Element DEF MappingsTyped
  <2>8. k \in Controls
    BY <2>3 DEF Mapping
  <2>4. Translation(path) = Append(Codes(k), "SYN_REPORT")
    BY <1>2 DEF Translation, m
  <2> HIDE DEF k
  <2>5. Codes(k) \in Seq(STRING) /\ ToSet(Codes(k)) \subseteq AllCodes
    BY <2>8, CodesOfControl
  <2>6. /\ Translation(path) \in Seq(AllCodes \cup {"SYN_REPORT"})
        /\ \A i \in DOMAIN Translation(path) : Translation(path)[i] \in AllCodes \cup {"SYN_REPORT"}
    <3>1. Codes(k) \in Seq(AllCodes \cup {"SYN_REPORT"})
      BY <2>5 DEF ToSet
    <3>2. Translation(path) \in Seq(AllCodes \cup {"SYN_REPORT"})
      BY <2>4, <3>1, Appended
    <3>. QED BY <3>2, Element
  <2>7. ASSUME NEW part \in Prefixes(Translation(path))
        PROVE  ToSet(part) \subseteq AllCodes \cup {"SYN_REPORT"}
    <3>1. PICK l \in 0..Len(Translation(path)) : part = SubSeq(Translation(path), 1, l)
      BY DEF Prefixes
    <3>2. \A i \in DOMAIN part : i \in DOMAIN Translation(path) /\ part[i] = Translation(path)[i]
      BY <3>1, <2>6
    <3>. QED BY <3>2, <2>6 DEF ToSet
  <2>. QED BY <2>6, <2>7 DEF ToSet
<1>. QED BY <1>1, <1>2

-----------------------------------------------------------------------------
(* The initial states.                                                     *)

LEMMA InitInvariant == Init => IInv
<1> SUFFICES ASSUME Init PROVE IInv
  OBVIOUS
<1>. USE DEF Init
<1>1. TypeOK
  <2>1. 1 \in 1..Len(gamepad_controls) + 1
    BY ControlsInterval
  <2>2. ToSet(out) = {}
    BY DEF ToSet
  <2>. QED BY <2>1, <2>2 DEF TypeOK, Key
<1>2. MappingsTyped /\ RecordedBefore /\ MappedIfConfirmed
  BY DEF MappingsTyped, RecordedBefore, MappedIfConfirmed
<1>3. AtControl /\ PathHeard
  BY DEF AtControl, PathHeard
<1>4. Announced
  BY DEF Announced
<1>. QED BY <1>1, <1>2, <1>3, <1>4 DEF IInv, MappingInv

-----------------------------------------------------------------------------
(* Steps that leave the mapping alone.                                     *)

\* What the program has configured stays as it is outside configure_mappings().
LEMMA MappingUntouched ==
    ASSUME MappingInv, UNCHANGED mapping,
           pc' = pc \/ pc' \notin {"wait", "select", "decide"}
    PROVE  MappingInv'
<1>1. MappingsTyped' /\ RecordedBefore' /\ MappedIfConfirmed'
  BY DEF MappingInv, MappingsTyped, RecordedBefore, MappedIfConfirmed, mapping
<1>2. AtControl' /\ PathHeard'
  BY DEF MappingInv, AtControl, PathHeard, mapping
<1>. QED BY <1>1, <1>2 DEF MappingInv

LEMMA NegotiateInvariant ==
    ASSUME IInv, Negotiate PROVE IInv'
<1>1. pc' \in {"answer", "verdict", "result", "exited"}
  BY DEF Negotiate, SendHello, SendPassword, SendSetup, SendTo, Goto
<1>2. MappingInv'
  BY <1>1, MappingUntouched DEF IInv, Negotiate
<1>3. TypeOK'
  BY <1>1 DEF IInv, TypeOK, Negotiate, mapping
<1>4. Announced'
  <2>1. CASE SendSetup
    BY <2>1, EnableCodesAnnounces DEF SendSetup, Announced
  <2>2. CASE SendHello \/ SendPassword
    BY <2>2 DEF IInv, Announced, SendHello, SendPassword, negotiation
  <2>. QED BY <2>1, <2>2 DEF Negotiate
<1>. QED BY <1>2, <1>3, <1>4 DEF IInv

LEMMA AnsweredInvariant ==
    ASSUME IInv, Answered PROVE IInv'
<1>1. pc' \in {"password", "setup", "control", "exited"}
  BY DEF Answered, Receive, Recv, Goto
<1>2. UNCHANGED <<mapping, stdin, out, requested, described>>
  BY DEF Answered, Receive, Recv, negotiation
<1>3. MappingInv'
  BY <1>1, <1>2, MappingUntouched DEF IInv
<1>4. TypeOK' /\ Announced'
  BY <1>1, <1>2 DEF IInv, TypeOK, Announced, mapping
<1>. QED BY <1>3, <1>4 DEF IInv

LEMMA LoopInvariant ==
    ASSUME IInv, Loop PROVE IInv'
<1>1. pc' \in {"recv", "exited"} /\ UNCHANGED <<mapping, stdin, out, requested, described>>
  BY DEF Loop, LoopTest, Goto, negotiation
<1>2. MappingInv'
  BY <1>1, MappingUntouched DEF IInv
<1>3. TypeOK' /\ Announced'
  BY <1>1 DEF IInv, TypeOK, Announced, mapping
<1>. QED BY <1>2, <1>3 DEF IInv

\* osc_msg_xlate(): the codes are of the table.
LEMMA TranslateInvariant ==
    ASSUME IInv, Translate \/ BadPacket, UNCHANGED <<negotiation, mapping, stdin>>
    PROVE  IInv'
<1>1. pc' \in {"translate", "exited"}
  BY DEF Translate, BadPacket, Goto
<1>2. MappingInv'
  BY <1>1, MappingUntouched DEF IInv
<1>3. ToSet(out') \subseteq AllCodes \cup {"SYN_REPORT"}
  <2>1. CASE Translate
    BY <2>1, TranslationOfCodes DEF Translate, IInv, MappingInv
  <2>2. CASE BadPacket
    BY <2>2 DEF BadPacket, IInv, TypeOK
  <2>. QED BY <2>1, <2>2
<1>4. TypeOK'
  BY <1>1, <1>3 DEF IInv, TypeOK, mapping
<1>5. Announced'
  BY DEF IInv, Announced, negotiation
<1>. QED BY <1>2, <1>4, <1>5 DEF IInv

LEMMA OutsideInvariant ==
    ASSUME IInv, Interrupt \/ Type \/ ServerGoes
    PROVE  IInv'
<1>1. /\ pc' = pc \/ pc' = "exited"
      /\ UNCHANGED <<mapping, out, requested, described>>
      /\ stdin' \in Key \cup {"eof", NULL}
  BY DEF IInv, TypeOK, Interrupt, Type, ServerGoes, Goto, negotiation
<1>2. MappingInv'
  BY <1>1, MappingUntouched DEF IInv
<1>3. TypeOK' /\ Announced'
  BY <1>1 DEF IInv, TypeOK, Announced, mapping
<1>. QED BY <1>2, <1>3 DEF IInv

-----------------------------------------------------------------------------
(* configure_mappings().                                                   *)

LEMMA NextControlInvariant ==
    ASSUME IInv, NextControl, UNCHANGED <<negotiation, out>>
    PROVE  IInv'
<1>. USE DEF NextControl, Goto
<1>1. TypeOK'
  BY DEF IInv, TypeOK
<1>2. MappingsTyped' /\ RecordedBefore' /\ MappedIfConfirmed'
  BY DEF IInv, MappingInv, MappingsTyped, RecordedBefore, MappedIfConfirmed
<1>3. AtControl' /\ PathHeard'
  BY DEF AtControl, PathHeard
<1>4. Announced'
  BY DEF IInv, Announced, negotiation
<1>. QED BY <1>1, <1>2, <1>3, <1>4 DEF IInv, MappingInv

LEMMA WaitInvariant ==
    ASSUME IInv, Wait, UNCHANGED <<negotiation, out>>
    PROVE  IInv'
<1>. USE DEF Wait, Goto, mapping
<1>1. TypeOK'
  BY DEF IInv, TypeOK
<1>2. MappingsTyped' /\ RecordedBefore' /\ MappedIfConfirmed'
  BY DEF IInv, MappingInv, MappingsTyped, RecordedBefore, MappedIfConfirmed
<1>3. AtControl' /\ PathHeard'
  BY DEF IInv, MappingInv, AtControl, PathHeard
<1>4. Announced'
  BY DEF IInv, Announced, negotiation
<1>. QED BY <1>1, <1>2, <1>3, <1>4 DEF IInv, MappingInv

\* Only the current control's choice changes, and nothing recorded is for it.
LEMMA OthersKept ==
    ASSUME IInv, current_control \in Controls,
           \/ choice' = choice
           \/ \E byte \in Key : choice' = [choice EXCEPT ![current_control] = byte]
    PROVE  /\ choice' \in [Controls -> Key \cup {NULL}]
           /\ \A i \in DOMAIN osc_controls :
                 choice'[osc_controls[i].control] = choice[osc_controls[i].control]
<1>1. \A i \in DOMAIN osc_controls :
         osc_controls[i].control \in Nat /\ osc_controls[i].control # current_control
  BY ControlsInterval DEF IInv, TypeOK, MappingInv, RecordedBefore
<1>2. \A i \in DOMAIN osc_controls : osc_controls[i].control \in Controls
  BY DEF IInv, TypeOK
<1>. QED BY <1>1, <1>2 DEF IInv, MappingInv, MappingsTyped

LEMMA ReadKeyInvariant ==
    ASSUME IInv, ReadKey, UNCHANGED <<negotiation, out>>
    PROVE  IInv'
<1>. USE DEF ReadKey, Goto
<1>1. current_control \in Controls
  BY DEF IInv, MappingInv, AtControl
<1>2. TypeOK'
  BY DEF IInv, TypeOK
<1>3. stdin # "eof" => stdin \in Key /\ choice' = [choice EXCEPT ![current_control] = stdin]
  BY DEF IInv, TypeOK
<1>4. /\ choice' \in [Controls -> Key \cup {NULL}]
      /\ \A i \in DOMAIN osc_controls :
            choice'[osc_controls[i].control] = choice[osc_controls[i].control]
  BY <1>1, <1>3, OthersKept
<1>5. MappingsTyped' /\ RecordedBefore' /\ MappedIfConfirmed'
  BY <1>4 DEF IInv, MappingInv, MappingsTyped, RecordedBefore, MappedIfConfirmed
<1>6. AtControl'
  BY <1>1 DEF AtControl
<1>7. PathHeard'
  <2>1. CASE stdin = "eof"
    BY <2>1 DEF IInv, MappingInv, PathHeard
  <2>2. CASE stdin # "eof"
    BY <1>1, <2>2 DEF IInv, MappingInv, MappingsTyped, PathHeard
  <2>. QED BY <2>1, <2>2
<1>8. Announced'
  BY DEF IInv, Announced, negotiation
<1>. QED BY <1>2, <1>5, <1>6, <1>7, <1>8 DEF IInv, MappingInv

LEMMA ReadPacketInvariant ==
    ASSUME IInv, ReadPacket, UNCHANGED <<negotiation, out>>
    PROVE  IInv'
<1>1. pc = "select" /\ current_control \in Controls
  BY DEF IInv, MappingInv, AtControl, ReadPacket
<1>2. UNCHANGED <<current_control, osc_controls, stdin>>
  BY DEF ReadPacket
<1>3. CASE pc' = "exited" /\ UNCHANGED <<buffer, choice, current_path>>
  <2>1. UNCHANGED mapping
    BY <1>2, <1>3 DEF mapping
  <2>2. MappingInv'
    BY <2>1, <1>3, MappingUntouched DEF IInv
  <2>3. TypeOK' /\ Announced'
    BY <1>2, <1>3 DEF IInv, TypeOK, Announced, negotiation
  <2>. QED BY <2>2, <2>3 DEF IInv
<1>4. CASE pc' = "wait" /\ \E p \in Packet : Hears(p)
  <2>1. PICK p \in Packet : Hears(p)
    BY <1>4
  <2>2. p.path \in Path /\ FirstByte[p.path] \in Key
    BY PathAssumption DEF Packet
  <2>3. /\ buffer' = FirstByte[p.path]
        /\ choice' = [choice EXCEPT ![current_control] = FirstByte[p.path]]
        /\ current_path' \in Path \cup {NULL}
    BY <2>1, <2>2 DEF Hears, IInv, TypeOK
  <2>4. TypeOK'
    BY <1>2, <1>4, <2>2, <2>3 DEF IInv, TypeOK
  <2>5. /\ choice' \in [Controls -> Key \cup {NULL}]
        /\ \A i \in DOMAIN osc_controls :
              choice'[osc_controls[i].control] = choice[osc_controls[i].control]
    BY <1>1, <2>2, <2>3, OthersKept
  <2>6. MappingsTyped' /\ RecordedBefore' /\ MappedIfConfirmed'
    BY <1>2, <2>5 DEF IInv, MappingInv, MappingsTyped, RecordedBefore, MappedIfConfirmed
  <2>7. choice'[current_control] = buffer'
    BY <1>1, <2>3 DEF IInv, MappingInv, MappingsTyped
  <2>8. AtControl' /\ PathHeard'
    BY <1>1, <1>2, <2>7 DEF AtControl, PathHeard
  <2>9. Announced'
    BY DEF IInv, Announced, negotiation
  <2>. QED BY <2>4, <2>6, <2>8, <2>9 DEF IInv, MappingInv
<1>. QED BY <1>3, <1>4 DEF ReadPacket, Goto

\* A mapping is recorded for the current control, for which the newline in the
\* buffer was read, and the program goes on to the next one.
LEMMA DecideInvariant ==
    ASSUME IInv, Decide, UNCHANGED <<negotiation, out>>
    PROVE  IInv'
<1> DEFINE new == [control |-> current_control, path |-> current_path]
<1>1. /\ pc = "decide" /\ pc' \in {"control", "exited"}
      /\ UNCHANGED <<current_path, buffer, choice, stdin, out, requested, described>>
  BY DEF Decide, Goto, negotiation
<1>2. current_control \in Controls /\ current_control \in Nat
  BY <1>1, ControlsInterval DEF IInv, MappingInv, AtControl
<1>3. current_control' \in {current_control, current_control + 1}
  BY DEF Decide
<1>4. current_control' \in 1..Len(gamepad_controls) + 1
  BY <1>2, <1>3, ControlsInterval
<1>5. osc_controls \in Seq(Mapping)
  BY DEF IInv, MappingInv, MappingsTyped
<1>6. CASE osc_controls' = osc_controls
  <2>1. MappingsTyped' /\ MappedIfConfirmed'
    BY <1>1, <1>6 DEF IInv, MappingInv, MappingsTyped, MappedIfConfirmed
  <2>2. RecordedBefore'
    BY <1>2, <1>3, <1>6, ControlsInterval DEF IInv, TypeOK, MappingInv, RecordedBefore
  <2>3. TypeOK'
    BY <1>1, <1>4, <1>6 DEF IInv, TypeOK
  <2>4. AtControl' /\ PathHeard' /\ Announced'
    BY <1>1 DEF IInv, AtControl, PathHeard, Announced
  <2>. QED BY <2>1, <2>2, <2>3, <2>4 DEF IInv, MappingInv
<1>7. CASE osc_controls' # osc_controls
  <2>1. /\ buffer = "newline" /\ current_path # NULL
        /\ osc_controls' = Append(osc_controls, new)
        /\ current_control' = current_control + 1
    BY <1>7 DEF Decide, Record
  <2>2. current_path \in Path
    BY <2>1 DEF IInv, TypeOK
  <2>3. new \in Mapping /\ new.control = current_control /\ new.path = current_path
    BY <1>2, <2>2 DEF Mapping
  <2>4. choice[current_control] = "newline"
    BY <1>1, <2>1 DEF IInv, MappingInv, PathHeard
  <2> HIDE DEF new
  <2> DEFINE last == Len(osc_controls) + 1
  <2>5. /\ osc_controls' \in Seq(Mapping)
        /\ DOMAIN osc_controls' = DOMAIN osc_controls \cup {last}
        /\ \A i \in DOMAIN osc_controls : osc_controls'[i] = osc_controls[i] /\ i < last
        /\ osc_controls'[last] = new
    BY <1>5, <2>1, <2>3, Appended
  <2> HIDE DEF last
  <2>6. \A i \in DOMAIN osc_controls :
           /\ osc_controls[i].control \in Controls /\ osc_controls[i].control \in Nat
           /\ osc_controls[i].control < current_control
           /\ choice[osc_controls[i].control] = "newline" /\ osc_controls[i].path \in Path
    BY ControlsInterval DEF IInv, TypeOK, MappingInv, RecordedBefore, MappedIfConfirmed
  <2>7. MappingsTyped'
    BY <1>1, <2>5 DEF IInv, MappingInv, MappingsTyped
  <2>8. RecordedBefore'
    BY <1>2, <2>1, <2>3, <2>5, <2>6 DEF RecordedBefore
  <2>9. MappedIfConfirmed'
    <3>1. \A i \in DOMAIN osc_controls' :
             choice'[osc_controls'[i].control] = "newline" /\ osc_controls'[i].path \in Path
      BY <1>1, <2>2, <2>3, <2>4, <2>5, <2>6
    <3>2. ASSUME NEW i \in DOMAIN osc_controls', NEW j \in DOMAIN osc_controls', i < j
          PROVE  osc_controls'[i].control < osc_controls'[j].control
      <4>1. i \in DOMAIN osc_controls /\ last \in Nat /\ i \in Nat /\ j \in Nat
        BY <3>2, <2>5, <1>5 DEF last
      <4>2. CASE j \in DOMAIN osc_controls
        BY <3>2, <4>1, <4>2, <2>5 DEF IInv, MappingInv, MappedIfConfirmed
      <4>3. CASE j = last
        BY <4>1, <4>3, <2>3, <2>5, <2>6
      <4>. QED BY <4>2, <4>3, <2>5
    <3>. QED BY <3>1, <3>2 DEF MappedIfConfirmed
  <2>10. TypeOK'
    <3>1. \A i \in DOMAIN osc_controls' : osc_controls'[i].control \in Controls
      BY <1>2, <2>3, <2>5, <2>6
    <3>. QED BY <1>1, <1>4, <3>1 DEF IInv, TypeOK
  <2>11. AtControl' /\ PathHeard' /\ Announced'
    BY <1>1 DEF IInv, AtControl, PathHeard, Announced
  <2>. QED BY <2>7, <2>8, <2>9, <2>10, <2>11 DEF IInv, MappingInv
<1>. QED BY <1>6, <1>7

-----------------------------------------------------------------------------
(* The theorems.                                                           *)

LEMMA NextInvariant == IInv /\ [Next]_vars => IInv'
<1> SUFFICES ASSUME IInv, [Next]_vars PROVE IInv'
  OBVIOUS
<1>1. CASE Negotiate
  BY <1>1, NegotiateInvariant
<1>2. CASE Configure
  BY <1>2, NextControlInvariant, WaitInvariant, ReadKeyInvariant, DecideInvariant DEF Configure
<1>3. CASE Loop
  BY <1>3, LoopInvariant
<1>4. CASE Answered
  BY <1>4, AnsweredInvariant
<1>5. CASE Heard
  BY <1>5, ReadPacketInvariant, TranslateInvariant DEF Heard
<1>6. CASE Interrupt \/ Type \/ ServerGoes
  BY <1>6, OutsideInvariant
<1>7. CASE UNCHANGED vars
  <2>1. MappingInv'
    BY <1>7, MappingUntouched DEF IInv, vars
  <2>2. TypeOK' /\ Announced'
    BY <1>7 DEF vars, mapping, negotiation, IInv, TypeOK, Announced
  <2>. QED BY <2>1, <2>2 DEF IInv
<1>. QED BY <1>1, <1>2, <1>3, <1>4, <1>5, <1>6, <1>7 DEF Next, Program

LEMMA Invariant == Spec => []IInv
BY InitInvariant, NextInvariant, PTL DEF Spec

\* Every variable of osc-xlater keeps its type: what is translated, too, is
\* made of the codes of the table gamepad_controls[].
THEOREM XlaterTypeCorrect == Spec => []TypeOK
<1>1. IInv => TypeOK
  BY DEF IInv
<1>. QED BY <1>1, Invariant, PTL

\* configure_mappings() records a path for a control, at most once for each,
\* only when what it read last for this control, from the keyboard or from the
\* socket, begins with a newline.
THEOREM MappingsConfirmed == Spec => []MappedIfConfirmed
<1>1. IInv => MappedIfConfirmed
  BY DEF IInv, MappingInv
<1>. QED BY <1>1, Invariant, PTL

\* osc_msg_xlate() sends no key that enable_codes() has not requested.
THEOREM TranslatedKeysRequested == Spec => []KeysRequested
<1>1. IInv => KeysRequested
  BY DEF IInv, Announced, KeysRequested
<1>. QED BY <1>1, Invariant, PTL
=============================================================================
