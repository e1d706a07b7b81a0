----------------------------- MODULE OscXlater -----------------------------
(***************************************************************************)
(* The osc-xlater program (osc/osc-xlater.c): it negotiates with the input *)
(* server, has its user assign an OSC path to each gamepad control, and    *)
(* then translates OSC packets to events.  An OSC packet is its path and   *)
(* its number of arguments.  The ranges that are recorded with a path are  *)
(* printed and otherwise unused, and left out, as are the events' values.  *)
(***************************************************************************)
EXTENDS Integers, SequencesExt

CONSTANTS
    gamepad_controls,   \* sequence of [type, codes]
    Path,               \* OSC paths
    FirstByte,          \* of each path
    Answer,             \* message types a server may answer with
    NULL

ASSUME ControlsAssumption ==
    /\ gamepad_controls \in Seq([type : STRING, codes : Seq(STRING)])
    /\ \A i \in DOMAIN gamepad_controls :
          IF gamepad_controls[i].type = "EV_ABS" THEN gamepad_controls[i].codes # <<>>
                                                 ELSE Len(gamepad_controls[i].codes) = 1

\* What configure_mappings() looks at: newline, s, q or another byte.
Key == {"newline", "s", "q", "other"}

\* No path need begin with a slash (osc_parse()).
ASSUME PathAssumption == NULL \notin Path \cup Key /\ FirstByte \in [Path -> Key]

VARIABLES
    pc,
    shutdown_requested,
    host,               \* the server's end of the connection: "open", "gone"
    requested,          \* codes sent in REQUEST_EVENT
    described,          \* axes sent in ABSINFO
    current_control,
    current_path,       \* current_osc.path
    buffer,             \* first byte of configure_mappings()'s buffer
    osc_controls,       \* sequence of [control, path]
    stdin,              \* the line waiting to be read: its first byte, "eof" or NULL
    choice,             \* history: the first byte last read for each control
    out                 \* history: the codes the last packet was translated to

negotiation == <<host, requested, described>>
mapping     == <<current_control, current_path, buffer, osc_controls, choice>>
vars == <<pc, shutdown_requested, negotiation, mapping, stdin, out>>

Controls == DOMAIN gamepad_controls
Codes(k) == gamepad_controls[k].codes
Keys     == {k \in Controls : gamepad_controls[k].type # "EV_ABS"}
AllCodes == UNION {ToSet(Codes(k)) : k \in Controls}
Packet   == [path : Path, num_args : {Len(Codes(k)) : k \in Controls}]

Init ==
    /\ pc = "hello" /\ shutdown_requested = FALSE /\ host = "open"
    /\ requested = {} /\ described = {}
    /\ current_control = 1 /\ current_path = NULL
    /\ buffer \in Key                               \* the array is not initialised
    /\ osc_controls = <<>> /\ choice = [k \in Controls |-> NULL]
    /\ stdin = NULL /\ out = <<>>

Goto(p) == pc' = p

-----------------------------------------------------------------------------
(* input_negotiate().  No send() is checked; one to a server that has gone *)
(* succeeds for nothing or raises SIGPIPE, which ends the program.         *)

SendTo(p) == Goto(p) \/ (host = "gone" /\ Goto("exited"))

SendHello == pc = "hello" /\ SendTo("answer") /\ UNCHANGED negotiation

EnableCodesOfFirstKey ==
    /\ described' = described \cup UNION {ToSet(Codes(k)) : k \in Controls \ Keys}
    /\ requested' = requested \cup {Codes(k)[1] : k \in {Min(Keys)}}
\* enable_codes(): the axes are described; only the others are asked for.
EnableCodes ==
    /\ described' = described \cup UNION {ToSet(Codes(k)) : k \in Controls \ Keys}
    /\ requested' = requested \cup {Codes(k)[1] : k \in Keys}

SendPassword == pc = "password" /\ SendTo("verdict") /\ UNCHANGED negotiation

SendSetup == pc = "setup" /\ SendTo("result") /\ EnableCodes /\ UNCHANGED host

\* An answer, or the end of the stream.
Recv ==
    /\ \/ \E answer \in Answer :
             CASE pc = "answer" /\ answer = "PASSWORD_REQUIRED"               -> Goto("password")
               [] pc \in {"answer", "verdict"} /\ answer = "SETUP_REQUIRED"   -> Goto("setup")
               [] pc \in {"answer", "verdict", "result"} /\ answer = "SUCCESS" -> Goto("control")
               [] OTHER                                                      -> Goto("exited")
       \/ Goto("exited") /\ host = "gone"
    /\ UNCHANGED negotiation

Receive == pc \in {"answer", "verdict", "result"} /\ Recv

-----------------------------------------------------------------------------
(* configure_mappings(): for each control the outer loop starts afresh,    *)
(* the inner loop waits for packets and for the keyboard, and what is left *)
(* in the buffer decides.  Packets and keyboard share the buffer.          *)

NextControl ==
    /\ pc = "control"
    /\ IF current_control \in Controls THEN Goto("wait") ELSE Goto("translate")
    /\ current_path' = NULL
    /\ UNCHANGED <<current_control, buffer, osc_controls, choice, stdin>>

Wait ==
    /\ pc = "wait" /\ Goto(IF shutdown_requested THEN "decide" ELSE "select")
    /\ UNCHANGED <<mapping, stdin>>

ReadKeyStoringEof ==
    /\ pc = "select" /\ stdin # NULL /\ Goto("decide")
    /\ buffer' = stdin
    /\ choice' = IF stdin = "eof" THEN choice ELSE [choice EXCEPT ![current_control] = stdin]
    /\ stdin' = IF stdin = "eof" THEN stdin ELSE NULL
    /\ UNCHANGED <<current_control, current_path, osc_controls>>
\* read(): nothing is stored at the end of the input.
ReadKey ==
    /\ pc = "select" /\ stdin # NULL /\ Goto("decide")
    /\ buffer' = IF stdin = "eof" THEN buffer ELSE stdin
    /\ choice' = IF stdin = "eof" THEN choice ELSE [choice EXCEPT ![current_control] = stdin]
    /\ stdin' = IF stdin = "eof" THEN stdin ELSE NULL
    /\ UNCHANGED <<current_control, current_path, osc_controls>>

HearsApart(p) ==
    /\ buffer' = buffer
    /\ choice' = [choice EXCEPT ![current_control] = FirstByte[p.path]]
    /\ current_path' = IF p.num_args = Len(Codes(current_control)) /\ current_path = NULL
                       THEN p.path ELSE current_path
\* A packet begins with its path and lies in the buffer the keyboard is read
\* into.  It must have a type tag; one with another number of arguments is
\* ignored, one with another path is not.
Hears(p) ==
    /\ buffer' = FirstByte[p.path]
    /\ choice' = [choice EXCEPT ![current_control] = FirstByte[p.path]]
    /\ current_path' = IF p.num_args = Len(Codes(current_control)) /\ current_path = NULL
                       THEN p.path ELSE current_path

ReadPacketFirst ==
    /\ pc = "select" /\ Goto("wait")
    /\ \E p \in Packet : Hears(p)
    /\ UNCHANGED <<current_control, osc_controls, stdin>>
\* The keyboard comes first; a malformed packet ends the program.
ReadPacket ==
    /\ pc = "select" /\ stdin = NULL
    /\ \/ \E p \in Packet : Hears(p) /\ Goto("wait")
       \/ Goto("exited") /\ UNCHANGED <<buffer, choice, current_path>>
    /\ UNCHANGED <<current_control, osc_controls, stdin>>

Record ==
    osc_controls' = IF buffer = "newline" /\ current_path # NULL
                    THEN Append(osc_controls, [control |-> current_control, path |-> current_path])
                    ELSE osc_controls

DecideAgain ==
    /\ pc = "decide"
    /\ IF buffer = "q" THEN Goto("exited") ELSE Goto("control")
    /\ Record
    /\ IF buffer \in {"q", "other"} \/ (buffer = "newline" /\ current_path = NULL)
       THEN current_control' = current_control
       ELSE current_control' = current_control + 1
    /\ UNCHANGED <<current_path, buffer, choice, stdin>>
\* A newline without a path starts the control again; a newline with one
\* records it; any other byte goes on without.
Decide ==
    /\ pc = "decide"
    /\ IF buffer = "q" THEN Goto("exited") ELSE Goto("control")
    /\ Record
    /\ IF buffer = "q" \/ (buffer = "newline" /\ current_path = NULL)
       THEN current_control' = current_control
       ELSE current_control' = current_control + 1
    /\ UNCHANGED <<current_path, buffer, choice, stdin>>

-----------------------------------------------------------------------------
(* osc_msg_xlate() and main()'s loop around it.                            *)

Matches(path) == {i \in DOMAIN osc_controls : osc_controls[i].path = path}

\* The codes of the first control with that path, whatever the packet's number
\* of arguments, and the end of the report.
Translation(path) ==
    IF Matches(path) = {} THEN <<>>
    ELSE Append(Codes(osc_controls[Min(Matches(path))].control), "SYN_REPORT")

LoopTest ==
    /\ pc = "translate" /\ Goto(IF shutdown_requested THEN "exited" ELSE "recv")
    /\ out' = out

\* SIGPIPE may end the program between two of its send()s.
Translate ==
    /\ pc = "recv"
    /\ \E p \in Packet :
          \/ Goto("translate") /\ out' = Translation(p.path)
          \/ /\ host = "gone" /\ Goto("exited")
             /\ \E part \in Prefixes(Translation(p.path)) : out' = part

\* An empty or malformed packet ends the program.
BadPacket == pc = "recv" /\ Goto("exited") /\ out' = out

-----------------------------------------------------------------------------
(* The whole.                                                              *)

Negotiate ==
    /\ SendHello \/ SendPassword \/ SendSetup
    /\ UNCHANGED <<shutdown_requested, mapping, stdin, out>>
Configure ==
    /\ NextControl \/ Wait \/ ReadKey \/ Decide
    /\ UNCHANGED <<shutdown_requested, negotiation, out>>
Loop == LoopTest /\ UNCHANGED <<shutdown_requested, negotiation, mapping, stdin>>

Program == Negotiate \/ Configure \/ Loop

Answered == Receive /\ UNCHANGED <<shutdown_requested, mapping, stdin, out>>
Heard ==
    \/ ReadPacket /\ UNCHANGED <<shutdown_requested, negotiation, out>>
    \/ (Translate \/ BadPacket) /\ UNCHANGED <<shutdown_requested, negotiation, mapping, stdin>>

\* SIGINT.  select() fails with EINTR, unless the signal came just before it;
\* recv() is restarted.
Interrupt ==
    /\ pc # "exited" /\ shutdown_requested' = TRUE
    /\ pc' = pc \/ (pc = "select" /\ stdin = NULL /\ Goto("exited"))
    /\ UNCHANGED <<negotiation, mapping, stdin, out>>

Type ==
    /\ pc # "exited" /\ stdin = NULL /\ \E k \in Key \cup {"eof"} : stdin' = k
    /\ UNCHANGED <<pc, shutdown_requested, negotiation, mapping, out>>

ServerGoes ==
    /\ pc # "exited" /\ host = "open" /\ host' = "gone"
    /\ UNCHANGED <<pc, shutdown_requested, requested, described, mapping, stdin, out>>

Next == Program \/ Answered \/ Heard \/ Interrupt \/ Type \/ ServerGoes

\* The program goes on while it need not wait for the server or for a packet,
\* and takes the packets that come; none needs to come.
Spec == Init /\ [][Next]_vars /\ WF_vars(Program)

-----------------------------------------------------------------------------
(* Properties.                                                             *)

TypeOK ==
    /\ pc \in {"hello", "answer", "password", "verdict", "setup", "result",
               "control", "wait", "select", "decide", "translate", "recv", "exited"}
    /\ current_control \in 1..Len(gamepad_controls) + 1
    /\ current_path \in Path \cup {NULL} /\ buffer \in Key
    /\ \A i \in DOMAIN osc_controls : osc_controls[i].control \in Controls
    /\ stdin \in Key \cup {"eof", NULL}
    /\ ToSet(out) \subseteq AllCodes \cup {"SYN_REPORT"}

\* A control is given a mapping, one at most, only when what was read last while
\* it was configured begins with a newline, although the byte that decides is
\* left over from before when the input has ended or SIGINT cuts the wait short:
\* it is never one typed for another control (configure_mappings()).  The user
\* need not have typed it: a packet whose path begins with a newline confirms a
\* mapping like the enter key the prompt asks for.
MappedIfConfirmed ==
    /\ \A i \in DOMAIN osc_controls :
          choice[osc_controls[i].control] = "newline" /\ osc_controls[i].path \in Path
    /\ \A i, j \in DOMAIN osc_controls :
          i < j => osc_controls[i].control < osc_controls[j].control

\* Once the session has had a setup, each key that is translated has been
\* requested in it (enable_codes() against osc_msg_xlate()).  This is said of
\* keys only: an axis is described and not requested, and SYN_REPORT is neither,
\* although src/protocol/protocol.md:215 wants a REQUEST_EVENT for each.
KeyCodes == {Codes(k)[1] : k \in Keys}
KeysRequested ==
    requested \cup described # {} => ToSet(out) \cap KeyCodes \subseteq requested

\* SIGINT ends the program, unless it waits for the server or for a packet, or
\* a newline from before makes it ask for the same control forever.
Waiting  == pc \in {"answer", "verdict", "result", "recv"} \/ (pc = "select" /\ stdin = NULL)
Spinning == pc \in {"control", "wait", "decide"} /\ buffer = "newline" /\ current_path = NULL
ShutdownEnds == shutdown_requested ~> pc = "exited" \/ Waiting \/ Spinning

\* A line typed while the program configures is read, however many packets come
\* (the order of the two tests behind select()).
Configuring == pc \in {"wait", "select"}
KeyRead == Configuring /\ stdin # NULL ~> ~Configuring
=============================================================================
