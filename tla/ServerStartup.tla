--------------------------- MODULE ServerStartup ---------------------------
(***************************************************************************)
(* How input-server starts (main() and the functions of its arguments in   *)
(* server/input-server.c): it parses its command line, where -W and -B     *)
(* read access lists that decide which events clients may use, and opens   *)
(* its listener, or gives up.  An event is a type and a code, and a file a *)
(* sequence of lines, each as setCodeList() makes it out without its last  *)
(* character, which it takes for a newline whether it is one or not.       *)
(***************************************************************************)
EXTENDS EasyArgs

CONSTANTS
    Event,      \* [type, code] records
    File,       \* names of access lists that can be opened
    Lines,      \* their lines: [kind, event or type]
    Help, Whitelist, Blacklist   \* indices in Items of -h, -W and -B

FirstCode(type) == CHOOSE e \in Event : e.type = type /\ e.code = 0

ASSUME EventsAssumption ==
    \A e \in Event : \E f \in Event : f.type = e.type /\ f.code = 0
ASSUME FilesAssumption ==
    \A f \in File :
        /\ Lines[f] \in Seq(ToSet(Lines[f]))
        /\ \A l \in ToSet(Lines[f]) :
              /\ l.kind \in {"comment", "event", "type", "incomplete", "invalid"}
              /\ l.kind = "event" => l.event \in Event
              /\ l.kind = "type" => \E e \in Event : e.type = l.type
ASSUME ArgumentsAssumption ==
    /\ {Help, Whitelist, Blacklist} \subseteq DOMAIN Items
    /\ Help \notin {Whitelist, Blacklist} /\ Whitelist # Blacklist
    /\ \A k \in {Help, Whitelist, Blacklist} : Items[k].type = "TYPE_FUNC"
    /\ Items[Help].arguments = 0
    /\ Items[Whitelist].arguments = 1 /\ Items[Blacklist].arguments = 1

VARIABLES
    pc,         \* "parse", "read" in setCodeList(), "listen" or "exited"
    whitelist,  \* the events config.whitelist[][] allows
    line        \* setCodeList()'s next line

vars == <<argVars, pc, whitelist, line>>

Init == ArgsInit /\ pc = "parse" /\ whitelist = Event /\ line = 1

Goto(p) == pc' = p

-----------------------------------------------------------------------------
(* The parser's steps.                                                     *)

Collect == NoItem /\ UNCHANGED <<pc, whitelist, line>>
StoreItem == (\E k \in DOMAIN Items : Store(k)) /\ UNCHANGED <<pc, whitelist, line>>
Incomplete ==
    /\ \E k \in DOMAIN Items : NeedsArgument(k)
    /\ Goto("exited") /\ UNCHANGED <<whitelist, line>>

\* usage() returns -1.
CallUsage == Calls(Help) /\ Returns(-1) /\ Goto("exited") /\ UNCHANGED <<whitelist, line>>

ClearedNever(k) == whitelist
\* setWhitelist() clears everything, and what earlier lists allowed, too.
Cleared(k) == IF k = Whitelist THEN {} ELSE whitelist

OpenList ==
    /\ \E k \in {Whitelist, Blacklist} : Calls(k) /\ whitelist' = Cleared(k)
    /\ IF argv[i + 1] \in File
       THEN Goto("read") /\ UNCHANGED argVars
       ELSE Goto("exited") /\ Returns(-1)
    /\ line' = 1

-----------------------------------------------------------------------------
(* setCodeList().                                                          *)

Flag == Is(Whitelist)
CurrentFile == Lines[argv[i + 1]]
Current == CurrentFile[line]
Reading == pc = "read" /\ line \in DOMAIN CurrentFile

ListEnds(n) ==
    /\ Returns(n) /\ Goto(IF n < 0 THEN "exited" ELSE "parse")
    /\ whitelist' = whitelist /\ line' = 1

NextLine == line' = line + 1 /\ UNCHANGED <<argVars, pc>>

SkipComment == Reading /\ Current.kind = "comment" /\ NextLine /\ UNCHANGED whitelist

SetEvent ==
    /\ Reading /\ Current.kind = "event"
    /\ whitelist' = IF Flag THEN whitelist \cup {Current.event} ELSE whitelist \ {Current.event}
    /\ NextLine

\* memset() with sizeof(int) * EV_KEY bytes reaches the first code of the type
\* and sets it, in a blacklist as well.
SetType ==
    /\ Reading /\ Current.kind = "type"
    /\ whitelist' = whitelist \cup {FirstCode(Current.type)}
    /\ NextLine

\* A line without a dot, or an empty one, ends the list as the end of the file
\* does: the lines behind it are not read.
IncompleteLine == Reading /\ Current.kind = "incomplete" /\ ListEnds(1)
InvalidLineIgnored == Reading /\ Current.kind = "invalid" /\ NextLine /\ UNCHANGED whitelist
InvalidLine == Reading /\ Current.kind = "invalid" /\ ListEnds(-1)
EndOfFile == pc = "read" /\ line \notin DOMAIN CurrentFile /\ ListEnds(1)

-----------------------------------------------------------------------------
(* main(), up to the listener.                                             *)

StartAnyway ==
    /\ Parsed /\ Goto("listen")
    /\ UNCHANGED <<argVars, whitelist, line>>
\* Words that are left over are an error.
Start ==
    /\ Parsed /\ Goto(IF output = <<>> THEN "listen" ELSE "exited")
    /\ UNCHANGED <<argVars, whitelist, line>>

Parse == pc = "parse" /\ (Collect \/ StoreItem \/ Incomplete \/ CallUsage \/ OpenList \/ Start)
Read  == SkipComment \/ SetEvent \/ SetType \/ IncompleteLine \/ InvalidLine \/ EndOfFile

\* Every command line leads here: TLC reports any other end as a deadlock.
Decided == pc \in {"listen", "exited"} /\ UNCHANGED vars

Next == Parse \/ Read \/ Decided

Spec == Init /\ [][Next]_vars

-----------------------------------------------------------------------------
(* Properties.                                                             *)

TypeOK ==
    /\ i \in 1..Len(argv) + 1 /\ line \in Nat \ {0}
    /\ container \in [DOMAIN Items -> 0..Len(argv)]
    /\ pc \in {"parse", "read", "listen", "exited"} /\ whitelist \subseteq Event

\* A reading of the command line of its own: a word is a value if the word
\* before it is an option that takes one and is not itself a value.
ItemOf(w)  == IF Matching(w) = {} THEN 0 ELSE Min(Matching(w))
Takes(w)   == ItemOf(w) # 0 /\ Items[ItemOf(w)].arguments = 1
Values ==
    LET isValue[n \in 0..Len(argv)] == n > 1 /\ ~isValue[n - 1] /\ Takes(argv[n - 1])
    IN  {n \in DOMAIN argv : isValue[n]}
Options(K) == {n \in DOMAIN argv \ Values : ItemOf(argv[n]) \in K}

\* The server starts only when every word was understood: an option, or the one
\* value of an option (eargs_parse(), main()).
AllUnderstood ==
    pc = "listen" =>
        /\ \A n \in DOMAIN argv \ Values : /\ ItemOf(argv[n]) \notin {0, Help}
                                           /\ Takes(argv[n]) => n + 1 \in Values
        /\ \A n \in Options({Whitelist, Blacklist}) : argv[n + 1] \in File

\* What an option is set to is the value of its last occurrence, and no word is
\* used for two options.
LastValueCounts ==
    pc = "listen" =>
        \A k \in DOMAIN Items : Items[k].type = "TYPE_STRING" =>
            container[k] = IF Options({k}) = {} THEN 0 ELSE Max(Options({k})) + 1

\* The lines that mention an event (src/README.md:69): of the lists on the
\* command line from the last whitelist on, each up to its first incomplete line.
Effective(f) ==
    {n \in DOMAIN Lines[f] : \A m \in 1..n : Lines[f][m].kind # "incomplete"}
Mentions(l, e) ==
    \/ l.kind = "event" /\ l.event = e
    \/ l.kind = "type" /\ l.type = e.type
LastWhitelist == IF Options({Whitelist}) = {} THEN 0 ELSE Max(Options({Whitelist}))
LineOf(n, m) == Lines[argv[n + 1]][m]
Marks(e) ==
    {p \in UNION {{n} \X Effective(argv[n + 1]) : n \in Options({Whitelist, Blacklist})} :
        p[1] >= LastWhitelist /\ Mentions(LineOf(p[1], p[2]), e)}
Later(p, q) == p[1] > q[1] \/ (p[1] = q[1] /\ p[2] >= q[2])

\* The last whitelist voids what came before it.  An event that no line mentions
\* may be used if there is no whitelist, and if the last line to mention it names
\* it, that line decides (setWhitelist(), setBlacklist(), setCodeList()).  Of an
\* event whose last line is a type.* nothing is said: src/README.md:69 has it
\* enable or disable every event of the type, and SetType does neither.
ListsMean ==
    pc = "listen" => \A e \in Event :
        /\ Marks(e) = {} => (e \in whitelist <=> LastWhitelist = 0)
        /\ \A p \in Marks(e) :
              LineOf(p[1], p[2]).kind = "event" /\ (\A q \in Marks(e) : Later(p, q)) =>
                  (e \in whitelist <=> ItemOf(argv[p[1]]) = Whitelist)

\* No list is half applied that has a name that does not exist in a line before
\* its first incomplete one: the server does not start, however many of its lines
\* are in force already (setCodeList()'s status).
NoHalfList ==
    pc = "listen" =>
        \A n \in Options({Whitelist, Blacklist}) : \A m \in Effective(argv[n + 1]) :
            Lines[argv[n + 1]][m].kind # "invalid"
=============================================================================
