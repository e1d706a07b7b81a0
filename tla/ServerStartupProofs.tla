------------------------ MODULE ServerStartupProofs ------------------------
(***************************************************************************)
(* Proofs about ServerStartup and the argument parser, for every table of  *)
(* arguments, every command line and every set of access lists.            *)
(***************************************************************************)
EXTENDS ServerStartup, SequenceLemmas

-----------------------------------------------------------------------------
(* Least and greatest numbers.                                             *)

LEMMA LeastNumber ==
    ASSUME NEW S, S \subseteq Nat, S # {}
    PROVE  Min(S) \in S /\ \A x \in S : Min(S) <= x
<1> DEFINE Less == {p \in Nat \X Nat : p[1] < p[2]}
<1>1. IsWellFoundedOn(Less, Nat)
  BY NatLessThanWellFounded DEF OpToRel
<1>2. PICK m \in S : \A x \in S : ~(<<x, m>> \in Less)
  BY <1>1, WFMin
<1>3. \A x \in S : m <= x
  <2>1. SUFFICES ASSUME NEW x \in S, ~(m <= x) PROVE FALSE
    OBVIOUS
  <2>2. <<x, m>> \in Nat \X Nat /\ <<x, m>>[1] = x /\ <<x, m>>[2] = m
    OBVIOUS
  <2>3. x < m
    BY <2>1
  <2>. QED BY <2>2, <2>3, <1>2
<1>. HIDE DEF Less
<1>. QED BY <1>2, <1>3 DEF Min

LEMMA GreatestIs ==
    ASSUME NEW S, S \subseteq Nat, NEW m \in S, \A x \in S : x <= m
    PROVE  Max(S) = m
<1>1. m \in S /\ \A x \in S : m >= x
  OBVIOUS
<1>2. Max(S) \in S /\ \A x \in S : Max(S) >= x
  BY <1>1, Zenon DEF Max
<1>3. Max(S) \in Nat /\ Max(S) >= m /\ m >= Max(S)
  BY <1>1, <1>2
<1>. QED BY <1>3

LEMMA GreatestNumber ==
    ASSUME NEW N \in Nat, NEW S, S \subseteq 1..N, S # {}
    PROVE  Max(S) \in S /\ \A x \in S : x <= Max(S)
<1> DEFINE U == {u \in Nat : \A x \in S : x <= u}
<1>1. N \in U
  OBVIOUS
<1>2. PICK m : m = Min(U)
  OBVIOUS
<1>3. m \in U /\ \A u \in U : m <= u
  BY <1>1, <1>2, LeastNumber
<1>4. m \in S
  <2>1. SUFFICES ASSUME m \notin S PROVE FALSE
    OBVIOUS
  <2>2. m >= 1
    <3>1. PICK x : x \in S
      OBVIOUS
    <3>2. x \in 1..N /\ x <= m /\ m \in Nat
      BY <3>1, <1>3
    <3>. QED BY <3>2
  <2>3. m - 1 \in Nat /\ \A y \in S : y <= m - 1
    BY <1>3, <2>1, <2>2
  <2>. QED BY <1>3, <2>3
<1>5. Max(S) = m
  BY <1>3, <1>4, GreatestIs, S \subseteq Nat
<1>. QED BY <1>3, <1>4, <1>5

-----------------------------------------------------------------------------
(* Words and their items.                                                  *)

LEMMA ItemsFacts == Len(Items) \in Nat /\ DOMAIN Items = 1..Len(Items)
BY ItemsAssumption, LenProperties

LEMMA ItemOfWord ==
    ASSUME NEW w
    PROVE  /\ ItemOf(w) \in Nat
           /\ ItemOf(w) = 0 <=> Matching(w) = {}
           /\ Matching(w) # {} => ItemOf(w) \in DOMAIN Items /\ ItemOf(w) = Min(Matching(w))
<1>1. Matching(w) \subseteq DOMAIN Items /\ Matching(w) \subseteq Nat /\ 0 \notin Matching(w)
  BY ItemsFacts DEF Matching
<1>2. CASE Matching(w) = {}
  BY <1>2 DEF ItemOf
<1>3. CASE Matching(w) # {}
  BY <1>1, <1>3, LeastNumber DEF ItemOf
<1>. QED BY <1>2, <1>3

\* The parser's choice is ItemOf's.
LEMMA IsItem ==
    ASSUME NEW k, Is(k)
    PROVE  i \in DOMAIN argv /\ k \in DOMAIN Items /\ k # 0 /\ ItemOf(argv[i]) = k
BY ItemOfWord, ItemsFacts DEF Is

-----------------------------------------------------------------------------
(* The values on a command line: what the recursive definition says.       *)

\* f marks the values among the words up to the n-th.
Marking(f, n) == f = [k \in 0..n |-> k > 1 /\ ~f[k - 1] /\ Takes(argv[k - 1])]

LEMMA MarkingAt ==
    ASSUME NEW f, NEW n \in Nat, Marking(f, n)
    PROVE  \A k \in 0..n : f[k] <=> k > 1 /\ ~f[k - 1] /\ Takes(argv[k - 1])
BY Zenon DEF Marking

LEMMA MarkingExists == \A n \in Nat : \E f : Marking(f, n)
<1> DEFINE S == {n \in Nat : \E f : Marking(f, n)}
<1>1. 0 \in S
  <2> DEFINE f == [k \in 0..0 |-> FALSE]
  <2>1. \A k \in 0..0 : FALSE = (k > 1 /\ ~f[k - 1] /\ Takes(argv[k - 1]))
    OBVIOUS
  <2>2. Marking(f, 0)
    <3>1. f = [k \in 0..0 |-> k > 1 /\ ~f[k - 1] /\ Takes(argv[k - 1])]
      BY <2>1, Zenon
    <3>. QED BY <3>1, Zenon DEF Marking
  <2>. QED BY <2>2
<1>2. ASSUME NEW n \in Nat, n \in S PROVE n + 1 \in S
  <2>1. PICK f : Marking(f, n)
    BY <1>2
  <2> DEFINE g == [k \in 0..(n + 1) |-> IF k <= n THEN k > 1 /\ ~f[k - 1] /\ Takes(argv[k - 1])
                                       ELSE k > 1 /\ ~f[k - 1] /\ Takes(argv[k - 1])]
  <2>2. \A k \in 0..(n + 1) : g[k] = (k > 1 /\ ~f[k - 1] /\ Takes(argv[k - 1]))
    BY Zenon
  <2>3. \A k \in 0..n : g[k] <=> f[k]
    <3>1. \A k \in 0..n : k \in 0..(n + 1)
      OBVIOUS
    <3>. QED BY <2>1, <2>2, <3>1, MarkingAt, Zenon
  <2>4. \A k \in 0..(n + 1) : k > 1 => k - 1 \in 0..n
    OBVIOUS
  <2>5. \A k \in 0..(n + 1) : g[k] = (k > 1 /\ ~g[k - 1] /\ Takes(argv[k - 1]))
    BY <2>2, <2>3, <2>4, Zenon
  <2>6. DOMAIN g = 0..(n + 1) /\ g = [k \in 0..(n + 1) |-> g[k]]
    BY Zenon
  <2>7. Marking(g, n + 1)
    <3>. HIDE DEF g
    <3>. QED BY <2>5, <2>6, Zenon DEF Marking
  <2>. QED BY <2>7
<1>. HIDE DEF S
<1>3. \A n \in Nat : n \in S
  BY <1>1, <1>2, AllNaturals
<1>. QED BY <1>3 DEF S

LEMMA ValuesAre ==
    ASSUME Len(argv) \in Nat
    PROVE  \E f : Marking(f, Len(argv)) /\ Values = {n \in DOMAIN argv : f[n]}
<1> DEFINE isValue == CHOOSE f : f = [k \in 0..Len(argv) |->
                                        k > 1 /\ ~f[k - 1] /\ Takes(argv[k - 1])]
<1>1. \E f : f = [k \in 0..Len(argv) |-> k > 1 /\ ~f[k - 1] /\ Takes(argv[k - 1])]
  BY MarkingExists, Zenon DEF Marking
<1>2. Marking(isValue, Len(argv))
  BY <1>1, Zenon DEF Marking
<1>3. Values = {n \in DOMAIN argv : isValue[n]}
  BY Zenon DEF Values
<1>. QED BY <1>2, <1>3, Zenon

\* A word is a value if the one before it takes one and is none itself.
LEMMA ValuesFacts ==
    ASSUME argv \in Seq(Word)
    PROVE  /\ Values \subseteq DOMAIN argv
           /\ \A n \in DOMAIN argv : n \in Values <=> /\ n > 1 /\ n - 1 \notin Values
                                                      /\ Takes(argv[n - 1])
<1>1. Len(argv) \in Nat /\ DOMAIN argv = 1..Len(argv)
  BY LenProperties
<1>2. PICK f : Marking(f, Len(argv)) /\ Values = {n \in DOMAIN argv : f[n]}
  BY <1>1, ValuesAre
<1>3. \A k \in 0..Len(argv) : f[k] <=> k > 1 /\ ~f[k - 1] /\ Takes(argv[k - 1])
  BY <1>1, <1>2, MarkingAt, Zenon
<1>4. \A n \in DOMAIN argv : n \in 0..Len(argv) /\ (n > 1 => n - 1 \in DOMAIN argv)
  BY <1>1
<1>. QED BY <1>2, <1>3, <1>4, Zenon

-----------------------------------------------------------------------------
(* The inductive invariant.                                                *)

Typed == argv \in Seq(Word) /\ output \in Seq(Nat) /\ TypeOK

\* The parser is at a word that is no value, setCodeList() at a line of the
\* list that the next word names, and main() behind the last word.
InPlace ==
    /\ i \notin Values
    /\ pc = "read" => /\ i \in DOMAIN argv /\ ItemOf(argv[i]) \in {Whitelist, Blacklist}
                      /\ i + 1 \in DOMAIN argv /\ argv[i + 1] \in File
                      /\ line \in 1..Len(CurrentFile) + 1
    /\ pc = "listen" => Parsed /\ output = <<>>

\* What has been understood so far.
UnderstoodUp ==
    \A n \in DOMAIN argv \ Values : n < i =>
        /\ output = <<>> => ItemOf(argv[n]) # 0
        /\ ItemOf(argv[n]) # Help
        /\ Takes(argv[n]) => n + 1 \in DOMAIN argv
        /\ ItemOf(argv[n]) \in {Whitelist, Blacklist} => argv[n + 1] \in File

\* The value an option has so far.
Before(k) == {n \in Options({k}) : n < i}
StoredUp ==
    \A k \in DOMAIN Items : Items[k].type = "TYPE_STRING" =>
        container[k] = IF Before(k) = {} THEN 0 ELSE Max(Before(k)) + 1

\* What has been read of the lists so far: of earlier ones everything, of the
\* current one the lines before the next.
Reached(n, m) == n < i \/ (pc = "read" /\ n = i /\ m < line)
Opened(n) == n < i \/ (pc = "read" /\ n = i)
Lists == Options({Whitelist, Blacklist})
LinesRead ==
    pc = "read" => \A m \in 1..(line - 1) : CurrentFile[m].kind \notin {"incomplete", "invalid"}
NamesExist ==
    \A n \in Lists : n < i => \A m \in Effective(argv[n + 1]) : LineOf(n, m).kind # "invalid"

\* What setCodeList() makes of an event so far: the last line that touches it
\* decides, and without one, whether there has been a whitelist.  A type.* touches
\* the first code of its type only.
Touches(l, e) ==
    \/ l.kind = "event" /\ l.event = e
    \/ l.kind = "type" /\ e = FirstCode(l.type)
Whitelists == {n \in Options({Whitelist}) : Opened(n)}
Counts(n) == \A w \in Whitelists : w <= n
Marked(n, m, e) ==
    /\ n \in Lists /\ Reached(n, m) /\ Counts(n)
    /\ m \in Effective(argv[n + 1]) /\ Touches(LineOf(n, m), e)
Latest(n, m, e) ==
    /\ Marked(n, m, e)
    /\ \A x, y \in Nat : Marked(x, y, e) => Later(<<n, m>>, <<x, y>>)
Sets(n, m) == ItemOf(argv[n]) = Whitelist \/ LineOf(n, m).kind = "type"
Judged(e) ==
    \/ /\ \A n, m \in Nat : ~Marked(n, m, e)
       /\ e \in whitelist <=> Whitelists = {}
    \/ \E n, m \in Nat : Latest(n, m, e) /\ (e \in whitelist <=> Sets(n, m))

ListsInv == LinesRead /\ NamesExist /\ (pc # "exited" => \A e \in Event : Judged(e))

IInv == Typed /\ InPlace /\ UnderstoodUp /\ StoredUp /\ ListsInv

-----------------------------------------------------------------------------
(* The command line does not change, and a step moves over an option with  *)
(* its value, or over a word without.                                      *)

LEMMA SameWords ==
    ASSUME argv' = argv
    PROVE  Values' = Values /\ \A K : Options(K)' = Options(K)
<1>1. Values' = Values
  BY DEF Values
<1>. QED BY <1>1, Zenon DEF Options, ItemOf, Matching

LEMMA WordsFacts ==
    ASSUME Typed
    PROVE  /\ Len(argv) \in Nat /\ DOMAIN argv = 1..Len(argv) /\ i \in Nat \ {0}
           /\ Values \subseteq DOMAIN argv
           /\ \A K : Options(K) \subseteq DOMAIN argv
BY LenProperties, ValuesFacts DEF Typed, TypeOK, Options

Moves ==
    /\ i \in DOMAIN argv /\ argv' = argv
    /\ \/ ~Takes(argv[i]) /\ i' = i + 1
       \/ Takes(argv[i]) /\ i + 1 \in DOMAIN argv /\ i' = i + 2

LEMMA MovesOn ==
    ASSUME Typed, i \notin Values, Moves
    PROVE  /\ i' \in 1..Len(argv') + 1 /\ i' \notin Values'
           /\ \A n \in DOMAIN argv \ Values : n < i' <=> n < i \/ n = i
           /\ \A K : Options(K)' = Options(K)
<1>0. /\ Len(argv) \in Nat /\ DOMAIN argv = 1..Len(argv) /\ i \in Nat \ {0}
      /\ i \in 1..Len(argv) /\ argv' = argv /\ Values' = Values
      /\ \A K : Options(K)' = Options(K)
      /\ Values \subseteq DOMAIN argv
      /\ \A n \in DOMAIN argv : n \in Values <=> /\ n > 1 /\ n - 1 \notin Values
                                                 /\ Takes(argv[n - 1])
  BY WordsFacts, SameWords, ValuesFacts DEF Moves, Typed
<1>1. CASE ~Takes(argv[i]) /\ i' = i + 1
  <2>1. i + 1 \in DOMAIN argv => i + 1 \notin Values
    <3>1. (i + 1) - 1 = i
      BY <1>0
    <3>. QED BY <1>0, <1>1, <3>1
  <2>2. \A n \in DOMAIN argv : n < i + 1 <=> n < i \/ n = i
    BY <1>0
  <2>. QED BY <1>0, <1>1, <2>1, <2>2
<1>2. CASE Takes(argv[i]) /\ i + 1 \in DOMAIN argv /\ i' = i + 2
  <2>1. i + 1 \in Values
    <3>1. i + 1 > 1 /\ (i + 1) - 1 = i
      BY <1>0
    <3>. QED BY <1>0, <1>2, <3>1
  <2>2. i + 2 \notin Values
    <3>1. (i + 2) - 1 = i + 1
      BY <1>0
    <3>. QED BY <1>0, <2>1, <3>1
  <2>3. \A n \in DOMAIN argv \ Values : n < i + 2 <=> n < i \/ n = i
    <3>1. \A n \in DOMAIN argv \ Values : n # i + 1
      BY <2>1
    <3>. QED BY <1>0, <3>1
  <2>4. i + 2 \in 1..Len(argv) + 1
    BY <1>0, <1>2
  <2>. QED BY <1>0, <1>2, <2>2, <2>3, <2>4
<1>. QED BY <1>1, <1>2 DEF Moves

-----------------------------------------------------------------------------
(* What has been understood and stored.                                    *)

LEMMA StayUp ==
    ASSUME Typed, UnderstoodUp, StoredUp, i \notin Values, i' = i, argv' = argv,
           container' = container, output' = output
    PROVE  UnderstoodUp' /\ StoredUp' /\ i' \notin Values'
<1>1. Values' = Values /\ \A K : Options(K)' = Options(K)
  BY SameWords
<1>2. UnderstoodUp'
  BY <1>1 DEF UnderstoodUp
<1>3. \A k : Before(k)' = Before(k)
  BY <1>1 DEF Before
<1>. QED BY <1>1, <1>2, <1>3 DEF StoredUp

LEMMA MoveUnderstood ==
    ASSUME Typed, UnderstoodUp, i \notin Values, Moves,
           output' = <<>> => output = <<>> /\ ItemOf(argv[i]) # 0,
           ItemOf(argv[i]) # Help,
           ItemOf(argv[i]) \in {Whitelist, Blacklist} => argv[i + 1] \in File
    PROVE  UnderstoodUp'
<1>1. /\ argv' = argv /\ Values' = Values
      /\ \A n \in DOMAIN argv \ Values : n < i' <=> n < i \/ n = i
  BY MovesOn, SameWords DEF Moves
<1>2. ASSUME NEW n \in DOMAIN argv \ Values, n < i'
      PROVE  /\ output' = <<>> => ItemOf(argv[n]) # 0
             /\ ItemOf(argv[n]) # Help
             /\ Takes(argv[n]) => n + 1 \in DOMAIN argv
             /\ ItemOf(argv[n]) \in {Whitelist, Blacklist} => argv[n + 1] \in File
  <2>1. CASE n < i
    BY <2>1 DEF UnderstoodUp
  <2>2. CASE n = i
    BY <2>2 DEF Moves
  <2>. QED BY <1>1, <1>2, <2>1, <2>2
<1>. QED BY <1>1, <1>2 DEF UnderstoodUp

\* Moving over a word whose item stores nothing.
LEMMA MoveStored ==
    ASSUME Typed, StoredUp, i \notin Values, Moves, container' = container,
           ItemOf(argv[i]) \in DOMAIN Items => Items[ItemOf(argv[i])].type # "TYPE_STRING"
    PROVE  StoredUp'
<1>1. /\ argv' = argv
      /\ \A n \in DOMAIN argv \ Values : n < i' <=> n < i \/ n = i
      /\ \A K : Options(K)' = Options(K)
  BY MovesOn DEF Moves
<1>2. ASSUME NEW k \in DOMAIN Items, Items[k].type = "TYPE_STRING" PROVE Before(k)' = Before(k)
  <2>1. i \notin Options({k})
    BY <1>2 DEF Options
  <2>2. \A n \in Options({k}) : n < i' <=> n < i
    BY <1>1, <2>1 DEF Options
  <2>. QED BY <1>1, <2>2 DEF Before
<1>. QED BY <1>2 DEF StoredUp

\* Storing a value: the last of its option's so far.
LEMMA StoreStored ==
    ASSUME Typed, StoredUp, i \notin Values, Moves, NEW k \in DOMAIN Items,
           Items[k].type = "TYPE_STRING", ItemOf(argv[i]) = k,
           container' = [container EXCEPT ![k] = i + 1]
    PROVE  StoredUp'
<1>1. /\ argv' = argv /\ i \in DOMAIN argv
      /\ \A n \in DOMAIN argv \ Values : n < i' <=> n < i \/ n = i
      /\ \A K : Options(K)' = Options(K)
  BY MovesOn DEF Moves
<1>2. /\ Len(argv) \in Nat /\ DOMAIN argv = 1..Len(argv) /\ i \in Nat \ {0}
      /\ \A K : Options(K) \subseteq DOMAIN argv
      /\ DOMAIN container = DOMAIN Items
  BY WordsFacts DEF Typed, TypeOK
<1>3. container'[k] = IF Before(k)' = {} THEN 0 ELSE Max(Before(k)') + 1
  <2>1. i \in Options({k}) /\ i < i'
    BY <1>1 DEF Options
  <2>2. Before(k)' = Before(k) \cup {i}
    BY <1>1, <2>1 DEF Before, Options
  <2>3. \A n \in Before(k)' : n <= i
    BY <1>2, <2>2 DEF Before
  <2>4. Before(k)' \subseteq Nat /\ i \in Before(k)'
    <3>1. Before(k) \subseteq Nat
      BY <1>2 DEF Before
    <3>. QED BY <1>2, <2>2, <3>1
  <2>5. Max(Before(k)') = i
    BY <2>3, <2>4, GreatestIs
  <2>. QED BY <1>2, <2>4, <2>5
<1>4. ASSUME NEW j \in DOMAIN Items, Items[j].type = "TYPE_STRING", j # k
      PROVE  container'[j] = container[j] /\ Before(j)' = Before(j)
  <2>1. i \notin Options({j})
    BY <1>4 DEF Options
  <2>2. \A n \in Options({j}) : n < i' <=> n < i
    BY <1>1, <2>1 DEF Options
  <2>. QED BY <1>1, <1>2, <1>4, <2>2 DEF Before
<1>. QED BY <1>3, <1>4 DEF StoredUp

-----------------------------------------------------------------------------
(* What the lists have said.                                               *)

LEMMA FileFacts ==
    ASSUME NEW f \in File
    PROVE  /\ Len(Lines[f]) \in Nat /\ DOMAIN Lines[f] = 1..Len(Lines[f])
           /\ Effective(f) \subseteq DOMAIN Lines[f]
           /\ \A m \in DOMAIN Lines[f] :
                 LET l == Lines[f][m]
                 IN  /\ l.kind \in {"comment", "event", "type", "incomplete", "invalid"}
                     /\ l.kind = "event" => l.event \in Event
                     /\ l.kind = "type" => /\ FirstCode(l.type) \in Event
                                           /\ FirstCode(l.type).type = l.type
<1>1. Len(Lines[f]) \in Nat /\ DOMAIN Lines[f] = 1..Len(Lines[f])
  BY FilesAssumption, LenProperties
<1>2. ASSUME NEW m \in DOMAIN Lines[f]
      PROVE  LET l == Lines[f][m]
             IN  /\ l.kind \in {"comment", "event", "type", "incomplete", "invalid"}
                 /\ l.kind = "event" => l.event \in Event
                 /\ l.kind = "type" => /\ FirstCode(l.type) \in Event
                                       /\ FirstCode(l.type).type = l.type
  <2>1. PICK l : l = Lines[f][m] /\ l \in ToSet(Lines[f])
    BY DEF ToSet
  <2>2. l.kind = "type" => FirstCode(l.type) \in Event /\ FirstCode(l.type).type = l.type
    <3>1. SUFFICES ASSUME l.kind = "type"
                   PROVE  FirstCode(l.type) \in Event /\ FirstCode(l.type).type = l.type
      OBVIOUS
    <3>2. PICK e \in Event : e.type = l.type
      BY <2>1, <3>1, FilesAssumption
    <3>3. \E g \in Event : g.type = l.type /\ g.code = 0
      BY <3>2, EventsAssumption
    <3>. QED BY <3>3 DEF FirstCode
  <2>. QED BY <2>1, <2>2, FilesAssumption
<1>. QED BY <1>1, <1>2 DEF Effective

\* A step that reaches no new mark of e.
LEMMA SameMarks ==
    ASSUME NEW e, argv' = argv, e \in whitelist' <=> e \in whitelist,
           \A n \in Options({Whitelist}) : Opened(n)' <=> Opened(n),
           \A n \in Lists : \A m \in Effective(argv[n + 1]) :
               Touches(LineOf(n, m), e) => (Reached(n, m)' <=> Reached(n, m)),
           Judged(e)
    PROVE  Judged(e)'
<1>1. \A K : Options(K)' = Options(K)
  BY SameWords
<1>2. Whitelists' = Whitelists
  BY <1>1 DEF Whitelists
<1>3. \A n : Counts(n)' <=> Counts(n)
  BY <1>2 DEF Counts
<1>4. \A n, m : Marked(n, m, e)' <=> Marked(n, m, e)
  BY <1>1, <1>3 DEF Marked, Lists, LineOf
<1>5. \A n, m : Latest(n, m, e)' <=> Latest(n, m, e)
  BY <1>4, Zenon DEF Latest
<1>6. \A n, m : Sets(n, m)' <=> Sets(n, m)
  BY DEF Sets, LineOf
<1>. QED BY <1>2, <1>4, <1>5, <1>6, Zenon DEF Judged

\* A line that mentions e decides, for the time being.
LEMMA NewMark ==
    ASSUME Typed, InPlace, LinesRead, NEW e, Reading, UNCHANGED <<argVars, pc>>,
           NEW n, NEW m, n = i, m = line, line' = line + 1,
           Touches(Current, e), e \in whitelist' <=> Sets(n, m)
    PROVE  Judged(e)'
<1>0. /\ Len(argv) \in Nat /\ DOMAIN argv = 1..Len(argv)
      /\ \A K : Options(K) \subseteq DOMAIN argv /\ Options(K)' = Options(K)
      /\ pc = "read" /\ pc' = "read" /\ i' = n /\ argv' = argv
      /\ n \in Nat \ {0} /\ m \in Nat \ {0}
      /\ m \in DOMAIN Lines[argv[n + 1]] /\ Current = LineOf(n, m)
  BY WordsFacts, SameWords DEF Reading, argVars, Typed, TypeOK, CurrentFile, Current, LineOf
<1>1. n \in Lists
  BY <1>0 DEF InPlace, Lists, Options
<1>2. Counts(n)'
  <2>1. \A w \in Whitelists' : w <= n
    BY <1>0 DEF Whitelists, Opened
  <2>. QED BY <1>0, <2>1 DEF Counts
<1>3. m \in Effective(argv[n + 1])
  <2>1. \A x \in 1..m : x \in 1..(line - 1) \/ x = m
    BY <1>0
  <2>2. \A x \in 1..m : Lines[argv[n + 1]][x].kind # "incomplete"
    BY <1>0, <2>1 DEF LinesRead, CurrentFile, Touches, LineOf
  <2>. QED BY <1>0, <2>2 DEF Effective
<1>4. Reached(n, m)'
  BY <1>0 DEF Reached
<1>5. Marked(n, m, e)'
  BY <1>0, <1>1, <1>2, <1>3, <1>4 DEF Marked, Lists, LineOf
<1>6. ASSUME NEW x \in Nat, NEW y \in Nat, Marked(x, y, e)' PROVE Later(<<n, m>>, <<x, y>>)
  <2>1. x < n \/ (x = n /\ y < m + 1)
    BY <1>0, <1>6 DEF Marked, Reached
  <2>2. n > x \/ (n = x /\ m >= y)
    BY <1>0, <2>1
  <2>. QED BY <2>2 DEF Later
<1>7. Latest(n, m, e)'
  BY <1>5, <1>6, Zenon DEF Latest, Later
<1>8. e \in whitelist' <=> Sets(n, m)'
  BY <1>0 DEF Sets, LineOf
<1>. QED BY <1>0, <1>7, <1>8 DEF Judged

-----------------------------------------------------------------------------
(* The invariant holds at first, and every step keeps it.                  *)

LEMMA InitInv == Init => IInv
<1>. SUFFICES ASSUME Init PROVE IInv
  OBVIOUS
<1>1. argv \in Seq(Word) /\ Len(argv) \in Nat /\ i = 1 /\ output = <<>> /\ pc = "parse"
  <2>1. PICK n \in 0..MaxWords : argv \in [1..n -> Word]
    BY DEF Init, ArgsInit
  <2>2. n \in Nat
    BY <2>1, ItemsAssumption
  <2>3. argv \in Seq(Word)
    BY <2>1, <2>2, SeqDef
  <2>. QED BY <2>3, LenProperties DEF Init, ArgsInit
<1>2. Typed
  <2>1. output \in Seq(Nat)
    BY <1>1, EmptySeq
  <2>2. container \in [DOMAIN Items -> 0..Len(argv)]
    BY <1>1 DEF Init, ArgsInit
  <2>. QED BY <1>1, <2>1, <2>2 DEF Typed, TypeOK, Init
<1>3. /\ i \notin Values /\ Values \subseteq DOMAIN argv /\ DOMAIN argv = 1..Len(argv)
      /\ \A K : Options(K) \subseteq DOMAIN argv
  <2>1. Values \subseteq DOMAIN argv /\ (1 \in DOMAIN argv => 1 \notin Values)
    <3>1. ~(1 > 1)
      OBVIOUS
    <3>. QED BY <1>1, <3>1, ValuesFacts, Zenon
  <2>. QED BY <1>1, <1>2, <2>1, WordsFacts
<1>4. \A n \in DOMAIN argv : ~(n < i)
  BY <1>1, <1>3
<1>5. UnderstoodUp
  BY <1>4 DEF UnderstoodUp
<1>6. StoredUp
  <2>1. \A k : Before(k) = {}
    BY <1>3, <1>4 DEF Before
  <2>. QED BY <2>1 DEF StoredUp, Init, ArgsInit
<1>7. ListsInv
  <2>1. Whitelists = {}
    BY <1>1, <1>3, <1>4 DEF Whitelists, Opened
  <2>2. \A n, m, e : ~Marked(n, m, e)
    BY <1>1, <1>3, <1>4 DEF Marked, Lists, Reached
  <2>3. \A e \in Event : Judged(e)
    BY <2>1, <2>2 DEF Judged, Init
  <2>. QED BY <1>1, <1>3, <1>4, <2>3 DEF ListsInv, LinesRead, NamesExist, Lists
<1>. QED BY <1>1, <1>2, <1>3, <1>5, <1>6, <1>7 DEF IInv, InPlace

\* A step of the parser that opens no list.
LEMMA ParserLists ==
    ASSUME IInv, pc = "parse", pc' # "read", argv' = argv, whitelist' = whitelist,
           i' = i \/ (Moves /\ ItemOf(argv[i]) \notin {Whitelist, Blacklist})
    PROVE  ListsInv'
<1>1. /\ Typed /\ i \notin Values /\ ListsInv
      /\ \A K : Options(K)' = Options(K)
  BY SameWords DEF IInv, InPlace
<1>2. \A n \in Lists : n < i' <=> n < i
  <2>1. CASE i' = i
    BY <2>1
  <2>2. CASE Moves /\ ItemOf(argv[i]) \notin {Whitelist, Blacklist}
    <3>1. \A n \in DOMAIN argv \ Values : n < i' <=> n < i \/ n = i
      BY <1>1, <2>2, MovesOn
    <3>. QED BY <2>2, <3>1 DEF Lists, Options
  <2>. QED BY <2>1, <2>2
<1>3. Options({Whitelist}) \subseteq Lists
  BY DEF Lists, Options
<1>4. ASSUME NEW e \in Event, Judged(e) PROVE Judged(e)'
  <2>1. \A n \in Options({Whitelist}) : Opened(n)' <=> Opened(n)
    BY <1>2, <1>3 DEF Opened
  <2>2. \A n \in Lists : \A m : Reached(n, m)' <=> Reached(n, m)
    BY <1>2 DEF Reached
  <2>. QED BY <1>4, <2>1, <2>2, SameMarks
<1>5. NamesExist'
  BY <1>1, <1>2 DEF NamesExist, Lists, LineOf, ListsInv
<1>. QED BY <1>1, <1>4, <1>5 DEF ListsInv, LinesRead

LEMMA CollectInv == ASSUME IInv, pc = "parse", Collect PROVE IInv'
<1>1. /\ Typed /\ i \notin Values /\ i \in DOMAIN argv /\ ItemOf(argv[i]) = 0
      /\ pc' = pc /\ whitelist' = whitelist /\ line' = line /\ container' = container
      /\ argv' = argv /\ i' = i + 1 /\ output' = Append(output, i)
  BY ItemOfWord DEF IInv, InPlace, Collect, NoItem, Advance
<1>2. /\ 0 \notin {Help, Whitelist, Blacklist} /\ 0 \notin DOMAIN Items
  BY ItemsFacts, ArgumentsAssumption
<1>3. Moves
  BY <1>1 DEF Moves, Takes
<1>4. i' \in 1..Len(argv') + 1 /\ i' \notin Values'
  BY <1>1, <1>3, MovesOn
<1>5. output' \in Seq(Nat) /\ output' # <<>>
  BY <1>1 DEF Typed, TypeOK
<1>6. Typed'
  BY <1>1, <1>4, <1>5 DEF Typed, TypeOK
<1>7. UnderstoodUp'
  BY <1>1, <1>2, <1>3, <1>5, MoveUnderstood DEF IInv
<1>8. StoredUp'
  BY <1>1, <1>2, <1>3, MoveStored DEF IInv
<1>9. ListsInv'
  BY <1>1, <1>2, <1>3, ParserLists
<1>. QED BY <1>1, <1>4, <1>6, <1>7, <1>8, <1>9 DEF IInv, InPlace

LEMMA StoreInv == ASSUME IInv, pc = "parse", StoreItem PROVE IInv'
<1>1. PICK k \in DOMAIN Items : Store(k) /\ UNCHANGED <<pc, whitelist, line>>
  BY DEF StoreItem
<1>2. /\ Typed /\ i \notin Values /\ i \in DOMAIN argv /\ ItemOf(argv[i]) = k /\ k # 0
      /\ Items[k].type = "TYPE_STRING" /\ Items[k].arguments = 1
      /\ pc' = pc /\ whitelist' = whitelist /\ line' = line /\ output' = output
      /\ argv' = argv /\ i' = i + 2 /\ container' = [container EXCEPT ![k] = i + 1]
      /\ Len(argv) - i + 1 > 1
  BY <1>1, IsItem, ItemsAssumption DEF IInv, InPlace, Store, Enough, Advance
<1>3. k \notin {Help, Whitelist, Blacklist}
  BY <1>2, ArgumentsAssumption
<1>4. i + 1 \in DOMAIN argv
  BY <1>2, WordsFacts
<1>5. Moves
  BY <1>2, <1>4 DEF Moves, Takes
<1>6. i' \in 1..Len(argv') + 1 /\ i' \notin Values'
  BY <1>2, <1>5, MovesOn
<1>7. Typed'
  <2>1. i + 1 \in 0..Len(argv)
    BY <1>2, <1>4, WordsFacts
  <2>2. container' \in [DOMAIN Items -> 0..Len(argv)]
    BY <1>2, <2>1 DEF Typed, TypeOK
  <2>. QED BY <1>2, <1>6, <2>2 DEF Typed, TypeOK
<1>8. UnderstoodUp'
  BY <1>2, <1>3, <1>5, MoveUnderstood DEF IInv
<1>9. StoredUp'
  BY <1>2, <1>5, StoreStored DEF IInv
<1>10. ListsInv'
  BY <1>2, <1>3, <1>5, ParserLists
<1>. QED BY <1>2, <1>6, <1>7, <1>8, <1>9, <1>10 DEF IInv, InPlace

\* The server gives up where it is.
LEMMA ExitsInv ==
    ASSUME IInv, UNCHANGED argVars, pc' = "exited", line' \in Nat \ {0}, whitelist' \subseteq Event
    PROVE  IInv'
<1>1. /\ Typed /\ i \notin Values /\ UnderstoodUp /\ StoredUp /\ NamesExist
      /\ i' = i /\ argv' = argv /\ container' = container /\ output' = output
  BY DEF IInv, InPlace, ListsInv, argVars
<1>2. UnderstoodUp' /\ StoredUp' /\ i' \notin Values'
  BY <1>1, StayUp
<1>3. NamesExist'
  BY <1>1, SameWords DEF NamesExist, Lists, LineOf
<1>4. Typed'
  BY <1>1 DEF Typed, TypeOK
<1>. QED BY <1>2, <1>3, <1>4 DEF IInv, InPlace, ListsInv, LinesRead

LEMMA StartInv == ASSUME IInv, pc = "parse", Start PROVE IInv'
<1>1. /\ UNCHANGED <<argVars, whitelist, line>> /\ Parsed
      /\ pc' = IF output = <<>> THEN "listen" ELSE "exited"
  BY DEF Start, Goto
<1>2. /\ Typed /\ i \notin Values /\ UnderstoodUp /\ StoredUp
      /\ i' = i /\ argv' = argv /\ container' = container /\ output' = output
      /\ whitelist' = whitelist /\ line' = line
  BY <1>1 DEF IInv, InPlace, argVars
<1>3. CASE output # <<>>
  BY <1>1, <1>2, <1>3, ExitsInv DEF Typed, TypeOK
<1>4. CASE output = <<>>
  <2>1. UnderstoodUp' /\ StoredUp' /\ i' \notin Values'
    BY <1>2, StayUp
  <2>2. ListsInv'
    BY <1>1, <1>2, <1>4, ParserLists
  <2>3. Typed'
    BY <1>1, <1>2, <1>4 DEF Typed, TypeOK
  <2>4. InPlace'
    BY <1>1, <1>2, <1>4, <2>1 DEF InPlace, Parsed
  <2>. QED BY <2>1, <2>2, <2>3, <2>4 DEF IInv
<1>. QED BY <1>3, <1>4

LEMMA GivesUpInv == ASSUME IInv, pc = "parse", Incomplete \/ CallUsage PROVE IInv'
<1>1. UNCHANGED <<argVars, whitelist, line>> /\ pc' = "exited"
  BY DEF Incomplete, NeedsArgument, CallUsage, Returns, argVars, Goto
<1>. QED BY <1>1, ExitsInv DEF IInv, Typed, TypeOK

\* -W or -B and the list it names.
LEMMA OpenListInv == ASSUME IInv, pc = "parse", OpenList PROVE IInv'
<1>1. PICK k \in {Whitelist, Blacklist} : Calls(k) /\ whitelist' = Cleared(k)
  BY DEF OpenList
<1>2. /\ Typed /\ i \notin Values /\ UnderstoodUp /\ StoredUp /\ NamesExist
      /\ i \in DOMAIN argv /\ ItemOf(argv[i]) = k /\ Len(argv) - i + 1 > 1
      /\ UNCHANGED argVars /\ line' = 1
      /\ pc' = IF argv[i + 1] \in File THEN "read" ELSE "exited"
  BY <1>1, IsItem, ArgumentsAssumption
     DEF IInv, InPlace, ListsInv, Calls, Enough, OpenList, Returns, Goto, argVars
<1>3. /\ i + 1 \in DOMAIN argv /\ i \in Nat \ {0} /\ whitelist' \subseteq Event
      /\ i' = i /\ argv' = argv /\ container' = container /\ output' = output
      /\ \A K : Options(K)' = Options(K) /\ Options(K) \subseteq DOMAIN argv
      /\ DOMAIN argv \subseteq Nat
  BY <1>1, <1>2, WordsFacts, SameWords DEF Cleared, Typed, TypeOK, argVars
<1>4. CASE argv[i + 1] \notin File
  BY <1>2, <1>3, <1>4, ExitsInv
<1>5. CASE argv[i + 1] \in File
  <2>1. pc' = "read" /\ Len(Lines[argv[i + 1]]) \in Nat
    BY <1>2, <1>5, FileFacts
  <2>2. UnderstoodUp' /\ StoredUp' /\ i' \notin Values'
    BY <1>2, <1>3, StayUp
  <2>3. Typed'
    BY <1>2, <1>3, <2>1 DEF Typed, TypeOK
  <2>4. InPlace'
    BY <1>2, <1>3, <1>5, <2>1, <2>2 DEF InPlace, CurrentFile
  <2>5. NamesExist'
    BY <1>2, <1>3 DEF NamesExist, Lists, LineOf
  <2>6. LinesRead'
    BY <1>2 DEF LinesRead
  <2>7. ASSUME k = Whitelist, NEW e \in Event PROVE Judged(e)'
    <3>1. whitelist' = {}
      BY <1>1, <2>7 DEF Cleared
    <3>2. i \in Whitelists'
      <4>1. i \in Options({Whitelist})
        BY <1>2, <2>7 DEF Options
      <4>2. \A n : n = i => Opened(n)'
        BY <1>3, <2>1 DEF Opened
      <4>. QED BY <1>3, <4>1, <4>2 DEF Whitelists
    <3>3. ASSUME NEW n \in Nat, NEW m \in Nat PROVE ~Marked(n, m, e)'
      <4>1. SUFFICES ASSUME Marked(n, m, e)' PROVE FALSE
        OBVIOUS
      <4>2. /\ n < i \/ (n = i /\ m < 1)
            /\ i <= n /\ m \in Effective(argv[n + 1])
        BY <1>2, <1>3, <3>2, <4>1 DEF Marked, Reached, Counts
      <4>3. n = i /\ m < 1
        BY <1>3, <4>2
      <4>4. m \in 1..Len(Lines[argv[i + 1]])
        BY <1>5, <4>2, <4>3, FileFacts
      <4>. QED BY <2>1, <4>3, <4>4
    <3>. QED BY <3>1, <3>2, <3>3 DEF Judged
  <2>8. ASSUME k = Blacklist, NEW e \in Event PROVE Judged(e)'
    <3>1. whitelist' = whitelist /\ Judged(e)
      BY <1>1, <2>8, ArgumentsAssumption DEF Cleared, IInv, ListsInv
    <3>2. i \notin Options({Whitelist})
      BY <1>2, <2>8, ArgumentsAssumption DEF Options
    <3>3. \A n \in Options({Whitelist}) : Opened(n)' <=> Opened(n)
      BY <1>3, <3>2 DEF Opened
    <3>4. ASSUME NEW n \in Lists, NEW m \in Effective(argv[n + 1])
          PROVE  Reached(n, m)' <=> Reached(n, m)
      <4>1. n = i => m \in 1..Len(Lines[argv[i + 1]])
        BY <1>5, <3>4, FileFacts
      <4>2. ~(n = i /\ m < 1)
        BY <2>1, <4>1
      <4>. QED BY <1>2, <1>3, <4>2 DEF Reached
    <3>. QED BY <1>3, <3>1, <3>3, <3>4, SameMarks
  <2>9. \A e \in Event : Judged(e)'
    BY <2>7, <2>8
  <2>. QED BY <2>2, <2>3, <2>4, <2>5, <2>6, <2>9 DEF IInv, ListsInv
<1>. QED BY <1>4, <1>5

-----------------------------------------------------------------------------
(* setCodeList() line by line.                                             *)

LEMMA ReadingFacts ==
    ASSUME IInv, pc = "read"
    PROVE  LET file == argv[i + 1]
           IN  /\ Typed /\ i \notin Values /\ UnderstoodUp /\ StoredUp
               /\ LinesRead /\ NamesExist /\ (\A e \in Event : Judged(e))
               /\ i \in DOMAIN argv /\ i \in Nat \ {0} /\ i + 1 \in DOMAIN argv
               /\ ItemOf(argv[i]) \in {Whitelist, Blacklist} /\ Takes(argv[i])
               /\ Flag <=> ItemOf(argv[i]) = Whitelist
               /\ file \in File /\ Len(Lines[file]) \in Nat
               /\ DOMAIN Lines[file] = 1..Len(Lines[file])
               /\ line \in 1..Len(Lines[file]) + 1
               /\ CurrentFile = Lines[file] /\ Current = Lines[file][line]
               /\ whitelist \subseteq Event
<1>1. /\ Typed /\ i \notin Values /\ UnderstoodUp /\ StoredUp
      /\ LinesRead /\ NamesExist /\ (\A e \in Event : Judged(e))
      /\ i \in DOMAIN argv /\ i + 1 \in DOMAIN argv
      /\ ItemOf(argv[i]) \in {Whitelist, Blacklist}
      /\ argv[i + 1] \in File /\ line \in 1..Len(CurrentFile) + 1
      /\ whitelist \subseteq Event
  BY DEF IInv, InPlace, ListsInv, Typed, TypeOK
<1>2. ItemOf(argv[i]) # 0 /\ Items[ItemOf(argv[i])].arguments = 1
  BY <1>1, ItemsFacts, ArgumentsAssumption
<1>3. Takes(argv[i])
  BY <1>2 DEF Takes
<1>4. Flag <=> ItemOf(argv[i]) = Whitelist
  <2>1. Matching(argv[i]) # {} /\ ItemOf(argv[i]) = Min(Matching(argv[i]))
    BY <1>2, ItemOfWord
  <2>. QED BY <1>1, <2>1 DEF Flag, Is
<1>. QED BY <1>1, <1>3, <1>4, WordsFacts, FileFacts DEF CurrentFile, Current

\* The next line.
LEMMA ReadsOn ==
    ASSUME IInv, Reading, UNCHANGED <<argVars, pc>>, line' = line + 1,
           Current.kind \notin {"incomplete", "invalid"}, whitelist' \subseteq Event,
           \A e \in Event : Judged(e)'
    PROVE  IInv'
<1>1. /\ pc = "read" /\ pc' = "read" /\ line \in DOMAIN CurrentFile
      /\ i' = i /\ argv' = argv /\ container' = container /\ output' = output
  BY DEF Reading, argVars
<1>2. /\ Typed /\ i \notin Values /\ UnderstoodUp /\ StoredUp /\ LinesRead /\ NamesExist
      /\ i \in DOMAIN argv /\ i + 1 \in DOMAIN argv /\ CurrentFile' = CurrentFile
      /\ ItemOf(argv[i]) \in {Whitelist, Blacklist} /\ argv[i + 1] \in File
      /\ Len(CurrentFile) \in Nat /\ DOMAIN CurrentFile = 1..Len(CurrentFile)
      /\ Current = CurrentFile[line]
  BY <1>1, ReadingFacts DEF CurrentFile
<1>3. UnderstoodUp' /\ StoredUp' /\ i' \notin Values'
  BY <1>1, <1>2, StayUp
<1>4. line' \in Nat \ {0} /\ line' \in 1..Len(CurrentFile) + 1
  BY <1>1, <1>2
<1>5. Typed'
  BY <1>1, <1>2, <1>4 DEF Typed, TypeOK
<1>6. InPlace'
  BY <1>1, <1>2, <1>3, <1>4 DEF InPlace
<1>7. LinesRead'
  <2>1. \A m \in 1..(line' - 1) : m \in 1..(line - 1) \/ m = line
    BY <1>1, <1>2
  <2>2. \A m \in 1..(line' - 1) : CurrentFile[m].kind \notin {"incomplete", "invalid"}
    BY <1>1, <1>2, <2>1 DEF LinesRead
  <2>. QED BY <1>2, <2>2 DEF LinesRead
<1>8. NamesExist'
  BY <1>1, <1>2, SameWords DEF NamesExist, Lists, LineOf
<1>. QED BY <1>3, <1>5, <1>6, <1>7, <1>8 DEF IInv, ListsInv

LEMMA NoMention ==
    ASSUME IInv, Reading, UNCHANGED <<argVars, pc>>, line' = line + 1,
           NEW e \in Event, ~Touches(Current, e), e \in whitelist' <=> e \in whitelist
    PROVE  Judged(e)'
<1>1. /\ pc = "read" /\ pc' = "read" /\ i' = i /\ argv' = argv
  BY DEF Reading, argVars
<1>2. Judged(e) /\ line \in Nat /\ Current = LineOf(i, line)
  BY <1>1, ReadingFacts DEF LineOf
<1>3. \A n \in Options({Whitelist}) : Opened(n)' <=> Opened(n)
  BY <1>1 DEF Opened
<1>4. ASSUME NEW n \in Lists, NEW m \in Effective(argv[n + 1]), Touches(LineOf(n, m), e)
      PROVE  Reached(n, m)' <=> Reached(n, m)
  <2>1. ~(n = i /\ m = line)
    BY <1>2, <1>4
  <2>2. n = i => m \in Nat
    <3>1. SUFFICES ASSUME n = i PROVE m \in Nat
      OBVIOUS
    <3>2. m \in DOMAIN Lines[argv[i + 1]]
      BY <1>1, <1>4, <3>1, ReadingFacts, FileFacts
    <3>. QED BY <1>1, <3>2, ReadingFacts
  <2>. QED BY <1>1, <1>2, <2>1, <2>2 DEF Reached
<1>. QED BY <1>1, <1>2, <1>3, <1>4, SameMarks

LEMMA SkipCommentInv == ASSUME IInv, SkipComment PROVE IInv'
<1>1. /\ Reading /\ Current.kind = "comment" /\ UNCHANGED <<argVars, pc>> /\ line' = line + 1
      /\ whitelist' = whitelist /\ pc = "read"
  BY DEF SkipComment, NextLine, Reading
<1>2. \A e \in Event : Judged(e)'
  BY <1>1, NoMention DEF Touches
<1>3. whitelist' \subseteq Event
  BY <1>1 DEF IInv, Typed, TypeOK
<1>. QED BY <1>1, <1>2, <1>3, ReadsOn

LEMMA SetEventInv == ASSUME IInv, SetEvent PROVE IInv'
<1>1. /\ Reading /\ Current.kind = "event" /\ UNCHANGED <<argVars, pc>> /\ line' = line + 1
      /\ whitelist' = IF Flag THEN whitelist \cup {Current.event}
                              ELSE whitelist \ {Current.event}
      /\ pc = "read"
  BY DEF SetEvent, NextLine, Reading
<1>2. Current.event \in Event
  BY <1>1, ReadingFacts, FileFacts DEF Reading
<1>3. \A e : Touches(Current, e) <=> e = Current.event
  BY <1>1 DEF Touches
<1>4. ASSUME NEW e \in Event PROVE Judged(e)'
  <2>1. CASE e # Current.event
    BY <1>1, <1>3, <2>1, NoMention
  <2>2. CASE e = Current.event
    <3>1. PICK n, m : n = i /\ m = line
      OBVIOUS
    <3>2. e \in whitelist' <=> Sets(n, m)
      BY <1>1, <2>2, <3>1, ReadingFacts DEF Sets, LineOf
    <3>. QED BY <1>1, <1>3, <2>2, <3>1, <3>2, NewMark DEF IInv, ListsInv
  <2>. QED BY <2>1, <2>2
<1>5. whitelist' \subseteq Event
  BY <1>1, <1>2 DEF IInv, Typed, TypeOK
<1>. QED BY <1>1, <1>4, <1>5, ReadsOn

LEMMA SetTypeInv == ASSUME IInv, SetType PROVE IInv'
<1>1. /\ Reading /\ Current.kind = "type" /\ UNCHANGED <<argVars, pc>> /\ line' = line + 1
      /\ whitelist' = whitelist \cup {FirstCode(Current.type)}
      /\ pc = "read"
  BY DEF SetType, NextLine, Reading
<1>2. FirstCode(Current.type) \in Event
  BY <1>1, ReadingFacts, FileFacts DEF Reading
<1>3. \A e : Touches(Current, e) <=> e = FirstCode(Current.type)
  BY <1>1 DEF Touches
<1>4. ASSUME NEW e \in Event PROVE Judged(e)'
  <2>1. CASE e # FirstCode(Current.type)
    BY <1>1, <1>3, <2>1, NoMention
  <2>2. CASE e = FirstCode(Current.type)
    <3>1. PICK n, m : n = i /\ m = line
      OBVIOUS
    <3>2. e \in whitelist' <=> Sets(n, m)
      BY <1>1, <2>2, <3>1, ReadingFacts DEF Sets, LineOf
    <3>. QED BY <1>1, <1>3, <2>2, <3>1, <3>2, NewMark DEF IInv, ListsInv
  <2>. QED BY <2>1, <2>2
<1>5. whitelist' \subseteq Event
  BY <1>1, <1>2 DEF IInv, Typed, TypeOK
<1>. QED BY <1>1, <1>4, <1>5, ReadsOn

\* The end of a list of which all that counts has been read.
LEMMA ListEndsInv ==
    ASSUME IInv, pc = "read", ListEnds(1), \A m \in Effective(argv[i + 1]) : m < line
    PROVE  IInv'
<1>1. /\ pc' = "parse" /\ line' = 1 /\ whitelist' = whitelist
      /\ argv' = argv /\ i' = i + 2 /\ container' = container /\ output' = output
  BY ReadingFacts DEF ListEnds, Returns, Goto, Advance
<1>2. /\ Typed /\ i \notin Values /\ UnderstoodUp /\ StoredUp /\ LinesRead /\ NamesExist
      /\ i \in DOMAIN argv /\ i \in Nat \ {0} /\ i + 1 \in DOMAIN argv
      /\ ItemOf(argv[i]) \in {Whitelist, Blacklist} /\ Takes(argv[i])
      /\ argv[i + 1] \in File /\ CurrentFile = Lines[argv[i + 1]] /\ line \in Nat
      /\ Effective(argv[i + 1]) \subseteq Nat \ {0}
      /\ \A e \in Event : Judged(e)
  <2>1. Effective(argv[i + 1]) \subseteq Nat \ {0}
    BY ReadingFacts, FileFacts
  <2>. QED BY <2>1, ReadingFacts
<1>3. Moves
  BY <1>1, <1>2 DEF Moves
<1>4. /\ i' \in 1..Len(argv') + 1 /\ i' \notin Values'
      /\ \A n \in DOMAIN argv \ Values : n < i' <=> n < i \/ n = i
      /\ \A K : Options(K)' = Options(K)
  BY <1>2, <1>3, MovesOn
<1>5. Typed'
  BY <1>1, <1>2, <1>4 DEF Typed, TypeOK
<1>6. ItemOf(argv[i]) # Help /\ ItemOf(argv[i]) # 0
      /\ Items[ItemOf(argv[i])].type # "TYPE_STRING"
  BY <1>2, ArgumentsAssumption, ItemsFacts
<1>7. UnderstoodUp'
  BY <1>1, <1>2, <1>3, <1>6, MoveUnderstood
<1>8. StoredUp'
  BY <1>1, <1>2, <1>3, <1>6, MoveStored
<1>9. \A n \in Lists : n < i' <=> n < i \/ n = i
  BY <1>4 DEF Lists, Options
<1>10. NamesExist'
  <2>1. ASSUME NEW n \in Lists, n < i', NEW m \in Effective(argv[n + 1])
        PROVE  LineOf(n, m).kind # "invalid"
    <3>1. CASE n < i
      BY <1>2, <3>1 DEF NamesExist
    <3>2. CASE n = i
      <4>1. m \in 1..(line - 1)
        BY <1>2, <2>1, <3>2
      <4>. QED BY <1>2, <3>2, <4>1 DEF LinesRead, LineOf
    <3>. QED BY <1>9, <2>1, <3>1, <3>2
  <2>. QED BY <1>1, <1>4, <2>1 DEF NamesExist, Lists, LineOf
<1>11. ASSUME NEW e \in Event PROVE Judged(e)'
  <2>1. \A n \in Options({Whitelist}) : Opened(n)' <=> Opened(n)
    BY <1>1, <1>4 DEF Opened, Options
  <2>2. ASSUME NEW n \in Lists, NEW m \in Effective(argv[n + 1])
        PROVE  Reached(n, m)' <=> Reached(n, m)
    BY <1>1, <1>9, <2>2 DEF Reached
  <2>. QED BY <1>1, <1>2, <2>1, <2>2, SameMarks
<1>. QED BY <1>1, <1>4, <1>5, <1>7, <1>8, <1>10, <1>11 DEF IInv, InPlace, ListsInv, LinesRead

LEMMA EndsInv == ASSUME IInv, IncompleteLine \/ EndOfFile PROVE IInv'
<1>1. pc = "read" /\ ListEnds(1)
  BY DEF IncompleteLine, EndOfFile, Reading
<1>2. ASSUME NEW m \in Effective(argv[i + 1]) PROVE m < line
  <2>1. /\ m \in 1..Len(CurrentFile) /\ line \in 1..Len(CurrentFile) + 1
        /\ Len(CurrentFile) \in Nat /\ DOMAIN CurrentFile = 1..Len(CurrentFile)
        /\ \A x \in 1..m : CurrentFile[x].kind # "incomplete"
    BY <1>1, ReadingFacts, FileFacts DEF Effective
  <2>2. CASE IncompleteLine
    <3>1. line \notin 1..m
      BY <2>1, <2>2, <1>1, ReadingFacts DEF IncompleteLine
    <3>. QED BY <2>1, <3>1
  <2>3. CASE EndOfFile
    BY <2>1, <2>3 DEF EndOfFile
  <2>. QED BY <2>2, <2>3
<1>. QED BY <1>1, <1>2, ListEndsInv

LEMMA InvalidLineInv == ASSUME IInv, InvalidLine PROVE IInv'
<1>1. UNCHANGED argVars /\ pc' = "exited" /\ line' = 1 /\ whitelist' = whitelist
  BY DEF InvalidLine, ListEnds, Returns, Goto, argVars
<1>. QED BY <1>1, ExitsInv DEF IInv, Typed, TypeOK

-----------------------------------------------------------------------------
(* The theorems.                                                           *)

LEMMA StutterInv == ASSUME IInv, UNCHANGED vars PROVE IInv'
<1>1. /\ Typed /\ i \notin Values /\ UnderstoodUp /\ StoredUp /\ ListsInv
      /\ i' = i /\ argv' = argv /\ container' = container /\ output' = output
      /\ pc' = pc /\ whitelist' = whitelist /\ line' = line
  BY DEF IInv, InPlace, vars, argVars
<1>2. UnderstoodUp' /\ StoredUp' /\ i' \notin Values'
  BY <1>1, StayUp
<1>3. Typed'
  BY <1>1 DEF Typed, TypeOK
<1>4. InPlace'
  BY <1>1, <1>2 DEF IInv, InPlace, CurrentFile, Parsed
<1>5. LinesRead' /\ NamesExist'
  BY <1>1, SameWords DEF ListsInv, LinesRead, NamesExist, Lists, LineOf, CurrentFile
<1>6. ASSUME NEW e, Judged(e) PROVE Judged(e)'
  BY <1>1, <1>6, SameMarks DEF Opened, Reached
<1>. QED BY <1>1, <1>2, <1>3, <1>4, <1>5, <1>6 DEF IInv, ListsInv

LEMMA NextInv == IInv /\ [Next]_vars => IInv'
<1>. SUFFICES ASSUME IInv, [Next]_vars PROVE IInv'
  OBVIOUS
<1>1. CASE Parse
  BY <1>1, CollectInv, StoreInv, GivesUpInv, OpenListInv, StartInv DEF Parse
<1>2. CASE Read
  BY <1>2, SkipCommentInv, SetEventInv, SetTypeInv, EndsInv, InvalidLineInv DEF Read
<1>3. CASE Decided
  BY <1>3, StutterInv DEF Decided
<1>. QED BY <1>1, <1>2, <1>3, StutterInv DEF Next

\* What has been parsed is understood and stored, and what has been read is in
\* force, at every word and every line (eargs_parse(), setCodeList()).
THEOREM Invariant == Spec => []IInv
BY InitInv, NextInv, PTL DEF Spec

\* The parser's index stays on the command line, and what it stores too
\* (eargs_parse() skipping an item's arguments).
THEOREM TypesHold == Spec => []TypeOK
<1>1. IInv => TypeOK
  BY DEF IInv, Typed
<1>. QED BY <1>1, Invariant, PTL

\* When the server listens, the parser is behind every word.
LEMMA AtTheEnd ==
    ASSUME IInv, pc = "listen"
    PROVE  /\ output = <<>> /\ Len(argv) \in Nat /\ DOMAIN argv = 1..Len(argv)
           /\ \A n \in DOMAIN argv : n < i
           /\ \A K : Options(K) \subseteq DOMAIN argv
<1>1. Typed /\ Parsed /\ output = <<>>
  BY DEF IInv, InPlace
<1>. QED BY <1>1, WordsFacts DEF Parsed

\* The server starts only on a command line of options and their values.
THEOREM LineUnderstood == Spec => []AllUnderstood
<1>1. ASSUME IInv PROVE AllUnderstood
  <2>1. SUFFICES ASSUME pc = "listen"
                 PROVE  /\ \A n \in DOMAIN argv \ Values :
                             /\ ItemOf(argv[n]) \notin {0, Help}
                             /\ Takes(argv[n]) => n + 1 \in Values
                        /\ \A n \in Options({Whitelist, Blacklist}) : argv[n + 1] \in File
    BY DEF AllUnderstood
  <2>2. ASSUME NEW n \in DOMAIN argv \ Values
        PROVE  /\ ItemOf(argv[n]) \notin {0, Help}
               /\ Takes(argv[n]) => n + 1 \in DOMAIN argv
               /\ ItemOf(argv[n]) \in {Whitelist, Blacklist} => argv[n + 1] \in File
    BY <1>1, <2>1, AtTheEnd DEF IInv, UnderstoodUp
  <2>3. ASSUME NEW n \in DOMAIN argv \ Values, Takes(argv[n]) PROVE n + 1 \in Values
    <3>1. n + 1 \in DOMAIN argv
      BY <2>2, <2>3
    <3>2. n + 1 > 1 /\ (n + 1) - 1 = n
      BY <1>1, <2>1, AtTheEnd
    <3>. QED BY <1>1, <2>3, <3>1, <3>2, ValuesFacts DEF IInv, Typed
  <2>. QED BY <2>2, <2>3 DEF Options
<1>. QED BY <1>1, Invariant, PTL

\* An option given twice has its later value, whatever stands between.
THEOREM LastValuesCount == Spec => []LastValueCounts
<1>1. ASSUME IInv PROVE LastValueCounts
  <2>1. SUFFICES ASSUME pc = "listen", NEW k \in DOMAIN Items, Items[k].type = "TYPE_STRING"
                 PROVE  container[k] = IF Options({k}) = {} THEN 0 ELSE Max(Options({k})) + 1
    BY DEF LastValueCounts
  <2>2. Before(k) = Options({k})
    BY <1>1, <2>1, AtTheEnd DEF Before
  <2>. QED BY <1>1, <2>1, <2>2 DEF IInv, StoredUp
<1>. QED BY <1>1, Invariant, PTL

\* No list with a wrong name is half in force.
THEOREM NoneHalf == Spec => []NoHalfList
<1>1. ASSUME IInv PROVE NoHalfList
  <2>1. SUFFICES ASSUME pc = "listen", NEW n \in Lists, NEW m \in Effective(argv[n + 1])
                 PROVE  LineOf(n, m).kind # "invalid"
    BY DEF NoHalfList, Lists, LineOf
  <2>2. n < i
    BY <1>1, <2>1, AtTheEnd DEF Lists
  <2>. QED BY <1>1, <2>1, <2>2 DEF IInv, ListsInv, NamesExist
<1>. QED BY <1>1, Invariant, PTL

\* The whitelists on the command line, and the last of them.
LEMMA AllOpened ==
    ASSUME IInv, pc = "listen"
    PROVE  /\ Whitelists = Options({Whitelist}) /\ LastWhitelist \in Nat
           /\ LastWhitelist = 0 <=> Whitelists = {}
           /\ \A n \in DOMAIN argv : Counts(n) <=> n >= LastWhitelist
<1>1. /\ Len(argv) \in Nat /\ DOMAIN argv = 1..Len(argv)
      /\ Options({Whitelist}) \subseteq 1..Len(argv)
      /\ \A n \in DOMAIN argv : n < i
  BY AtTheEnd
<1>2. Whitelists = Options({Whitelist})
  BY <1>1 DEF Whitelists, Opened
<1>3. CASE Whitelists = {}
  <2>1. LastWhitelist = 0
    BY <1>2, <1>3 DEF LastWhitelist
  <2>2. ASSUME NEW n \in DOMAIN argv PROVE Counts(n) /\ n >= 0
    BY <1>1, <1>3 DEF Counts
  <2>. QED BY <1>2, <1>3, <2>1, <2>2
<1>4. CASE Whitelists # {}
  <2>1. PICK w : w = LastWhitelist
    OBVIOUS
  <2>2. w = Max(Whitelists)
    BY <1>2, <1>4, <2>1 DEF LastWhitelist
  <2>3. w \in Whitelists /\ \A x \in Whitelists : x <= w
    BY <1>1, <1>2, <1>4, <2>2, GreatestNumber
  <2>4. w \in 1..Len(argv) /\ w # 0 /\ w \in Nat
    BY <1>1, <1>2, <2>3
  <2>5. ASSUME NEW n \in DOMAIN argv PROVE Counts(n) <=> n >= w
    <3>1. n \in Nat /\ Whitelists \subseteq Nat
      <4>1. Whitelists \subseteq 1..Len(argv) /\ n \in 1..Len(argv) /\ Len(argv) \in Nat
        BY <1>1, <1>2, Zenon
      <4>. QED BY <4>1
    <3>2. ASSUME Counts(n) PROVE n >= w
      BY <2>3, <2>4, <3>1, <3>2 DEF Counts
    <3>3. ASSUME n >= w, NEW x \in Whitelists PROVE x <= n
      BY <2>3, <2>4, <3>1, <3>3
    <3>. QED BY <3>2, <3>3 DEF Counts
  <2>. QED BY <1>2, <1>4, <2>1, <2>4, <2>5
<1>. QED BY <1>3, <1>4

\* In the end a line that touches an event mentions it, and the other way round
\* if it names it.
LEMMA MarksAre ==
    ASSUME IInv, pc = "listen", NEW e \in Event
    PROVE  /\ \A n, m \in Nat : Marked(n, m, e) => <<n, m>> \in Marks(e)
           /\ \A n, m \in Nat : <<n, m>> \in Marks(e) /\ LineOf(n, m).kind = "event"
                                   => Marked(n, m, e)
           /\ \A p \in Marks(e) : \E n, m \in Nat : p = <<n, m>>
<1>1. /\ DOMAIN argv \subseteq Nat /\ Lists \subseteq DOMAIN argv
      /\ \A n \in DOMAIN argv : n < i
  BY AtTheEnd DEF Lists
<1>2. \A n \in DOMAIN argv : Counts(n) <=> n >= LastWhitelist
  BY AllOpened
<1>3. \A n \in Lists : argv[n + 1] \in File
  BY <1>1 DEF IInv, UnderstoodUp, Lists, Options
<1>4. \A n \in Lists : Effective(argv[n + 1]) \subseteq Nat
  BY <1>3, FileFacts
<1>5. ASSUME NEW n \in Nat, NEW m \in Nat
      PROVE  /\ Marked(n, m, e) => <<n, m>> \in Marks(e)
             /\ <<n, m>> \in Marks(e) /\ LineOf(n, m).kind = "event" => Marked(n, m, e)
  <2>1. Marked(n, m, e) <=> /\ n \in Lists /\ m \in Effective(argv[n + 1])
                            /\ n >= LastWhitelist /\ Touches(LineOf(n, m), e)
    BY <1>1, <1>2 DEF Marked, Reached
  <2>2. <<n, m>> \in UNION {{x} \X Effective(argv[x + 1]) : x \in Lists}
          <=> n \in Lists /\ m \in Effective(argv[n + 1])
    OBVIOUS
  <2>3. <<n, m>> \in Marks(e) <=>
            /\ <<n, m>> \in UNION {{x} \X Effective(argv[x + 1]) : x \in Lists}
            /\ n >= LastWhitelist /\ Mentions(LineOf(n, m), e)
    BY DEF Marks, Lists
  <2>4. n \in Lists /\ m \in Effective(argv[n + 1]) /\ Touches(LineOf(n, m), e)
          => Mentions(LineOf(n, m), e)
    <3>1. SUFFICES ASSUME n \in Lists, m \in Effective(argv[n + 1]), Touches(LineOf(n, m), e)
                   PROVE  Mentions(LineOf(n, m), e)
      OBVIOUS
    <3>2. PICK l : l = LineOf(n, m)
      OBVIOUS
    <3>3. argv[n + 1] \in File /\ l = Lines[argv[n + 1]][m]
      BY <1>3, <3>1, <3>2 DEF LineOf
    <3>4. l.kind = "type" => FirstCode(l.type).type = l.type
      BY <3>1, <3>3, FileFacts
    <3>. QED BY <3>1, <3>2, <3>4 DEF Touches, Mentions
  <2>5. LineOf(n, m).kind = "event" /\ Mentions(LineOf(n, m), e) => Touches(LineOf(n, m), e)
    BY DEF Mentions, Touches
  <2>. QED BY <2>1, <2>2, <2>3, <2>4, <2>5
<1>6. ASSUME NEW p \in Marks(e) PROVE \E n, m \in Nat : p = <<n, m>>
  <2>1. PICK x \in Lists : p \in {x} \X Effective(argv[x + 1])
    BY DEF Marks, Lists
  <2>. QED BY <1>1, <1>4, <2>1
<1>. QED BY <1>5, <1>6

\* Clients may use an event as the last line that names it says, unless a type.*
\* of its type comes behind, and an event no line mentions if there is no
\* whitelist, however many lists there are.
THEOREM ListsRead == Spec => []ListsMean
<1>1. ASSUME IInv PROVE ListsMean
  <2>1. SUFFICES ASSUME pc = "listen", NEW e \in Event
                 PROVE  /\ Marks(e) = {} => (e \in whitelist <=> LastWhitelist = 0)
                        /\ \A p \in Marks(e) :
                              /\ LineOf(p[1], p[2]).kind = "event"
                              /\ \A q \in Marks(e) : Later(p, q)
                              => (e \in whitelist <=> ItemOf(argv[p[1]]) = Whitelist)
    BY DEF ListsMean
  <2>2. Judged(e)
    BY <1>1, <2>1 DEF IInv, ListsInv
  <2>3. /\ \A n, m \in Nat : Marked(n, m, e) => <<n, m>> \in Marks(e)
        /\ \A n, m \in Nat : <<n, m>> \in Marks(e) /\ LineOf(n, m).kind = "event"
                                => Marked(n, m, e)
        /\ \A p \in Marks(e) : \E n, m \in Nat : p = <<n, m>>
    BY <1>1, <2>1, MarksAre
  <2>4. ASSUME Marks(e) = {} PROVE e \in whitelist <=> LastWhitelist = 0
    <3>1. \A n, m \in Nat : ~Marked(n, m, e)
      BY <2>3, <2>4
    <3>2. e \in whitelist <=> Whitelists = {}
      BY <2>2, <3>1 DEF Judged, Latest
    <3>. QED BY <1>1, <2>1, <3>2, AllOpened
  <2>5. ASSUME NEW p \in Marks(e), LineOf(p[1], p[2]).kind = "event",
               \A q \in Marks(e) : Later(p, q)
        PROVE  e \in whitelist <=> ItemOf(argv[p[1]]) = Whitelist
    <3>1. PICK x \in Nat, y \in Nat : p = <<x, y>>
      BY <2>3
    <3>2. p[1] = x /\ p[2] = y
      BY <3>1
    <3>3. Marked(x, y, e)
      BY <2>3, <2>5, <3>1, <3>2
    <3>4. PICK n \in Nat, m \in Nat : Latest(n, m, e) /\ (e \in whitelist <=> Sets(n, m))
      BY <2>2, <3>3 DEF Judged
    <3>5. <<n, m>> \in Marks(e) /\ Later(<<n, m>>, <<x, y>>)
      BY <2>3, <3>3, <3>4 DEF Latest
    <3>6. Later(<<x, y>>, <<n, m>>)
      BY <2>5, <3>1, <3>5
    <3>7. x = n /\ y = m
      <4>1. x > n \/ (x = n /\ y >= m)
        BY <3>6 DEF Later
      <4>2. n > x \/ (n = x /\ m >= y)
        BY <3>5 DEF Later
      <4>. QED BY <4>1, <4>2
    <3>8. LineOf(n, m).kind = "event"
      BY <2>5, <3>2, <3>7
    <3>. QED BY <3>2, <3>4, <3>7, <3>8 DEF Sets
  <2>. QED BY <2>4, <2>5
<1>. QED BY <1>1, Invariant, PTL
=============================================================================
