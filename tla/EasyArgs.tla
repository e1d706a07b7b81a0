------------------------------ MODULE EasyArgs ------------------------------
(***************************************************************************)
(* The argument parser (libs/easy_args.c): a list of items, each with its  *)
(* spellings and the arguments it takes, and a loop over argv that stores  *)
(* an item's argument, calls its function, or keeps the word as output.    *)
(* An item for a number stores like one for a string.  Flags are left out: *)
(* no program has one.  What a function does is the program's; here it     *)
(* returns a number.                                                       *)
(***************************************************************************)
EXTENDS Integers, SequencesExt

CONSTANTS
    Items,      \* sequence of [names, type, arguments], in the order they were added
    Word,       \* command line words
    MaxWords    \* bound: words behind the program's name

ASSUME ItemsAssumption ==
    /\ Items \in Seq(ToSet(Items)) /\ MaxWords \in Nat
    /\ \A k \in DOMAIN Items : /\ Items[k].names \subseteq Word
                               /\ Items[k].type \in {"TYPE_STRING", "TYPE_FUNC"}
                               /\ Items[k].arguments \in Nat
                               /\ Items[k].type = "TYPE_STRING" => Items[k].arguments = 1

VARIABLES
    argv,       \* the words behind the program's name
    i,          \* the next of them
    container,  \* for each item that stores: the index of the word in it, or 0
    output      \* indices of the words that are left over

argVars == <<argv, i, container, output>>

ArgsInit ==
    /\ argv \in UNION {[1..n -> Word] : n \in 0..MaxWords}
    /\ i = 1 /\ container = [k \in DOMAIN Items |-> 0] /\ output = <<>>

Matching(w) == {k \in DOMAIN Items : w \in Items[k].names}

\* Of several items with the same name the first counts.
Is(k) == i \in DOMAIN argv /\ Matching(argv[i]) # {} /\ k = Min(Matching(argv[i]))

\* argc, as eargs_parseItem() is given it, counts the item's own word.
Enough(k) == Len(argv) - i + 1 > Items[k].arguments

Advance(n) == i' = i + n /\ argv' = argv

NoItem ==
    /\ i \in DOMAIN argv /\ Matching(argv[i]) = {}
    /\ output' = Append(output, i) /\ Advance(1) /\ container' = container

NeedsArgument(k) == Is(k) /\ ~Enough(k) /\ UNCHANGED argVars

StoreUnchecked(k) ==
    /\ Is(k) /\ Items[k].type = "TYPE_STRING"
    /\ container' = [container EXCEPT ![k] = i + 1]
    /\ Advance(2) /\ output' = output
StoreAndReread(k) ==
    /\ Is(k) /\ Enough(k) /\ Items[k].type = "TYPE_STRING"
    /\ container' = [container EXCEPT ![k] = i + 1]
    /\ Advance(1) /\ output' = output
Store(k) ==
    /\ Is(k) /\ Enough(k) /\ Items[k].type = "TYPE_STRING"
    /\ container' = [container EXCEPT ![k] = i + 1]
    /\ Advance(2) /\ output' = output

\* A function that is called with the words from its own on returns how many of
\* them it has used beside its own, or a negative number.
Calls(k) == Is(k) /\ Enough(k) /\ Items[k].type = "TYPE_FUNC"
Returns(n) ==
    /\ IF n < 0 THEN UNCHANGED <<argv, i>> ELSE Advance(1 + n)
    /\ UNCHANGED <<container, output>>

Parsed == i > Len(argv)
=============================================================================
