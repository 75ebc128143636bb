----------------------------- MODULE Parameters -----------------------------
(***************************************************************************)
(* The command line: process_args takes one argument after the other,      *)
(* keeps the text of its value in immortal_strings, looks its option up in *)
(* options_indices by a binary search, and lets the parameter take a view  *)
(* of the text.  The server reads the views once it is through.            *)
(*                                                                         *)
(* An option is named by a natural number, in the order of the names'      *)
(* characters; positions in arrays start from 1.  An argument without an   *)
(* equals sign, --help among them, is the value Bare.                      *)
(***************************************************************************)
EXTENDS Integers, Sequences

CONSTANTS Declared,       \* the options in the order of make_parameters
          Kind,           \* the type of each, "ip" or "string"
          MinSize,        \* the limits of each
          MaxSize,
          Texts,          \* the texts that may follow an equals sign
          Size,           \* their sizes
          Addresses,      \* those that name a host: addresses and "localhost"
          Capacity,       \* the size immortal_strings is given
          Names,          \* the options that an argument may name
          Bare,
          MaxArguments    \* bound on the arguments

Options == DOMAIN Declared

ASSUME ParametersAssumption ==
    /\ Declared \in Seq(Nat) /\ Names \subseteq Nat
    /\ \A d, e \in Options : Declared[d] = Declared[e] => d = e
    /\ Kind \in [Options -> {"ip", "string"}]
    /\ MinSize \in [Options -> Nat] /\ MaxSize \in [Options -> Nat]
    /\ Size \in [Texts -> Nat] /\ Addresses \subseteq Texts
    /\ Capacity \in Nat \ {0} /\ MaxArguments \in Nat
    /\ Bare \notin [name : Names, text : Texts]

VARIABLES
    argv,               \* the arguments
    i,                  \* the argument that process_args is at
    pc,                 \* what it does with it
    array,              \* static_map::array: Declared, in the order of the names
    first, count,       \* where std::lower_bound still has to search
    immortal_strings,   \* the texts kept so far, from index 1 on
    parameters          \* where each parameter's view points: an index into
                        \* immortal_strings, or 0 for the default's literal

vars == <<argv, i, pc, array, first, count, immortal_strings, parameters>>

Arguments == [name : Names, text : Texts] \cup {Bare}

N == Len(Declared)

\* An array that was never sorted.
DeclaredOrder == {[p \in 1 .. N |-> p]}

\* The options in the order of their names, each once.
SortedArrays ==
    {a \in [1 .. N -> Options] :
        /\ \A p, q \in 1 .. N : p < q => Declared[a[p]] < Declared[a[q]]
        /\ \A d \in Options : \E p \in 1 .. N : a[p] = d}

TypeOK ==
    /\ argv \in Seq(Arguments)
    /\ i \in 1 .. Len(argv) + 1
    /\ pc \in {"argument", "searching", "done", "exited", "undefined"}
    /\ pc = "searching" => i <= Len(argv) /\ argv[i] # Bare
    /\ array \in SortedArrays
    /\ first \in 1 .. N + 1 /\ count \in 0 .. N + 1 - first
    /\ immortal_strings \in Seq(Texts) /\ Len(immortal_strings) <= Capacity - 1
    /\ parameters \in [Options -> 0 .. Len(immortal_strings)]

Init ==
    /\ argv \in UNION {[1 .. n -> Arguments] : n \in 0 .. MaxArguments}
    /\ i = 1
    /\ pc = "argument"
    /\ array \in SortedArrays
    /\ first = 1 /\ count = 0
    /\ immortal_strings = <<>>
    /\ parameters = [d \in Options |-> 0]

-----------------------------------------------------------------------------

\* There is no equals sign: process_args, or help(), exits.
RejectBare ==
    /\ pc = "argument"
    /\ i <= Len(argv)
    /\ argv[i] = Bare
    /\ pc' = "exited"
    /\ UNCHANGED <<argv, i, array, first, count, immortal_strings, parameters>>

\* A table that is taken to have one string more.
InLargerTable == i <= Capacity

\* immortal_strings[i] exists.
InBounds == i < Capacity

\* One string for all arguments.
KeepInOnePlace(text) == immortal_strings' = [n \in 1 .. i |-> text]

\* immortal_strings[i] = ..., where every earlier argument has left its text.
Keep(text) == immortal_strings' = Append(immortal_strings, text)

\* The text is kept, and the search starts unless it is empty.  Beyond the table
\* the assignment is undefined.
ReadArgument ==
    /\ pc = "argument"
    /\ i <= Len(argv)
    /\ argv[i] # Bare
    /\ IF ~InBounds
       THEN pc' = "undefined" /\ UNCHANGED <<first, count, immortal_strings>>
       ELSE /\ Keep(argv[i].text)
            /\ pc' = IF Size[argv[i].text] = 0 THEN "exited" ELSE "searching"
            /\ first' = 1 /\ count' = N
    /\ UNCHANGED <<argv, i, array, parameters>>

\* A search that keeps the option it has compared in the range.
ProbeAgain ==
    LET half == count \div 2
        before == Declared[array[first + half]] < argv[i].name
    IN  /\ pc = "searching" /\ count > 0
        /\ first' = IF before THEN first + half ELSE first
        /\ count' = IF before THEN count - half ELSE half
        /\ UNCHANGED <<argv, i, pc, array, immortal_strings, parameters>>

\* std::lower_bound compares with the middle of the range that is left.
Probe ==
    LET half == count \div 2
        before == Declared[array[first + half]] < argv[i].name
    IN  /\ pc = "searching" /\ count > 0
        /\ first' = IF before THEN first + half + 1 ELSE first
        /\ count' = IF before THEN count - half - 1 ELSE half
        /\ UNCHANGED <<argv, i, pc, array, immortal_strings, parameters>>

\* it != array.end() && it->first == key
Found == first <= N /\ Declared[array[first]] = argv[i].name

is_an_ip(text) == text \in Addresses

\* Limits that leave out the largest size.
IsBelowLimit(d, text) == Size[text] >= MinSize[d] /\ Size[text] < MaxSize[d]

is_in_limits(d, text) == Size[text] >= MinSize[d] /\ Size[text] <= MaxSize[d]

\* try_set_val accepts the text: an address where one is asked for, of a size within
\* the limits.
Takes(d, text) ==
    /\ Kind[d] = "ip" => is_an_ip(text)
    /\ is_in_limits(d, text)

\* The search is over: an option is set, or process_args exits.
SetParameter ==
    LET d == array[first]
    IN  /\ pc = "searching" /\ count = 0
        /\ IF Found /\ Takes(d, argv[i].text)
           THEN /\ parameters' = [parameters EXCEPT ![d] = i]
                /\ i' = i + 1
                /\ pc' = "argument"
           ELSE pc' = "exited" /\ UNCHANGED <<i, parameters>>
        /\ UNCHANGED <<argv, array, first, count, immortal_strings>>

\* The arguments are exhausted: the constructor of the server goes on.
Return ==
    /\ pc = "argument"
    /\ i > Len(argv)
    /\ pc' = "done"
    /\ UNCHANGED <<argv, i, array, first, count, immortal_strings, parameters>>

Next == RejectBare \/ ReadArgument \/ Probe \/ SetParameter \/ Return

Spec == Init /\ [][Next]_vars

\* One thread, which goes on as long as it can.
FairSpec == Spec /\ WF_vars(Next)

-----------------------------------------------------------------------------
(* What the command line promises.                                          *)

\* The argument names an option that takes its text.
Valid(a) ==
    /\ a # Bare
    /\ Size[a.text] > 0
    /\ \E d \in Options : /\ Declared[d] = a.name
                          /\ Kind[d] = "ip" => a.text \in Addresses
                          /\ Size[a.text] \in MinSize[d] .. MaxSize[d]

\* A search that is over has found the option by the sorted array
\* (tools.hpp:150-151) exactly if it was declared, and not another one.
SearchExact ==
    pc = "searching" /\ count = 0 =>
        /\ Found <=> \E d \in Options : Declared[d] = argv[i].name
        /\ Found => array[first] \in Options /\ Declared[array[first]] = argv[i].name

\* Once they are read by the server's constructor (server.hpp:37), the views of
\* process_args that point into immortal_strings (parameters_base.hpp:84) show
\* the last text given for each option and no argument's that came later.
ViewsIntact ==
    pc = "done" =>
        \A d \in Options :
            LET given == {n \in DOMAIN argv : argv[n].name = Declared[d]}
            IN  IF given = {} THEN parameters[d] = 0
                ELSE \E n \in given : /\ \A m \in given : m <= n
                                      /\ immortal_strings[parameters[d]] = argv[n].text

\* The server starts exactly if every argument is valid: process_args exits at the
\* first that is not (parameters_accessor.cpp:17-39), and at no valid one.
ExitsOnlyOnInvalid ==
    /\ pc = "done" => \A n \in DOMAIN argv : Valid(argv[n])
    /\ pc = "exited" => ~Valid(argv[i]) /\ \A n \in 1 .. i - 1 : Valid(argv[n])

\* The search narrows its range with every comparison, so that every command line
\* comes to an end (tools.hpp:150).
Terminates == <>(pc \in {"done", "exited", "undefined"})

=============================================================================
