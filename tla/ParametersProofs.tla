-------------------------- MODULE ParametersProofs --------------------------
(***************************************************************************)
(* Proofs about Parameters, for any options, arguments and table size.     *)
(*                                                                         *)
(* The binary search needs its loop invariant: what lies before the range  *)
(* that is left is smaller than the name, and what lies behind it is not.  *)
(* The views need that the table holds the text of every argument read at  *)
(* the argument's own place.                                               *)
(***************************************************************************)
EXTENDS Parameters, TLAPS

Name(p) == Declared[array[p]]

\* The loop invariant of std::lower_bound.
RangeHolds ==
    pc = "searching" =>
        /\ \A p \in 1 .. first - 1 : Name(p) < argv[i].name
        /\ \A p \in first + count .. N : Name(p) >= argv[i].name

\* How many texts are kept at each place of the loop.
Kept ==
    /\ pc \in {"argument", "done", "undefined"} => Len(immortal_strings) = i - 1
    /\ pc = "searching" => Len(immortal_strings) = i
    /\ pc = "exited" => Len(immortal_strings) <= i

\* The table holds the text of each argument at the argument's own place.
TextsInPlace ==
    \A n \in 1 .. Len(immortal_strings) :
        n \in DOMAIN argv /\ argv[n] # Bare /\ immortal_strings[n] = argv[n].text

\* The arguments before the present one are valid.
ValidSoFar ==
    /\ \A n \in 1 .. i - 1 : Valid(argv[n])
    /\ pc = "exited" => i <= Len(argv) /\ ~Valid(argv[i])
    /\ pc = "done" => i = Len(argv) + 1
    /\ pc = "searching" => Size[argv[i].text] > 0

\* Each view refers to the last argument so far that names its option.
ViewsLast ==
    \A d \in Options :
        /\ parameters[d] \in 0 .. i - 1
        /\ parameters[d] # 0 => argv[parameters[d]].name = Declared[d]
        /\ \A n \in 1 .. i - 1 : argv[n].name = Declared[d] => n <= parameters[d]

ParametersInv ==
    TypeOK /\ RangeHolds /\ Kept /\ TextsInPlace /\ ValidSoFar /\ ViewsLast

-----------------------------------------------------------------------------

\* The middle of a range that is not empty lies within it.
LEMMA Middle ==
    ASSUME NEW n \in Nat, n > 0
    PROVE  n \div 2 \in 0 .. n - 1
  OBVIOUS

\* A text that is not Bare is a record with a name and a text.
LEMMA ArgumentFields ==
    ASSUME NEW a \in Arguments, a # Bare
    PROVE  a.name \in Nat /\ a.text \in Texts /\ Size[a.text] \in Nat
  BY ParametersAssumption DEF Arguments

\* An argument is valid if the parameter it names takes its text.
LEMMA ValidMeansTaken ==
    ASSUME NEW a \in Arguments, a # Bare
    PROVE  Valid(a) <=> /\ Size[a.text] > 0
                        /\ \E d \in Options : Declared[d] = a.name /\ Takes(d, a.text)
  BY ArgumentFields, ParametersAssumption DEF Valid, Takes, is_an_ip, is_in_limits

\* Names in the sorted array are in order, and the array is one of the options.
LEMMA ArraySorted ==
    ASSUME array \in SortedArrays
    PROVE  /\ N \in Nat /\ Options = 1 .. N
           /\ \A p \in 1 .. N : array[p] \in Options /\ Name(p) \in Nat
           /\ \A p, q \in 1 .. N : p < q => Name(p) < Name(q)
           /\ \A d \in Options : \E p \in 1 .. N : array[p] = d
<1>1. Declared \in Seq(Nat)
  BY ParametersAssumption
<1>2. N \in Nat /\ Options = 1 .. N /\ \A d \in Options : Declared[d] \in Nat
  BY <1>1 DEF Options, N
<1>. QED
  BY <1>2 DEF SortedArrays, Name

\* At the end of the search the first name that is not smaller is at first.
LEMMA SearchEnds ==
    ASSUME ParametersInv, pc = "searching", count = 0
    PROVE  /\ Found <=> \E d \in Options : Declared[d] = argv[i].name
           /\ Found => array[first] \in Options /\ Declared[array[first]] = argv[i].name
<1>. USE DEF ParametersInv
<1>1. /\ argv[i] \in Arguments /\ argv[i] # Bare
  BY DEF TypeOK
<1>2. argv[i].name \in Nat
  BY <1>1, ArgumentFields
<1>3. first \in 1 .. N + 1 /\ N \in Nat
  BY ArraySorted DEF TypeOK
<1>4. Found => array[first] \in Options /\ Declared[array[first]] = argv[i].name
  BY <1>3, ArraySorted DEF Found, TypeOK
<1>5. ASSUME NEW d \in Options, Declared[d] = argv[i].name
      PROVE  Found
  <2>1. PICK p \in 1 .. N : array[p] = d
    BY ArraySorted DEF TypeOK
  <2>2. Name(p) = argv[i].name
    BY <2>1, <1>5 DEF Name
  <2>3. p >= first
    BY <2>2, <1>2, <1>3 DEF RangeHolds
  <2>4. Name(first) >= argv[i].name
    BY <2>3, <1>3 DEF RangeHolds, TypeOK
  <2>5. p = first
    <3>1. first \in 1 .. N
      BY <2>3, <1>3
    <3>2. first < p => Name(first) < Name(p)
      BY <3>1, ArraySorted DEF TypeOK
    <3>3. Name(first) \in Nat
      BY <3>1, ArraySorted DEF TypeOK
    <3>. QED
      BY <3>1, <3>2, <3>3, <2>2, <2>3, <2>4, <1>2
  <2>. QED
    BY <2>2, <2>5, <1>3 DEF Found, Name
<1>. QED
  BY <1>4, <1>5

-----------------------------------------------------------------------------

\* The invariant holds before the first argument.
LEMMA InitInv == Init => ParametersInv
<1>. SUFFICES ASSUME Init PROVE ParametersInv
  OBVIOUS
<1>1. argv \in Seq(Arguments)
  <2>1. PICK n \in 0 .. MaxArguments : argv \in [1 .. n -> Arguments]
    BY ParametersAssumption DEF Init
  <2>. QED
    BY <2>1
<1>2. N \in Nat
  BY ParametersAssumption DEF N
<1>3. TypeOK
  BY <1>1, <1>2, ParametersAssumption DEF Init, TypeOK
<1>. QED
  BY <1>1, <1>2, <1>3, ParametersAssumption
  DEF Init, ParametersInv, RangeHolds, Kept, TextsInPlace, ValidSoFar, ViewsLast

\* An argument without an equals sign is not valid.
LEMMA RejectInv == ParametersInv /\ RejectBare => ParametersInv'
  BY DEF ParametersInv, RejectBare, TypeOK, RangeHolds, Kept, TextsInPlace, ValidSoFar,
         ViewsLast, Valid, Takes, is_an_ip, is_in_limits, Name, N

\* A text is kept at its argument's place, or the table is too small.
LEMMA ReadInv == ParametersInv /\ ReadArgument => ParametersInv'
<1>. SUFFICES ASSUME ParametersInv, ReadArgument PROVE ParametersInv'
  OBVIOUS
<1>. DEFINE a == argv[i]
<1>1. /\ i \in DOMAIN argv /\ a \in Arguments /\ a # Bare /\ N \in Nat
  BY ParametersAssumption DEF ParametersInv, TypeOK, ReadArgument, N
<1>2. a.text \in Texts /\ Size[a.text] \in Nat
  BY <1>1, ArgumentFields
<1>3. CASE ~InBounds
  BY <1>1, <1>3, ParametersAssumption
  DEF ParametersInv, ReadArgument, InBounds, TypeOK, RangeHolds, Kept, TextsInPlace,
      ValidSoFar, ViewsLast, Valid, Takes, is_an_ip, is_in_limits, Name, N
<1>4. CASE InBounds
  <2>1. /\ immortal_strings' = Append(immortal_strings, a.text)
        /\ Len(immortal_strings') = i
        /\ pc' = IF Size[a.text] = 0 THEN "exited" ELSE "searching"
        /\ first' = 1 /\ count' = N
        /\ UNCHANGED <<argv, i, array, parameters>>
    BY <1>4 DEF ReadArgument, Keep, ParametersInv, Kept, TypeOK
  <2>2. TypeOK'
    <3>1. immortal_strings' \in Seq(Texts) /\ Len(immortal_strings') <= Capacity - 1
      BY <2>1, <1>2, <1>4, ParametersAssumption DEF ParametersInv, TypeOK, InBounds
    <3>2. parameters' \in [Options -> 0 .. Len(immortal_strings')]
      <4>1. parameters \in [Options -> 0 .. Len(immortal_strings)]
        BY DEF ParametersInv, TypeOK
      <4>2. Len(immortal_strings) \in Nat /\ Len(immortal_strings) <= Len(immortal_strings')
        BY <2>1, <1>2 DEF ParametersInv, TypeOK
      <4>. QED
        BY <2>1, <3>1, <4>1, <4>2
    <3>3. array' \in SortedArrays'
      BY <2>1 DEF ParametersInv, TypeOK, SortedArrays
    <3>. QED
      BY <2>1, <3>1, <3>2, <3>3, <1>1 DEF ParametersInv, TypeOK, N
  <2>3. TextsInPlace'
    BY <2>1, <1>1, <1>2 DEF ParametersInv, TypeOK, TextsInPlace, Kept, ReadArgument
  <2>4. ValidSoFar'
    BY <2>1, <1>1, <1>2 DEF ParametersInv, ValidSoFar, Valid, Takes, is_an_ip, is_in_limits, TypeOK
  <2>5. ViewsLast'
    BY <2>1 DEF ParametersInv, ViewsLast
  <2>6. RangeHolds' /\ Kept'
    BY <2>1, <1>1 DEF RangeHolds, Kept, N
  <2>. QED
    BY <2>2, <2>3, <2>4, <2>5, <2>6 DEF ParametersInv
<1>. QED
  BY <1>3, <1>4

\* A comparison leaves the range between what is smaller and what is not.
LEMMA ProbeInv == ParametersInv /\ Probe => ParametersInv'
<1>. SUFFICES ASSUME ParametersInv, Probe PROVE ParametersInv'
  OBVIOUS
<1>. DEFINE half == count \div 2
            m == first + half
<1>1. count \in Nat /\ count > 0 /\ first \in 1 .. N + 1 /\ first + count <= N + 1 /\ N \in Nat
  BY ArraySorted DEF ParametersInv, TypeOK, Probe
<1>2. half \in 0 .. count - 1
  BY <1>1, Middle
<1>. HIDE DEF half
<1>3. m \in 1 .. N /\ m >= first /\ m < first + count /\ m = first + half
  BY <1>1, <1>2
<1>4. argv[i].name \in Nat
  BY ArgumentFields DEF ParametersInv, TypeOK, Probe
<1>5. /\ \A p \in 1 .. N : Name(p) \in Nat
      /\ \A p, q \in 1 .. N : p < q => Name(p) < Name(q)
  BY ArraySorted DEF ParametersInv, TypeOK
<1>. DEFINE before == Name(m) < argv[i].name
<1>6. /\ pc = "searching"
      /\ first' = IF before THEN m + 1 ELSE first
      /\ count' = IF before THEN count - half - 1 ELSE half
      /\ UNCHANGED <<argv, i, pc, array, immortal_strings, parameters>>
  BY DEF Probe, Name, half
<1>. HIDE DEF m
<1>7. first' \in 1 .. N + 1 /\ count' \in 0 .. N + 1 - first'
  BY <1>1, <1>2, <1>3, <1>6
<1>8. TypeOK'
  BY <1>6, <1>7 DEF ParametersInv, TypeOK, N
<1>9. RangeHolds'
  <2>1. ASSUME NEW p \in 1 .. first' - 1 PROVE Name(p) < argv[i].name
    <3>1. CASE before
      <4>1. p \in 1 .. m
        BY <3>1, <1>3, <1>6
      <4>2. p = m \/ Name(p) < Name(m)
        BY <4>1, <1>1, <1>3, <1>5
      <4>3. Name(p) \in Nat /\ Name(m) \in Nat
        BY <4>1, <1>1, <1>3, <1>5
      <4>. QED
        BY <3>1, <4>1, <4>2, <4>3, <1>4
    <3>2. CASE ~before
      BY <3>2, <1>6 DEF ParametersInv, RangeHolds
    <3>. QED
      BY <3>1, <3>2
  <2>2. ASSUME NEW p \in first' + count' .. N PROVE Name(p) >= argv[i].name
    <3>1. CASE before
      <4>1. p \in first + count .. N
        BY <3>1, <1>1, <1>2, <1>3, <1>6
      <4>. QED
        BY <4>1, <1>6 DEF ParametersInv, RangeHolds
    <3>2. CASE ~before
      <4>1. p \in m .. N
        BY <3>2, <1>1, <1>2, <1>3, <1>6
      <4>2. p = m \/ (p > m /\ Name(m) < Name(p))
        BY <4>1, <1>3, <1>5
      <4>3. p \in 1 .. N /\ Name(p) \in Nat /\ Name(m) \in Nat
        BY <4>1, <1>3, <1>5
      <4>. QED
        BY <3>2, <4>2, <4>3, <1>4
    <3>. QED
      BY <3>1, <3>2
  <2>. QED
    BY <2>1, <2>2, <1>6 DEF RangeHolds, Name, N
<1>. QED
  BY <1>6, <1>8, <1>9
  DEF ParametersInv, Kept, TextsInPlace, ValidSoFar, ViewsLast, Valid, Takes, is_an_ip, is_in_limits

\* The option that takes the text gets the argument's view; no other does.
LEMMA SetInv == ParametersInv /\ SetParameter => ParametersInv'
<1>. SUFFICES ASSUME ParametersInv, SetParameter PROVE ParametersInv'
  OBVIOUS
<1>. DEFINE d == array[first]
            a == argv[i]
<1>1. pc = "searching" /\ count = 0
  BY DEF SetParameter
<1>2. /\ i \in DOMAIN argv /\ a \in Arguments /\ a # Bare /\ Size[a.text] > 0
      /\ Len(immortal_strings) = i /\ N \in Nat
  BY <1>1, ParametersAssumption DEF ParametersInv, TypeOK, ValidSoFar, Kept, N
<1>3. /\ Found <=> \E e \in Options : Declared[e] = a.name
      /\ Found => d \in Options /\ Declared[d] = a.name
  BY <1>1, SearchEnds
<1>4. CASE Found /\ Takes(d, a.text)
  <2>1. /\ parameters' = [parameters EXCEPT ![d] = i] /\ i' = i + 1 /\ pc' = "argument"
        /\ UNCHANGED <<argv, array, first, count, immortal_strings>>
    BY <1>4 DEF SetParameter
  <2>2. TypeOK'
    BY <2>1, <1>2, <1>3, <1>4 DEF ParametersInv, TypeOK, N
  <2>3. Valid(a)
    BY <1>2, <1>3, <1>4, ValidMeansTaken
  <2>4. ValidSoFar'
    <3>1. ASSUME NEW n \in 1 .. i' - 1 PROVE Valid(argv[n])
      <4>1. n = i \/ n \in 1 .. i - 1
        BY <2>1, <1>2
      <4>. QED
        BY <4>1, <2>3 DEF ParametersInv, ValidSoFar
    <3>. QED
      BY <3>1, <2>1 DEF ValidSoFar, Valid, Takes, is_an_ip, is_in_limits
  <2>5. ViewsLast'
    <3>. SUFFICES ASSUME NEW e \in Options
                  PROVE  /\ parameters'[e] \in 0 .. i
                         /\ parameters'[e] # 0 => argv[parameters'[e]].name = Declared[e]
                         /\ \A n \in 1 .. i : argv[n].name = Declared[e]
                                                  => n <= parameters'[e]
      BY <2>1, <1>2 DEF ViewsLast
    <3>1. /\ parameters[e] \in 0 .. i - 1
          /\ parameters[e] # 0 => argv[parameters[e]].name = Declared[e]
          /\ \A n \in 1 .. i - 1 : argv[n].name = Declared[e] => n <= parameters[e]
      BY DEF ParametersInv, ViewsLast
    <3>2. CASE e = d
      <4>1. parameters'[e] = i
        BY <3>2, <2>1, <1>3, <1>4 DEF ParametersInv, TypeOK
      <4>. QED
        BY <4>1, <3>2, <1>2, <1>3, <1>4
    <3>3. CASE e # d
      <4>1. parameters'[e] = parameters[e]
        BY <3>3, <2>1 DEF ParametersInv, TypeOK
      <4>2. argv[i].name # Declared[e]
        BY <3>3, <1>3, <1>4, ParametersAssumption
      <4>. QED
        BY <4>1, <4>2, <3>1, <1>2
    <3>. QED
      BY <3>2, <3>3
  <2>. QED
    BY <2>1, <2>2, <2>4, <2>5, <1>2
    DEF ParametersInv, RangeHolds, Kept, TextsInPlace
<1>5. CASE ~(Found /\ Takes(d, a.text))
  <2>1. /\ pc' = "exited"
        /\ UNCHANGED <<argv, i, array, first, count, immortal_strings, parameters>>
    BY <1>5 DEF SetParameter
  <2>2. ~Valid(a)
    <3>1. ASSUME NEW e \in Options, Declared[e] = a.name, Takes(e, a.text) PROVE FALSE
      <4>1. e = d
        BY <3>1, <1>3, ParametersAssumption
      <4>. QED
        BY <4>1, <3>1, <1>3, <1>5
    <3>. QED
      BY <3>1, <1>2, ValidMeansTaken
  <2>. QED
    BY <2>1, <2>2, <1>2
    DEF ParametersInv, TypeOK, RangeHolds, Kept, TextsInPlace, ValidSoFar, ViewsLast,
        Valid, Takes, is_an_ip, is_in_limits, N
<1>. QED
  BY <1>4, <1>5

\* Returning changes nothing but the place.
LEMMA ReturnInv == ParametersInv /\ Return => ParametersInv'
<1>. SUFFICES ASSUME ParametersInv, Return PROVE ParametersInv'
  OBVIOUS
<1>1. /\ pc = "argument" /\ i = Len(argv) + 1 /\ pc' = "done"
      /\ UNCHANGED <<argv, i, array, first, count, immortal_strings, parameters>>
  BY DEF ParametersInv, Return, TypeOK
<1>. QED
  BY <1>1
  DEF ParametersInv, TypeOK, RangeHolds, Kept, TextsInPlace, ValidSoFar, ViewsLast,
      Valid, Takes, is_an_ip, is_in_limits, Name, N

\* ParametersInv is an invariant of the command line's reading.
LEMMA Inductive == Spec => []ParametersInv
<1>1. ParametersInv /\ [Next]_vars => ParametersInv'
  <2>. SUFFICES ASSUME ParametersInv, [Next]_vars PROVE ParametersInv'
    OBVIOUS
  <2>1. CASE UNCHANGED vars
    BY <2>1 DEF vars, ParametersInv, TypeOK, RangeHolds, Kept, TextsInPlace, ValidSoFar,
               ViewsLast, Valid, Takes, is_an_ip, is_in_limits, Name, N
  <2>. QED
    BY <2>1, RejectInv, ReadInv, ProbeInv, SetInv, ReturnInv DEF Next
<1>. QED
  BY <1>1, InitInv, PTL DEF Spec

-----------------------------------------------------------------------------

\* process_args keeps its types; in particular the search never compares with an
\* entry outside the array.
THEOREM ParametersTypes == Spec => []TypeOK
<1>1. ParametersInv => TypeOK
  BY DEF ParametersInv
<1>. QED
  BY <1>1, Inductive, PTL

\* The binary search of static_map finds exactly the declared options, however
\* many there are.
THEOREM SearchIsExact == Spec => []SearchExact
<1>1. ParametersInv => SearchExact
  BY SearchEnds DEF SearchExact
<1>. QED
  BY <1>1, Inductive, PTL

\* What the server reads after process_args is the last text given for an option.
THEOREM ViewsAreIntact == Spec => []ViewsIntact
<1>1. ParametersInv => ViewsIntact
  <2>. SUFFICES ASSUME ParametersInv, pc = "done", NEW d \in Options
                PROVE  LET given == {n \in DOMAIN argv : argv[n].name = Declared[d]}
                       IN  IF given = {} THEN parameters[d] = 0
                           ELSE \E n \in given :
                                    /\ \A m \in given : m <= n
                                    /\ immortal_strings[parameters[d]] = argv[n].text
    BY DEF ViewsIntact
  <2>. DEFINE given == {n \in DOMAIN argv : argv[n].name = Declared[d]}
  <2>1. i = Len(argv) + 1 /\ DOMAIN argv = 1 .. i - 1 /\ Len(immortal_strings) = i - 1
    BY DEF ParametersInv, ValidSoFar, TypeOK, Kept
  <2>2. /\ parameters[d] \in 0 .. i - 1
        /\ parameters[d] # 0 => parameters[d] \in given
        /\ \A n \in given : n <= parameters[d]
    BY <2>1 DEF ParametersInv, ViewsLast
  <2>3. CASE parameters[d] = 0
    BY <2>1, <2>2, <2>3
  <2>4. CASE parameters[d] # 0
    BY <2>1, <2>2, <2>4 DEF ParametersInv, TextsInPlace
  <2>. QED
    BY <2>3, <2>4
<1>. QED
  BY <1>1, Inductive, PTL

\* The server starts only if every argument is valid, and exits at the first that
\* is not.
THEOREM ExitsAtTheFirstInvalid == Spec => []ExitsOnlyOnInvalid
<1>1. ParametersInv => ExitsOnlyOnInvalid
  BY DEF ParametersInv, ValidSoFar, ExitsOnlyOnInvalid, TypeOK
<1>. QED
  BY <1>1, Inductive, PTL

=============================================================================
