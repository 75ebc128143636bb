------------------------- MODULE RequestQueueProofs -------------------------
(***************************************************************************)
(* Proofs that the statement queue serves its callers one at a time, in    *)
(* order and once each, for any number of statements.                      *)
(***************************************************************************)
EXTENDS RequestQueue, SequenceTheorems, TLAPS

InQueue(s, r) == \E p \in DOMAIN s : s[p] = r
NoDuplicates(s) == \A p, q \in DOMAIN s : s[p] = s[q] => p = q

\* Appending a new element adds exactly it.
LEMMA AppendQueue ==
    ASSUME NEW S, NEW s \in Seq(S), NEW x \in S
    PROVE  /\ \A r : InQueue(Append(s, x), r) <=> InQueue(s, r) \/ r = x
           /\ NoDuplicates(s) /\ ~InQueue(s, x) => NoDuplicates(Append(s, x))
  <1>1. /\ DOMAIN s = 1 .. Len(s) /\ Len(s) \in Nat
        /\ DOMAIN Append(s, x) = 1 .. Len(s) + 1
        /\ \A p \in 1 .. Len(s) : Append(s, x)[p] = s[p]
        /\ Append(s, x)[Len(s) + 1] = x
    OBVIOUS
  <1>2. ASSUME NEW r PROVE InQueue(Append(s, x), r) <=> InQueue(s, r) \/ r = x
    BY <1>1 DEF InQueue
  <1>3. ASSUME NoDuplicates(s), ~InQueue(s, x) PROVE NoDuplicates(Append(s, x))
    <2> SUFFICES ASSUME NEW p \in 1 .. Len(s) + 1, NEW q \in 1 .. Len(s) + 1,
                        Append(s, x)[p] = Append(s, x)[q]
                 PROVE  p = q
      BY <1>1 DEF NoDuplicates
    <2>1. CASE p \in 1 .. Len(s) /\ q \in 1 .. Len(s)
      BY <1>1, <1>3, <2>1 DEF NoDuplicates
    <2>2. CASE p = Len(s) + 1 \/ q = Len(s) + 1
      BY <1>1, <1>3, <2>2 DEF InQueue
    <2> QED
      BY <1>1, <2>1, <2>2
  <1> QED
    BY <1>2, <1>3

\* Taking the head off removes exactly it.
LEMMA TailQueue ==
    ASSUME NEW S, NEW s \in Seq(S), s # <<>>, NoDuplicates(s)
    PROVE  /\ NoDuplicates(Tail(s))
           /\ \A r : InQueue(Tail(s), r) <=> InQueue(s, r) /\ r # Head(s)
  <1>1. /\ DOMAIN s = 1 .. Len(s) /\ Len(s) \in Nat \ {0}
        /\ DOMAIN Tail(s) = 1 .. Len(s) - 1
        /\ \A p \in 1 .. Len(s) - 1 : Tail(s)[p] = s[p + 1]
        /\ Head(s) = s[1]
    OBVIOUS
  <1>2. NoDuplicates(Tail(s))
    BY <1>1 DEF NoDuplicates
  <1>3. ASSUME NEW r PROVE InQueue(Tail(s), r) <=> InQueue(s, r) /\ r # Head(s)
    <2>1. ASSUME InQueue(Tail(s), r) PROVE InQueue(s, r) /\ r # Head(s)
      <3>1. PICK p \in 1 .. Len(s) - 1 : Tail(s)[p] = r
        BY <1>1, <2>1 DEF InQueue
      <3>2. p + 1 \in 1 .. Len(s) /\ p + 1 # 1 /\ s[p + 1] = r
        BY <1>1, <3>1
      <3> QED
        BY <1>1, <3>2 DEF InQueue, NoDuplicates
    <2>2. ASSUME InQueue(s, r), r # Head(s) PROVE InQueue(Tail(s), r)
      <3>1. PICK p \in 1 .. Len(s) : s[p] = r
        BY <1>1, <2>2 DEF InQueue
      <3>2. p - 1 \in 1 .. Len(s) - 1 /\ Tail(s)[p - 1] = r
        BY <1>1, <2>2, <3>1
      <3> QED
        BY <1>1, <3>2 DEF InQueue
    <2> QED
      BY <2>1, <2>2
  <1> QED
    BY <1>2, <1>3

-----------------------------------------------------------------------------

\* The statement whose answer was sent but not yet popped is nobody's any more.
HeadAnswered == loop = "answered" => caller[Head(lock_channels)] \in {"ready", "done"}

QueueInv == TypeOK /\ WaitersQueued /\ LoopWokenForWork /\ HeadAnswered

\* What every action does to the requests that are still to be answered.
LEMMA UnansweredStep ==
    ASSUME QueueInv
    PROVE  /\ Unanswered \in Seq(Requests)
           /\ NoDuplicates(Unanswered)
           /\ \A r \in Requests : AsyncExecuteQueued(r) => Unanswered' = Append(Unanswered, r)
           /\ \A r \in Requests : Resume(r) => Unanswered' = Unanswered
           /\ \A l \in Lookups : GetDbIndex(l) => Unanswered' = Unanswered
           /\ Start \/ Wake \/ StatementFails \/ PopNext => Unanswered' = Unanswered
           /\ Answer => /\ Unanswered = lock_channels
                        /\ Unanswered # <<>>
                        /\ Unanswered' = Tail(Unanswered)
  <1> USE DEF QueueInv
  <1>0. lock_channels \in Seq(Requests) /\ NoDuplicates(lock_channels)
    BY DEF TypeOK, WaitersQueued, NoDuplicates
  <1>1. Unanswered \in Seq(Requests) /\ NoDuplicates(Unanswered)
    <2>1. CASE loop = "answered"
      <3>1. lock_channels # <<>>
        BY <2>1 DEF LoopWokenForWork
      <3> QED
        BY <1>0, <2>1, <3>1, TailQueue DEF Unanswered
    <2>2. CASE loop # "answered"
      BY <1>0, <2>2 DEF Unanswered
    <2> QED
      BY <2>1, <2>2
  <1>2. ASSUME NEW r \in Requests, AsyncExecuteQueued(r)
        PROVE  Unanswered' = Append(Unanswered, r)
    <2>1. lock_channels' = Append(lock_channels, r)
      BY <1>2 DEF AsyncExecuteQueued, emplace_front
    <2>2. CASE loop = "answered"
      <3>1. loop' = "answered" /\ lock_channels # <<>>
        BY <1>2, <2>2 DEF AsyncExecuteQueued, try_send, LoopWokenForWork
      <3>2. Tail(Append(lock_channels, r)) = Append(Tail(lock_channels), r)
        BY <1>0, <3>1, HeadTailAppend
      <3> QED
        BY <2>1, <2>2, <3>1, <3>2 DEF Unanswered
    <2>3. CASE loop # "answered"
      <3>1. loop' # "answered"
        BY <1>2, <2>3 DEF AsyncExecuteQueued, try_send
      <3> QED
        BY <2>1, <2>3, <3>1 DEF Unanswered
    <2> QED
      BY <2>2, <2>3
  <1>3. ASSUME NEW r \in Requests, Resume(r) PROVE Unanswered' = Unanswered
    BY <1>3 DEF Resume, Unanswered
  <1>4. ASSUME NEW l \in Lookups, GetDbIndex(l) PROVE Unanswered' = Unanswered
    BY <1>4 DEF GetDbIndex, Unanswered
  <1>5. ASSUME Start \/ Wake \/ StatementFails PROVE Unanswered' = Unanswered
    BY <1>5 DEF Start, Wake, StatementFails, wait_until_non_empty, Receive, Unanswered
  <1>6. ASSUME PopNext PROVE Unanswered' = Unanswered
    BY <1>6 DEF PopNext, wait_until_non_empty, Receive, Unanswered
  <1>7. ASSUME Answer
        PROVE  Unanswered = lock_channels /\ Unanswered # <<>> /\ Unanswered' = Tail(Unanswered)
    BY <1>7 DEF Answer, Unanswered, LoopWokenForWork
  <1> QED
    BY <1>1, <1>2, <1>3, <1>4, <1>5, <1>6, <1>7

\* WaitersQueued, in the terms of the lemmas.
LEMMA WaitersAre ==
    WaitersQueued <=> /\ NoDuplicates(lock_channels)
                      /\ \A r \in Requests : caller[r] = "waiting" <=> InQueue(Unanswered, r)
  BY DEF WaitersQueued, NoDuplicates, InQueue

LEMMA InitInv == Init => QueueInv
  <1> SUFFICES ASSUME Init PROVE QueueInv
    OBVIOUS
  <1>1. Unanswered = <<>>
    BY DEF Init, Unanswered
  <1> QED
    BY <1>1 DEF Init, QueueInv, TypeOK, WaitersQueued, LoopWokenForWork, HeadAnswered,
                RequestAddCapacity

LEMMA InvStep == QueueInv /\ [Next]_vars => QueueInv'
  <1> SUFFICES ASSUME QueueInv, [Next]_vars PROVE QueueInv'
    OBVIOUS
  <1> USE DEF QueueInv
  <1>0. /\ TypeOK /\ LoopWokenForWork /\ HeadAnswered
        /\ lock_channels \in Seq(Requests)
        /\ NoDuplicates(lock_channels)
        /\ Unanswered \in Seq(Requests)
        /\ \A r \in Requests : caller[r] = "waiting" <=> InQueue(Unanswered, r)
        /\ signals = 0
    BY WaitersAre, UnansweredStep DEF TypeOK, RequestAddCapacity
  <1>1. ASSUME NEW r \in Requests, AsyncExecuteQueued(r) PROVE QueueInv'
    <2>1. /\ lock_channels' = Append(lock_channels, r)
          /\ caller[r] = "idle" /\ caller' = [caller EXCEPT ![r] = "waiting"]
          /\ signals' = 0
          /\ loop' = (IF loop = "waiting" THEN "woken" ELSE loop)
          /\ lookup' = lookup
      BY <1>0, <1>1 DEF AsyncExecuteQueued, emplace_front, try_send, RequestAddCapacity
    <2>2. TypeOK'
      BY <1>0, <2>1 DEF TypeOK, RequestAddCapacity
    <2>3. ~InQueue(lock_channels, r)
      <3>1. ~InQueue(Unanswered, r)
        BY <1>0, <2>1
      <3>2. CASE loop = "answered"
        <4>1. lock_channels # <<>> /\ r # Head(lock_channels)
          BY <1>0, <2>1, <3>2 DEF LoopWokenForWork, HeadAnswered
        <4> QED
          BY <1>0, <3>1, <3>2, <4>1, TailQueue DEF Unanswered
      <3>3. CASE loop # "answered"
        BY <3>1, <3>3 DEF Unanswered
      <3> QED
        BY <3>2, <3>3
    <2>4. NoDuplicates(lock_channels')
      BY <1>0, <2>1, <2>3, AppendQueue
    <2>5. \A q \in Requests : InQueue(Unanswered', q) <=> InQueue(Unanswered, q) \/ q = r
      <3>1. Unanswered' = Append(Unanswered, r)
        BY <1>1, UnansweredStep
      <3>2. \A q : InQueue(Append(Unanswered, r), q) <=> InQueue(Unanswered, q) \/ q = r
        BY <1>0, AppendQueue
      <3> QED
        BY <3>1, <3>2
    <2>6. \A q \in Requests : caller'[q] = "waiting" <=> InQueue(Unanswered', q)
      BY <1>0, <2>1, <2>5 DEF TypeOK
    <2>7. WaitersQueued'
      BY <2>4, <2>6 DEF WaitersQueued, NoDuplicates, InQueue
    <2>8. LoopWokenForWork'
      BY <1>0, <2>1 DEF LoopWokenForWork
    <2>9. HeadAnswered'
      <3> SUFFICES ASSUME loop = "answered"
                   PROVE  caller'[Head(lock_channels')] \in {"ready", "done"}
        BY <2>1 DEF HeadAnswered
      <3>1. lock_channels # <<>>
        BY <1>0 DEF LoopWokenForWork
      <3>2. Head(lock_channels') = Head(lock_channels)
        BY <1>0, <2>1, <3>1, HeadTailAppend
      <3> QED
        BY <1>0, <2>1, <3>2 DEF HeadAnswered, TypeOK
    <2> QED
      BY <2>2, <2>7, <2>8, <2>9
  <1>2. ASSUME NEW r \in Requests, Resume(r) PROVE QueueInv'
    <2>1. /\ caller[r] = "ready" /\ caller' = [caller EXCEPT ![r] = "done"]
          /\ UNCHANGED <<lock_channels, loop, signals, lookup>>
      BY <1>2 DEF Resume
    <2>2. TypeOK' /\ LoopWokenForWork'
      BY <1>0, <2>1 DEF TypeOK, LoopWokenForWork
    <2>3. \A q \in Requests : caller'[q] = "waiting" <=> caller[q] = "waiting"
      BY <1>0, <2>1 DEF TypeOK
    <2>4. WaitersQueued'
      BY <2>1, <2>3 DEF WaitersQueued, Unanswered
    <2>5. HeadAnswered'
      BY <1>0, <2>1 DEF HeadAnswered, TypeOK
    <2> QED
      BY <2>2, <2>4, <2>5
  <1>3. ASSUME NEW l \in Lookups, GetDbIndex(l) PROVE QueueInv'
    BY <1>3, ZenonT(40)
    DEF GetDbIndex, TypeOK, WaitersQueued, Unanswered, LoopWokenForWork, HeadAnswered
  <1>4. ASSUME Start PROVE QueueInv'
    <2>1. /\ loop = "started" /\ UNCHANGED <<lock_channels, caller, lookup, signals>>
          /\ loop' = (IF lock_channels = <<>> THEN "waiting" ELSE "executing")
      BY <1>0, <1>4 DEF Start, wait_until_non_empty, Receive
    <2>2. TypeOK' /\ LoopWokenForWork' /\ HeadAnswered'
      BY <1>0, <2>1 DEF TypeOK, LoopWokenForWork, HeadAnswered
    <2>3. WaitersQueued'
      BY <2>1 DEF WaitersQueued, Unanswered
    <2> QED
      BY <2>2, <2>3
  <1>5. ASSUME Wake \/ StatementFails PROVE QueueInv'
    <2>1. /\ loop \in {"woken", "executing"} /\ loop' \in {"executing", "ended"}
          /\ UNCHANGED <<lock_channels, caller, signals, lookup>>
      BY <1>5 DEF Wake, StatementFails
    <2>2. TypeOK' /\ LoopWokenForWork' /\ HeadAnswered'
      BY <1>0, <2>1 DEF TypeOK, LoopWokenForWork, HeadAnswered
    <2>3. WaitersQueued'
      BY <2>1 DEF WaitersQueued, Unanswered
    <2> QED
      BY <2>2, <2>3
  <1>6. ASSUME Answer PROVE QueueInv'
    <2> DEFINE h == Head(lock_channels)
    <2>1. /\ loop = "executing" /\ loop' = "answered"
          /\ caller[h] = "waiting" /\ caller' = [caller EXCEPT ![h] = "ready"]
          /\ UNCHANGED <<lock_channels, signals, lookup>>
          /\ lock_channels # <<>> /\ h \in Requests
      BY <1>0, <1>6 DEF Answer, LoopWokenForWork
    <2> HIDE DEF h
    <2>2. TypeOK' /\ LoopWokenForWork'
      BY <1>0, <2>1 DEF TypeOK, LoopWokenForWork
    <2>3. \A q \in Requests : InQueue(Unanswered', q) <=> InQueue(Unanswered, q) /\ q # h
      BY <1>0, <1>6, UnansweredStep, TailQueue DEF h
    <2>4. \A q \in Requests : caller'[q] = "waiting" <=> InQueue(Unanswered', q)
      BY <1>0, <2>1, <2>3 DEF TypeOK
    <2>5. WaitersQueued'
      BY <1>0, <2>1, <2>4 DEF WaitersQueued, NoDuplicates, InQueue
    <2>6. HeadAnswered'
      BY <1>0, <2>1 DEF HeadAnswered, TypeOK, h
    <2> QED
      BY <2>2, <2>5, <2>6
  <1>7. ASSUME PopNext PROVE QueueInv'
    <2>1. /\ loop = "answered" /\ lock_channels # <<>>
          /\ lock_channels' = Tail(lock_channels) /\ caller' = caller /\ lookup' = lookup
          /\ signals' = 0
          /\ loop' = (IF lock_channels' = <<>> THEN "waiting" ELSE "executing")
      BY <1>0, <1>7 DEF PopNext, wait_until_non_empty, Receive, LoopWokenForWork
    <2>2. TypeOK' /\ LoopWokenForWork' /\ HeadAnswered'
      BY <1>0, <2>1 DEF TypeOK, LoopWokenForWork, HeadAnswered, RequestAddCapacity
    <2>3. Unanswered' = Unanswered /\ NoDuplicates(lock_channels')
      BY <1>0, <1>7, <2>1, UnansweredStep, TailQueue
    <2>4. WaitersQueued'
      BY <1>0, <2>1, <2>3 DEF WaitersQueued, NoDuplicates, InQueue
    <2> QED
      BY <2>2, <2>4
  <1>8. CASE UNCHANGED vars
    BY <1>8 DEF vars, TypeOK, WaitersQueued, Unanswered, LoopWokenForWork, HeadAnswered
  <1> QED
    BY <1>1, <1>2, <1>3, <1>4, <1>5, <1>6, <1>7, <1>8 DEF Next, LoopStep

\* QueueInv is an invariant of the queue.
THEOREM Invariance == Spec => []QueueInv
  BY InitInv, InvStep, PTL DEF Spec

\* The queue keeps its types; the channel that wakes the loop never buffers a signal.
THEOREM QueueTypes == Spec => []TypeOK
  <1>1. QueueInv => TypeOK
    BY DEF QueueInv
  <1> QED
    BY <1>1, Invariance, PTL

\* Exactly the callers that wait have their statement in the deque, once.
THEOREM WaitersAreQueued == Spec => []WaitersQueued
  <1>1. QueueInv => WaitersQueued
    BY DEF QueueInv
  <1> QED
    BY <1>1, Invariance, PTL

\* No wakeup of the loop is lost and none is stale: with a capacity of zero, the
\* signal of add_request never outlives the deque's being non-empty.
THEOREM WakeupsAreExact == Spec => []LoopWokenForWork
  <1>1. QueueInv => LoopWokenForWork
    BY DEF QueueInv
  <1> QED
    BY <1>1, Invariance, PTL

\* Every behaviour of the queue is one of a serial executor: one statement at a
\* time, first come first served, each answered once.
THEOREM RefinesSerialExecutor == Spec => Serial!Init /\ [][Serial!Next]_(Serial!vars)
  <1>1. Init => Serial!Init
    BY DEF Init, Serial!Init, Unanswered
  <1>2. QueueInv /\ [Next]_vars => [Serial!Next]_(Serial!vars)
    <2> SUFFICES ASSUME QueueInv, [Next]_vars PROVE [Serial!Next]_(Serial!vars)
      OBVIOUS
    <2> DEFINE done == {r \in Requests : caller[r] \in {"ready", "done"}}
    <2>0. /\ \A r \in Requests : caller[r] = "waiting" <=> InQueue(Unanswered, r)
          /\ caller \in [Requests -> {"idle", "waiting", "ready", "done"}]
          /\ Unanswered \in Seq(Requests)
      BY WaitersAre, UnansweredStep DEF QueueInv, TypeOK
    <2>1. ASSUME NEW r \in Requests, AsyncExecuteQueued(r) PROVE Serial!Submit(r)
      <3>1. Unanswered' = Append(Unanswered, r) /\ ~InQueue(Unanswered, r)
        BY <2>0, <2>1, UnansweredStep DEF AsyncExecuteQueued
      <3>2. done' = done /\ r \notin done
        BY <2>0, <2>1 DEF AsyncExecuteQueued
      <3>3. (loop' = "ended") = (loop = "ended")
        BY <2>1 DEF AsyncExecuteQueued, try_send
      <3> QED
        BY <3>1, <3>2, <3>3 DEF Serial!Submit, Serial!Pending, InQueue
    <2>2. ASSUME NEW r \in Requests, Resume(r) PROVE UNCHANGED Serial!vars
      <3>1. Unanswered' = Unanswered /\ done' = done /\ loop' = loop
        BY <2>0, <2>2, UnansweredStep DEF Resume
      <3> QED
        BY <3>1 DEF Serial!vars
    <2>3. ASSUME NEW l \in Lookups, GetDbIndex(l) PROVE UNCHANGED Serial!vars
      <3>1. Unanswered' = Unanswered /\ done' = done /\ loop' = loop
        BY <2>3, UnansweredStep DEF GetDbIndex
      <3> QED
        BY <3>1 DEF Serial!vars
    <2>4. ASSUME Start \/ Wake \/ PopNext PROVE UNCHANGED Serial!vars
      <3>1. Unanswered' = Unanswered /\ caller' = caller
        BY <2>4, UnansweredStep DEF Start, Wake, PopNext
      <3>2. (loop' = "ended") = (loop = "ended")
        BY <2>4 DEF Start, Wake, PopNext, wait_until_non_empty, Receive
      <3> QED
        BY <3>1, <3>2 DEF Serial!vars
    <2>5. ASSUME Answer PROVE Serial!Answer
      <3> DEFINE h == Head(lock_channels)
      <3>1. /\ Unanswered = lock_channels /\ Unanswered # <<>>
            /\ Unanswered' = Tail(Unanswered)
        BY <2>5, UnansweredStep
      <3>2. h \in Requests
        BY <2>0, <3>1
      <3>3. done' = done \cup {h}
        BY <2>0, <2>5, <3>2 DEF Answer
      <3>4. loop # "ended" /\ loop' # "ended"
        BY <2>5 DEF Answer
      <3> QED
        BY <3>1, <3>3, <3>4 DEF Serial!Answer
    <2>6. ASSUME StatementFails PROVE Serial!Stop
      <3>1. Unanswered' = Unanswered /\ Unanswered # <<>> /\ caller' = caller
        BY <2>6, UnansweredStep DEF StatementFails, Unanswered, QueueInv, LoopWokenForWork
      <3> QED
        BY <2>6, <3>1 DEF StatementFails, Serial!Stop
    <2>7. CASE UNCHANGED vars
      BY <2>7 DEF vars, Serial!vars, Unanswered
    <2> QED
      BY <2>1, <2>2, <2>3, <2>4, <2>5, <2>6, <2>7 DEF Next, LoopStep, Serial!Next
  <1> QED
    BY <1>1, <1>2, Invariance, PTL DEF Spec

=============================================================================
