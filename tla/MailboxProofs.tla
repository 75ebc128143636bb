---------------------------- MODULE MailboxProofs ----------------------------
(***************************************************************************)
(* The order and the custody of messages.                                  *)
(*                                                                         *)
(* Plumbing: which statement and which suspended send belong to a          *)
(* send_delayed_messages.  Tables: how messages, ids and INSERTs are       *)
(* ordered, and whose rows a send_delayed_messages holds.  Giving: how     *)
(* what a client was given relates to the rows and to what is still to be  *)
(* handed over; from it, that Relay implements Mailbox.  Custody: who has  *)
(* got hold of a row while its recipient is online.                        *)
(***************************************************************************)
EXTENDS SignalProofs

-----------------------------------------------------------------------------
(* Statements and suspended sends                                           *)

Early(c) == phase[c] \in {"unused", "reading_key", "adding"}

\* Before its login is through, a connection has no send_delayed_messages; before
\* its key is read, no key.
EarlyIdle ==
    \A c \in Conns : /\ Early(c) => delayed[c] = Delayed("none")
                     /\ ~Read(c) => key[c] = NoKey

OfDelayed(s) == s.op \in {"select", "delete"}

\* Whoever has submitted a SELECT or a DELETE waits for it, and has no other.
GoodRequest(s) ==
    /\ s.op = "select" => /\ delayed[s.conn].pc = "query"
                          /\ Read(s.conn) /\ s.key \in {NoKey, key[s.conn]}
    /\ s.op = "delete" => delayed[s.conn].pc = "deleting"
Requested == \A p \in DOMAIN statements : GoodRequest(statements[p])
OneRequest ==
    \A p, q \in DOMAIN statements :
        /\ OfDelayed(statements[p]) /\ OfDelayed(statements[q])
        /\ statements[p].conn = statements[q].conn
        => p = q

\* A send_delayed_messages that is suspended on its channel is sending, once.
SuspendedOnce ==
    \A c \in Conns : \A p, q \in DOMAIN waiters[c] :
        waiters[c][p] = DelayedSender =>
            /\ delayed[c].pc = "sending"
            /\ waiters[c][q] = DelayedSender => p = q

Plumbing == EarlyIdle /\ Requested /\ OneRequest /\ SuspendedOnce

\* What a step does to the send_delayed_messages of a connection.
LEMMA DelayedEffects ==
    ASSUME TypesInv, RelayNext, NEW c \in Conns
    PROVE  \/ delayed'[c] = delayed[c]
           \/ (RegisterClient(c) \/ \E k \in Keys : LoginWithKey(c, k))
              /\ delayed'[c] = Delayed("query")
           \/ SocketStep(c) /\ AwaitSignal(c) /\ delayed'[c] = Handed(delayed[c])
              /\ waiters[c] # <<>> /\ Head(waiters[c]) = DelayedSender
              /\ waiters' = [waiters EXCEPT ![c] = Tail(@)]
           \/ ChannelDestroyed(c) /\ delayed'[c] = LeftLoop(delayed[c])
              /\ DelayedSender \in ToSet(waiters[c])
           \/ SendDelayed(c)
           \/ FinishDelayed(c)
           \/ SelectMessages /\ Head(statements).conn = c
           \/ DeleteMessages /\ Head(statements).conn = c
<1>. DEFINE Same == delayed'[c] = delayed[c]
<1>1. delayed \in [Conns -> DelayedStates]
  BY DEF TypesInv, RelayTypeOK
<1>2. ASSUME NEW d \in Conns, NEW x, delayed' = [delayed EXCEPT ![d] = x]
      PROVE  IF d = c THEN delayed'[c] = x ELSE Same
  BY <1>1, <1>2
<1>3. ASSUME NEW d \in Conns, PeerStep(d) \/ ConnectionStep(d)
      PROVE  \/ Same
             \/ (RegisterClient(c) \/ \E k \in Keys : LoginWithKey(c, k))
                /\ delayed'[c] = Delayed("query")
  <2>1. CASE RegisterClient(d)
    <3>1. delayed' = [delayed EXCEPT ![d] = Delayed("query")]
      BY <2>1 DEF RegisterClient
    <3>. QED
      BY <1>2, <2>1, <3>1
  <2>2. ASSUME NEW k \in LoginKeys[d], LoginWithKey(d, k)
        PROVE  \/ Same
               \/ (\E j \in Keys : LoginWithKey(c, j)) /\ delayed'[c] = Delayed("query")
    <3>1. k \in Keys
      BY RelayAssumption
    <3>2. delayed' = delayed \/ delayed' = [delayed EXCEPT ![d] = Delayed("query")]
      BY <2>2 DEF LoginWithKey
    <3>. QED
      BY <1>2, <2>2, <3>1, <3>2
  <2>. QED
    BY <1>3, <2>1, <2>2
    DEF PeerStep, ConnectionStep, AcceptConnection, PeerCloses, LoginAborted, RelayMessage,
        StoreMessage, SelectExistingUser, End, delivery
<1>4. ASSUME NEW d \in Conns, AwaitSignal(d), SocketStep(d)
      PROVE  \/ Same
             \/ SocketStep(c) /\ AwaitSignal(c) /\ delayed'[c] = Handed(delayed[c])
                /\ waiters[c] # <<>> /\ Head(waiters[c]) = DelayedSender
                /\ waiters' = [waiters EXCEPT ![c] = Tail(@)]
  <2>1. CASE delayed' = delayed
    BY <2>1
  <2>2. CASE delayed' # delayed
    <3>1. /\ waiters[d] # <<>> /\ Head(waiters[d]) = DelayedSender
          /\ waiters' = [waiters EXCEPT ![d] = Tail(@)]
          /\ delayed' = [delayed EXCEPT ![d] = Handed(@)]
      BY <1>4, <2>2 DEF AwaitSignal
    <3>. QED
      BY <1>2, <1>4, <3>1
  <2>. QED
    BY <2>1, <2>2
<1>5. ASSUME NEW d \in Conns, SocketStep(d)
      PROVE  \/ Same
             \/ SocketStep(c) /\ AwaitSignal(c) /\ delayed'[c] = Handed(delayed[c])
                /\ waiters[c] # <<>> /\ Head(waiters[c]) = DelayedSender
                /\ waiters' = [waiters EXCEPT ![c] = Tail(@)]
             \/ ChannelDestroyed(c) /\ delayed'[c] = LeftLoop(delayed[c])
                /\ DelayedSender \in ToSet(waiters[c])
  <2>1. CASE ChannelDestroyed(d)
    <3>1. \/ delayed' = delayed
          \/ delayed' = [delayed EXCEPT ![d] = LeftLoop(@)] /\ DelayedSender \in ToSet(waiters[d])
      BY <2>1 DEF ChannelDestroyed
    <3>. QED
      BY <1>2, <2>1, <3>1
  <2>2. CASE SocketWakes(d) \/ SocketWrites(d) \/ SocketFails(d)
    <3>1. AwaitSignal(d) \/ delayed' = delayed
      BY <2>2 DEF SocketWakes, SocketWrites, SocketFails
    <3>. QED
      BY <1>4, <1>5, <3>1
  <2>. QED
    BY <1>5, <2>1, <2>2 DEF SocketStep
<1>6. ASSUME NEW d \in Conns, DelayedStep(d)
      PROVE  Same \/ SendDelayed(c) \/ FinishDelayed(c)
  <2>1. PICK x : delayed' = [delayed EXCEPT ![d] = x]
    BY <1>6 DEF DelayedStep, SendDelayed, FinishDelayed
  <2>. QED
    BY <1>2, <1>6, <2>1 DEF DelayedStep
<1>7. ASSUME DatabaseStep
      PROVE  \/ Same
             \/ SelectMessages /\ Head(statements).conn = c
             \/ DeleteMessages /\ Head(statements).conn = c
  <2>1. CASE SelectMessages \/ DeleteMessages
    <3>1. PICK x : delayed' = [delayed EXCEPT ![Head(statements).conn] = x]
      BY <2>1 DEF SelectMessages, DeleteMessages
    <3>2. Head(statements).conn # c => Same
      BY <1>1, <3>1
    <3>. QED
      BY <2>1, <3>2
  <2>. QED
    BY <1>7, <2>1
    DEF DatabaseStep, InsertUser, SelectUser, InsertMessage, StatementFails, delivery
<1>. QED
  BY <1>3, <1>5, <1>6, <1>7 DEF RelayNext

\* What a step does to who is suspended on the channel of a connection.
LEMMA WaiterEffects ==
    ASSUME TypesInv, RelayNext, NEW c \in Conns
    PROVE  \/ waiters'[c] = waiters[c]
           \/ waiters[c] # <<>> /\ waiters'[c] = Tail(waiters[c])
           \/ waiters'[c] = <<>>
           \/ \E d \in Conns : waiters'[c] = Append(waiters[c], d)
           \/ SendDelayed(c) /\ waiters'[c] = Append(waiters[c], DelayedSender)
<1>. DEFINE Same == waiters'[c] = waiters[c]
<1>1. waiters \in [Conns -> Seq(Senders)]
  BY DEF TypesInv, RelayTypeOK
<1>2. ASSUME NEW o \in Conns, NEW who, async_send(o, who)
      PROVE  Same \/ (o = c /\ waiters'[c] = Append(waiters[c], who))
  BY <1>1, <1>2 DEF async_send
<1>3. ASSUME NEW d \in Conns, AwaitSignal(d)
      PROVE  Same \/ (waiters[c] # <<>> /\ waiters'[c] = Tail(waiters[c]))
  BY <1>1, <1>3 DEF AwaitSignal
<1>4. ASSUME NEW d \in Conns, PeerStep(d) \/ ConnectionStep(d)
      PROVE  Same \/ waiters'[c] = Append(waiters[c], d)
  <2>1. ASSUME NEW k \in Recipients[d], RelayMessage(d, k)
        PROVE  Same \/ waiters'[c] = Append(waiters[c], d)
    <3>1. k \in Keys
      BY RelayAssumption
    <3>2. PICK o \in Conns : o = Recipient(k)
      BY <2>1, <3>1, RecipientType DEF RelayMessage
    <3>. QED
      BY <1>2, <2>1, <3>2 DEF RelayMessage, add_message_to_queue
  <2>. QED
    BY <1>4, <2>1
    DEF PeerStep, ConnectionStep, AcceptConnection, PeerCloses, LoginWithKey, LoginAborted,
        StoreMessage, SelectExistingUser, RegisterClient, End, delivery
<1>5. ASSUME NEW d \in Conns, SocketStep(d)
      PROVE  \/ Same
             \/ waiters[c] # <<>> /\ waiters'[c] = Tail(waiters[c])
             \/ waiters'[c] = <<>>
  <2>1. CASE ChannelDestroyed(d)
    BY <1>1, <2>1 DEF ChannelDestroyed
  <2>2. CASE SocketFails(d)
    BY <2>2 DEF SocketFails
  <2>3. CASE SocketWakes(d) \/ SocketWrites(d)
    BY <1>3, <2>3 DEF SocketWakes, SocketWrites
  <2>. QED
    BY <1>5, <2>1, <2>2, <2>3 DEF SocketStep
<1>6. ASSUME NEW d \in Conns, DelayedStep(d)
      PROVE  Same \/ (SendDelayed(c) /\ waiters'[c] = Append(waiters[c], DelayedSender))
  <2>1. CASE FinishDelayed(d)
    BY <2>1 DEF FinishDelayed
  <2>2. CASE SendDelayed(d)
    <3>1. async_send(d, DelayedSender)
      BY <2>2, SendsToOwn DEF TypesInv, add_message_to_queue
    <3>. QED
      BY <1>2, <2>2, <3>1
  <2>. QED
    BY <1>6, <2>1, <2>2 DEF DelayedStep
<1>7. ASSUME DatabaseStep PROVE Same
  BY <1>7
  DEF DatabaseStep, InsertUser, SelectUser, InsertMessage, SelectMessages, DeleteMessages,
      StatementFails, Executes, delivery
<1>. QED
  BY <1>4, <1>5, <1>6, <1>7 DEF RelayNext

\* The state of a send_delayed_messages that a step finds and leaves.
LEMMA DelayedPcs ==
    ASSUME TypesInv, Plumbing, RelayNext, NEW c \in Conns, delayed'[c] # delayed[c]
    PROVE  \/ delayed[c].pc = "none" /\ delayed'[c].pc = "query" /\ ~Early(c)'
           \/ delayed[c].pc = "sending" /\ delayed'[c].pc = "ready"
              /\ (waiters'[c] = <<>>
                  \/ (Head(waiters[c]) = DelayedSender /\ waiters[c] # <<>>
                      /\ waiters'[c] = Tail(waiters[c])))
           \/ delayed[c].pc = "ready" /\ SendDelayed(c) /\ delayed'[c].pc \in {"ready", "sending"}
              /\ (delayed'[c].pc = "ready" => waiters'[c] = waiters[c])
           \/ delayed[c].pc = "ready" /\ FinishDelayed(c) /\ delayed'[c].pc \in {"deleting", "done"}
           \/ delayed[c].pc = "query" /\ SelectMessages /\ Head(statements).conn = c
              /\ delayed'[c].pc = "ready"
           \/ delayed[c].pc = "deleting" /\ DeleteMessages /\ Head(statements).conn = c
              /\ delayed'[c].pc = "done"
<1>1. /\ delayed \in [Conns -> DelayedStates] /\ waiters \in [Conns -> Seq(Senders)]
      /\ statements \in Seq(Statements) /\ TypeOK
  BY DEF TypesInv, RelayTypeOK
<1>2. \A pc, row, todo, handed : Batch(pc, row, todo, handed).pc = pc
  BY DEF Batch
<1>3. ASSUME NEW op, Executes(op)
      PROVE  /\ 1 \in DOMAIN statements /\ Head(statements) = statements[1]
             /\ statements[1].op = op
  BY <1>1, <1>3 DEF Executes
<1>4. CASE (RegisterClient(c) \/ \E k \in Keys : LoginWithKey(c, k))
           /\ delayed'[c] = Delayed("query")
  <2>1. Early(c)
    BY <1>4 DEF Early, RegisterClient, Register, LoginWithKey, Login
  <2>2. delayed[c] = Delayed("none")
    BY <2>1 DEF Plumbing, EarlyIdle
  <2>3. CASE RegisterClient(c)
    BY <1>1, <1>2, <1>4, <2>2, <2>3 DEF Delayed, Early, RegisterClient, Register, TypeOK
  <2>4. ASSUME NEW k \in Keys, LoginWithKey(c, k), ~RegisterClient(c)
        PROVE  delayed[c].pc = "none" /\ delayed'[c].pc = "query" /\ ~Early(c)'
    <3>1. phase'[c] # "adding"
      <4>1. phase'[c] = "adding" => UNCHANGED delayed
        BY <2>4 DEF LoginWithKey
      <4>. QED
        BY <4>1
    <3>2. phase'[c] = "online"
      BY <1>1, <2>4, <3>1 DEF LoginWithKey, Login, TypeOK
    <3>. QED
      BY <1>2, <1>4, <2>2, <3>2 DEF Delayed, Early
  <2>. QED
    BY <1>4, <2>3, <2>4
<1>5. CASE /\ SocketStep(c) /\ AwaitSignal(c) /\ delayed'[c] = Handed(delayed[c])
           /\ waiters[c] # <<>> /\ Head(waiters[c]) = DelayedSender
           /\ waiters' = [waiters EXCEPT ![c] = Tail(@)]
  <2>1. 1 \in DOMAIN waiters[c] /\ waiters[c][1] = DelayedSender
    BY <1>1, <1>5
  <2>2. delayed[c].pc = "sending"
    BY <2>1 DEF Plumbing, SuspendedOnce
  <2>. QED
    BY <1>1, <1>2, <1>5, <2>2 DEF Handed
<1>6. CASE ChannelDestroyed(c) /\ delayed'[c] = LeftLoop(delayed[c])
           /\ DelayedSender \in ToSet(waiters[c])
  <2>1. PICK p \in DOMAIN waiters[c] : waiters[c][p] = DelayedSender
    BY <1>6 DEF ToSet
  <2>2. delayed[c].pc = "sending"
    BY <2>1 DEF Plumbing, SuspendedOnce
  <2>3. waiters'[c] = <<>>
    BY <1>1, <1>6 DEF ChannelDestroyed
  <2>. QED
    BY <1>2, <1>6, <2>2, <2>3 DEF LeftLoop
<1>7. CASE SendDelayed(c)
  <2>1. PICK x :
            /\ \E row \in delayed[c].todo :
                   x = Batch("sending", row.id, delayed[c].todo \ {row}, delayed[c].handed)
            /\ delayed' = [delayed EXCEPT ![c] = IF sock[c].pc = "waiting" THEN Handed(x) ELSE x]
            /\ async_send(c, DelayedSender)
    BY <1>7, SendsToOwn DEF TypesInv, add_message_to_queue
  <2>2. delayed'[c] = IF sock[c].pc = "waiting" THEN Handed(x) ELSE x
    BY <1>1, <2>1
  <2>3. sock[c].pc = "waiting" => waiters' = waiters
    BY <2>1 DEF async_send
  <2>4. x.pc = "sending" /\ Handed(x).pc = "ready"
    BY <1>2, <2>1 DEF Handed
  <2>5. delayed[c].pc = "ready"
    BY <1>7 DEF SendDelayed
  <2>. QED
    BY <1>7, <2>2, <2>3, <2>4, <2>5
<1>8. CASE FinishDelayed(c)
  <2>. DEFINE x == Delayed("done")
              y == Batch("deleting", delayed[c].row, {}, delayed[c].handed)
  <2>2. x.pc = "done" /\ y.pc = "deleting"
    BY <1>2 DEF Delayed
  <2>. HIDE DEF x, y
  <2>3. delayed' = [delayed EXCEPT ![c] = x] \/ delayed' = [delayed EXCEPT ![c] = y]
    BY <1>8 DEF FinishDelayed, x, y
  <2>1. delayed'[c].pc \in {"deleting", "done"}
    BY <1>1, <2>2, <2>3
  <2>. QED
    BY <1>1, <1>8, <2>1 DEF FinishDelayed
<1>9. CASE SelectMessages /\ Head(statements).conn = c
  <2>1. 1 \in DOMAIN statements /\ statements[1].conn = c /\ statements[1].op = "select"
    BY <1>3, <1>9 DEF SelectMessages
  <2>2. delayed[c].pc = "query"
    BY <2>1 DEF Plumbing, Requested, GoodRequest
  <2>3. delayed'[c].pc = "ready"
    BY <1>1, <1>2, <1>9 DEF SelectMessages
  <2>. QED
    BY <1>9, <2>2, <2>3
<1>10. CASE DeleteMessages /\ Head(statements).conn = c
  <2>1. 1 \in DOMAIN statements /\ statements[1].conn = c /\ statements[1].op = "delete"
    BY <1>3, <1>10 DEF DeleteMessages
  <2>2. delayed[c].pc = "deleting"
    BY <2>1 DEF Plumbing, Requested, GoodRequest
  <2>3. delayed'[c].pc = "done"
    BY <1>1, <1>2, <1>10 DEF DeleteMessages, Delayed
  <2>. QED
    BY <1>10, <2>2, <2>3
<1>. QED
  BY <1>4, <1>5, <1>6, <1>7, <1>8, <1>9, <1>10, DelayedEffects

\* The phases only go forward, and a key that was read stays.
LEMMA PhasesAdvance ==
    ASSUME TypesInv, RelayNext, NEW c \in Conns
    PROVE  /\ Early(c)' => Early(c)
           /\ ~Read(c)' => ~Read(c) /\ key'[c] = key[c]
           /\ Read(c) => Read(c)' /\ key'[c] = key[c]
<1>1. TypeOK /\ [Next]_vars
  BY RegistryStep DEF TypesInv, RelayTypeOK
<1>. QED
  BY <1>1
  DEF Next, Accept, Login, Register, EndConnection, AbortLogin, vars, TypeOK, Read, Early

LEMMA EarlyIdleStep ==
    ASSUME TypesInv, Plumbing, RelayNext
    PROVE  EarlyIdle'
<1>. SUFFICES ASSUME NEW c \in Conns
              PROVE  /\ Early(c)' => delayed'[c] = Delayed("none")
                     /\ ~Read(c)' => key'[c] = NoKey
  BY DEF EarlyIdle
<1>1. ~Read(c)' => key'[c] = NoKey
  BY PhasesAdvance DEF Plumbing, EarlyIdle
<1>2. ASSUME Early(c)' PROVE delayed'[c] = Delayed("none")
  <2>1. delayed[c] = Delayed("none") /\ delayed[c].pc = "none"
    BY <1>2, PhasesAdvance DEF Plumbing, EarlyIdle, Delayed, Batch
  <2>. QED
    BY <1>2, <2>1, DelayedPcs
<1>. QED
  BY <1>1, <1>2

\* A request that is not executed stays one.
LEMMA RequestStays ==
    ASSUME TypesInv, Plumbing, RelayNext, NEW q \in DOMAIN statements,
           statements' = Tail(statements) => q # 1
    PROVE  GoodRequest(statements[q]) /\
           \A s : s = statements[q] => GoodRequest(s)'
<1>1. statements \in Seq(Statements)
  BY DEF TypesInv, RelayTypeOK
<1>. PICK s : s = statements[q]
  OBVIOUS
<1>2. GoodRequest(s) /\ s \in Statements
  BY <1>1 DEF Plumbing, Requested
<1>3. CASE ~OfDelayed(s)
  BY <1>2, <1>3 DEF OfDelayed, GoodRequest
<1>4. CASE OfDelayed(s)
  <2>1. PICK c \in Conns : c = s.conn
    BY <1>2, <1>4 DEF OfDelayed, Statements
  <2>2. Read(c) => Read(c)' /\ key'[c] = key[c]
    BY PhasesAdvance
  <2>3. delayed[c].pc = IF s.op = "select" THEN "query" ELSE "deleting"
    BY <1>2, <1>4, <2>1 DEF OfDelayed, GoodRequest
  <2>4. ASSUME NEW op \in {"select", "delete"}, Executes(op), Head(statements).conn = c
        PROVE  FALSE
    <3>1. /\ 1 \in DOMAIN statements /\ Head(statements) = statements[1]
          /\ statements[1].op = op /\ statements' = Tail(statements)
      BY <1>1, <2>4 DEF Executes
    <3>. QED
      BY <1>4, <2>1, <2>4, <3>1 DEF OfDelayed, Plumbing, OneRequest
  <2>5. delayed'[c] = delayed[c]
    BY <2>3, <2>4, DelayedPcs DEF SelectMessages, DeleteMessages
  <2>. QED
    BY <1>2, <2>1, <2>2, <2>5 DEF GoodRequest, Read
<1>. QED
  BY <1>2, <1>3, <1>4

\* A request that is submitted is the only one of its send_delayed_messages.
LEMMA StatementEffects ==
    ASSUME TypesInv, Plumbing, RelayNext
    PROVE  \/ statements' = statements
           \/ statements # <<>> /\ statements' = Tail(statements)
           \/ \E s : /\ statements' = Append(statements, s)
                     /\ OfDelayed(s) => /\ s.conn \in Conns
                                        /\ delayed[s.conn].pc \in {"none", "ready"}
                                        /\ GoodRequest(s)'
<1>. DEFINE New(s) == /\ statements' = Append(statements, s)
                      /\ OfDelayed(s) => /\ s.conn \in Conns
                                         /\ delayed[s.conn].pc \in {"none", "ready"}
                                         /\ GoodRequest(s)'
<1>1. TypeOK /\ delayed \in [Conns -> DelayedStates]
  BY DEF TypesInv, RelayTypeOK
<1>2. \A pc, row, todo, handed : Batch(pc, row, todo, handed).pc = pc
  BY DEF Batch
<1>3. ASSUME NEW c \in Conns, NEW k \in Keys, LoginWithKey(c, k) PROVE \E s : New(s)
  <2>1. Early(c) /\ delayed[c].pc = "none"
    BY <1>2, <1>3 DEF LoginWithKey, Login, Early, Plumbing, EarlyIdle, Delayed
  <2>2. CASE phase'[c] = "adding"
    <3>1. PICK s : s = Statement("insert_user", c, k, {})
      OBVIOUS
    <3>2. statements' = Append(statements, s) /\ ~OfDelayed(s)
      BY <1>3, <2>2, <3>1 DEF LoginWithKey, Submit, Statement, OfDelayed
    <3>. QED
      BY <3>2
  <2>3. CASE phase'[c] # "adding"
    <3>1. PICK s : s = Statement("select", c, NoKey, {})
      OBVIOUS
    <3>2. /\ statements' = Append(statements, s)
          /\ delayed' = [delayed EXCEPT ![c] = Delayed("query")]
          /\ phase'[c] = "online"
      BY <1>1, <1>3, <2>3, <3>1 DEF LoginWithKey, Submit, Login, TypeOK
    <3>3. s.conn = c /\ s.key = NoKey /\ s.op = "select"
      BY <3>1 DEF Statement
    <3>4. delayed'[c].pc = "query"
      BY <1>1, <1>2, <3>2 DEF Delayed
    <3>5. GoodRequest(s)'
      BY <3>2, <3>3, <3>4 DEF GoodRequest, Read
    <3>. QED
      BY <2>1, <3>2, <3>3, <3>5
  <2>. QED
    BY <2>2, <2>3
<1>4. ASSUME NEW c \in Conns, RegisterClient(c) PROVE \E s : New(s)
  <2>1. Early(c) /\ delayed[c].pc = "none"
    BY <1>2, <1>4 DEF RegisterClient, Register, Early, Plumbing, EarlyIdle, Delayed
  <2>2. PICK s : s = Statement("select", c, key[c], {})
    OBVIOUS
  <2>3. /\ statements' = Append(statements, s) /\ key' = key
        /\ delayed' = [delayed EXCEPT ![c] = Delayed("query")]
        /\ phase'[c] = "online"
    BY <1>1, <1>4, <2>2 DEF RegisterClient, Submit, Register, TypeOK
  <2>4. s.conn = c /\ s.key = key[c] /\ s.op = "select"
    BY <2>2 DEF Statement
  <2>5. delayed'[c].pc = "query"
    BY <1>1, <1>2, <2>3 DEF Delayed
  <2>6. GoodRequest(s)'
    BY <2>3, <2>4, <2>5 DEF GoodRequest, Read
  <2>. QED
    BY <2>1, <2>3, <2>4, <2>6
<1>5. ASSUME NEW c \in Conns, FinishDelayed(c), statements' # statements PROVE \E s : New(s)
  <2>1. PICK s : s = Statement("delete", c, NoKey, delayed[c].handed)
    OBVIOUS
  <2>. DEFINE y == Batch("deleting", delayed[c].row, {}, delayed[c].handed)
  <2>2. /\ statements' = Append(statements, s)
        /\ delayed' = [delayed EXCEPT ![c] = y]
        /\ delayed[c].pc = "ready"
    BY <1>5, <2>1 DEF FinishDelayed, Submit, database
  <2>3. s.conn = c /\ s.op = "delete"
    BY <2>1 DEF Statement
  <2>4. delayed'[c].pc = "deleting"
    BY <1>1, <1>2, <2>2
  <2>5. GoodRequest(s)'
    BY <2>3, <2>4 DEF GoodRequest
  <2>. QED
    BY <2>2, <2>3, <2>5
<1>6. ASSUME NEW c \in Conns, SelectExistingUser(c) PROVE \E s : New(s)
  <2>1. PICK s : s = Statement("select_user", c, key[c], {})
    OBVIOUS
  <2>2. statements' = Append(statements, s) /\ ~OfDelayed(s)
    BY <1>6, <2>1 DEF SelectExistingUser, Submit, Statement, OfDelayed
  <2>. QED
    BY <2>2
<1>7. ASSUME NEW c \in Conns, NEW k \in Keys, StoreMessage(c, k) PROVE \E s : New(s)
  <2>1. PICK user : Submit(Statement("insert", NoClient, user, {Len(sent) + 1}))
    BY <1>7 DEF StoreMessage, add_message_to_db
  <2>2. PICK s : s = Statement("insert", NoClient, user, {Len(sent) + 1})
    OBVIOUS
  <2>3. statements' = Append(statements, s) /\ ~OfDelayed(s)
    BY <2>1, <2>2 DEF Submit, Statement, OfDelayed
  <2>. QED
    BY <2>3
<1>. HIDE DEF New
<1>8. \/ statements' = statements
      \/ statements # <<>> /\ statements' = Tail(statements)
      \/ \E s : New(s)
  BY <1>3, <1>4, <1>5, <1>6, <1>7, StatementChanges
<1>. QED
  BY <1>8 DEF New

\* Requests stay with their send_delayed_messages, one each.
LEMMA RequestsStep ==
    ASSUME TypesInv, Plumbing, RelayNext
    PROVE  Requested' /\ OneRequest'
<1>1. statements \in Seq(Statements)
  BY DEF TypesInv, RelayTypeOK
<1>2. CASE statements' = statements
  <2>1. ASSUME NEW p \in DOMAIN statements PROVE GoodRequest(statements[p])'
    <3>1. statements' # Tail(statements)
      BY <1>1, <1>2
    <3>2. PICK s : s = statements[p]
      OBVIOUS
    <3>3. GoodRequest(s)'
      BY <3>1, <3>2, RequestStays
    <3>. QED
      BY <1>2, <3>2, <3>3
  <2>. QED
    BY <1>2, <2>1 DEF Requested, Plumbing, OneRequest
<1>3. CASE statements # <<>> /\ statements' = Tail(statements)
  <2>1. \A p \in DOMAIN statements' : /\ p + 1 \in DOMAIN statements /\ p + 1 # 1
                                      /\ statements'[p] = statements[p + 1]
    BY <1>1, <1>3
  <2>2. ASSUME NEW p \in DOMAIN statements' PROVE GoodRequest(statements[p])'
    <3>1. PICK s : s = statements[p + 1]
      OBVIOUS
    <3>2. GoodRequest(s)'
      BY <2>1, <3>1, RequestStays
    <3>. QED
      BY <2>1, <3>1, <3>2
  <2>3. OneRequest'
    <3>1. \A p, q \in DOMAIN statements' : p + 1 = q + 1 => p = q
      BY <1>1, <1>3
    <3>. QED
      BY <2>1, <3>1 DEF Plumbing, OneRequest
  <2>. QED
    BY <2>2, <2>3 DEF Requested
<1>4. ASSUME NEW s, statements' = Append(statements, s),
             OfDelayed(s) => /\ s.conn \in Conns
                             /\ delayed[s.conn].pc \in {"none", "ready"}
                             /\ GoodRequest(s)'
      PROVE  Requested' /\ OneRequest'
  <2>1. /\ DOMAIN statements' = DOMAIN statements \cup {Len(statements) + 1}
        /\ \A p \in DOMAIN statements : statements'[p] = statements[p]
        /\ statements'[Len(statements) + 1] = s
    BY <1>1, <1>4
  <2>2. ASSUME NEW p \in DOMAIN statements PROVE GoodRequest(statements[p])'
    <3>1. PICK t : t = statements[p]
      OBVIOUS
    <3>4. statements # <<>> => Len(Tail(statements)) = Len(statements) - 1
      BY <1>1
    <3>5. Len(statements') = Len(statements) + 1 /\ Len(statements) \in Nat
      BY <1>1, <1>4
    <3>6. statements # <<>>
      OBVIOUS
    <3>7. statements' # Tail(statements)
      BY <3>4, <3>5, <3>6
    <3>2. GoodRequest(t)'
      BY <3>1, <3>7, RequestStays
    <3>. QED
      BY <2>1, <3>1, <3>2
  <2>3. GoodRequest(s)'
    BY <1>4 DEF OfDelayed, GoodRequest
  <2>4. \A p \in DOMAIN statements :
            OfDelayed(statements[p]) /\ OfDelayed(s) => statements[p].conn # s.conn
    BY <1>4 DEF Plumbing, Requested, GoodRequest, OfDelayed
  <2>5. Requested'
    BY <2>1, <2>2, <2>3 DEF Requested
  <2>6. OneRequest'
    BY <2>1, <2>4 DEF Plumbing, OneRequest
  <2>. QED
    BY <2>5, <2>6
<1>. QED
  BY <1>2, <1>3, <1>4, StatementEffects

LEMMA SuspendedOnceStep ==
    ASSUME TypesInv, Plumbing, RelayNext
    PROVE  SuspendedOnce'
<1>. SUFFICES ASSUME NEW c \in Conns
              PROVE  \A p, q \in DOMAIN waiters'[c] :
                         waiters'[c][p] = DelayedSender =>
                             /\ delayed'[c].pc = "sending"
                             /\ waiters'[c][q] = DelayedSender => p = q
  BY DEF SuspendedOnce
<1>. DEFINE Absent(w) == \A p \in DOMAIN w : w[p] # DelayedSender
<1>1. /\ waiters \in [Conns -> Seq(Senders)] /\ delayed \in [Conns -> DelayedStates]
      /\ waiters[c] \in Seq(Senders)
  BY DEF TypesInv, RelayTypeOK
<1>2. \A p, q \in DOMAIN waiters[c] :
          waiters[c][p] = DelayedSender =>
              /\ delayed[c].pc = "sending"
              /\ waiters[c][q] = DelayedSender => p = q
  BY DEF Plumbing, SuspendedOnce
<1>3. \A d \in Conns : d # DelayedSender
  BY RelayAssumption
<1>4. CASE SendDelayed(c)
  <2>1. Absent(waiters[c])
    BY <1>2, <1>4 DEF SendDelayed
  <2>2. PICK x :
            /\ \E row \in delayed[c].todo :
                   x = Batch("sending", row.id, delayed[c].todo \ {row}, delayed[c].handed)
            /\ delayed' = [delayed EXCEPT ![c] = IF sock[c].pc = "waiting" THEN Handed(x) ELSE x]
            /\ async_send(c, DelayedSender)
    BY <1>4, SendsToOwn DEF TypesInv, add_message_to_queue
  <2>3. CASE sock[c].pc = "waiting"
    BY <2>1, <2>2, <2>3 DEF async_send
  <2>4. CASE sock[c].pc # "waiting"
    <3>1. x.pc = "sending"
      BY <2>2 DEF Batch
    <3>2. delayed'[c].pc = "sending"
      BY <1>1, <2>2, <2>4, <3>1
    <3>3. waiters'[c] = Append(waiters[c], DelayedSender)
      BY <1>1, <2>2, <2>4 DEF async_send
    <3>4. \A p \in DOMAIN waiters'[c] :
              waiters'[c][p] = DelayedSender => p = Len(waiters[c]) + 1
      BY <1>1, <2>1, <3>3
    <3>. QED
      BY <3>2, <3>4
  <2>. QED
    BY <2>3, <2>4
<1>5. ASSUME ~SendDelayed(c), Absent(waiters[c])
      PROVE  Absent(waiters'[c])
  <2>1. CASE waiters'[c] = waiters[c] \/ waiters'[c] = <<>>
    BY <1>5, <2>1
  <2>2. CASE waiters[c] # <<>> /\ waiters'[c] = Tail(waiters[c])
    BY <1>1, <1>5, <2>2
  <2>3. ASSUME NEW d \in Conns, waiters'[c] = Append(waiters[c], d)
        PROVE  Absent(waiters'[c])
    BY <1>1, <1>3, <1>5, <2>3
  <2>. QED
    BY <1>5, <2>1, <2>2, <2>3, WaiterEffects
<1>6. CASE ~SendDelayed(c) /\ delayed'[c] = delayed[c]
  <2>1. CASE Absent(waiters[c])
    BY <1>5, <1>6, <2>1
  <2>2. CASE ~Absent(waiters[c])
    <3>1. delayed[c].pc = "sending" /\ delayed'[c].pc = "sending"
      BY <1>2, <1>6, <2>2
    <3>2. CASE waiters'[c] = waiters[c] \/ waiters'[c] = <<>>
      BY <1>2, <3>1, <3>2
    <3>3. CASE waiters[c] # <<>> /\ waiters'[c] = Tail(waiters[c])
      <4>1. \A p \in DOMAIN waiters'[c] : p + 1 \in DOMAIN waiters[c] /\ p \in Nat
                                          /\ waiters'[c][p] = waiters[c][p + 1]
        BY <1>1, <3>3
      <4>2. \A p, q \in DOMAIN waiters'[c] : p + 1 = q + 1 => p = q
        BY <4>1
      <4>. QED
        BY <1>2, <3>1, <4>1, <4>2
    <3>4. ASSUME NEW d \in Conns, waiters'[c] = Append(waiters[c], d)
          PROVE  \A p \in DOMAIN waiters'[c] :
                     waiters'[c][p] = DelayedSender =>
                         p \in DOMAIN waiters[c] /\ waiters[c][p] = DelayedSender
      BY <1>1, <1>3, <3>4
    <3>. QED
      BY <1>2, <1>6, <3>1, <3>2, <3>3, <3>4, WaiterEffects
  <2>. QED
    BY <2>1, <2>2
<1>7. CASE ~SendDelayed(c) /\ delayed'[c] # delayed[c]
  <2>1. CASE delayed[c].pc # "sending"
    <3>1. Absent(waiters[c])
      BY <1>2, <2>1
    <3>. QED
      BY <1>5, <1>7, <3>1
  <2>2. CASE delayed[c].pc = "sending"
    <3>1. \/ waiters'[c] = <<>>
          \/ /\ Head(waiters[c]) = DelayedSender /\ waiters[c] # <<>>
             /\ waiters'[c] = Tail(waiters[c])
      BY <1>7, <2>2, DelayedPcs
    <3>2. CASE waiters'[c] = <<>>
      BY <3>2
    <3>3. CASE /\ Head(waiters[c]) = DelayedSender /\ waiters[c] # <<>>
               /\ waiters'[c] = Tail(waiters[c])
      <4>1. 1 \in DOMAIN waiters[c] /\ waiters[c][1] = DelayedSender
        BY <1>1, <3>3
      <4>2. \A p \in DOMAIN waiters'[c] : /\ p + 1 \in DOMAIN waiters[c] /\ p + 1 # 1
                                          /\ waiters'[c][p] = waiters[c][p + 1]
        BY <1>1, <3>3
      <4>. QED
        BY <1>2, <4>1, <4>2
    <3>. QED
      BY <3>1, <3>2, <3>3
  <2>. QED
    BY <2>1, <2>2
<1>. QED
  BY <1>4, <1>6, <1>7

LEMMA PlumbingStep == TypesInv /\ Plumbing /\ [RelayNext]_relayVars => Plumbing'
<1>1. CASE RelayNext
  BY <1>1, EarlyIdleStep, RequestsStep, SuspendedOnceStep DEF Plumbing
<1>2. CASE UNCHANGED relayVars
  BY <1>2
  DEF relayVars, registryVars, vars, database, delivery, Plumbing, EarlyIdle, Requested,
      OneRequest, SuspendedOnce, GoodRequest, Read, Early
<1>. QED
  BY <1>1, <1>2

LEMMA InitPlumbing == RelayInit => Plumbing
<1>. SUFFICES ASSUME RelayInit PROVE Plumbing
  OBVIOUS
<1>1. EarlyIdle
  BY DEF RelayInit, Init, EarlyIdle
<1>2. Requested /\ OneRequest /\ SuspendedOnce
  BY DEF RelayInit, Requested, OneRequest, SuspendedOnce
<1>. QED
  BY <1>1, <1>2 DEF Plumbing

\* At most one statement and one suspended send belong to each send_delayed_messages
\* (server.cpp:180-215): it never has two requests in the queue, and nobody else's
\* signal resumes it.
THEOREM OneRequestEach == RelaySpec => []Plumbing
<1>1. RelayInit => Plumbing
  BY InitPlumbing
<1>2. TypesInv /\ Plumbing /\ [RelayNext]_relayVars => Plumbing'
  BY PlumbingStep
<1>. QED
  BY <1>1, <1>2, TypesHold, PTL DEF RelaySpec

-----------------------------------------------------------------------------
(* Rows, ids and INSERTs                                                    *)

\* A message that was stored, for key k.
StoredFor(m, k) == m \in 1 .. Len(sent) /\ sent[m].via = NoClient /\ sent[m].to = k

\* The rows of the table and those that a send_delayed_messages holds.
AllRows == stored \cup UNION {delayed[c].todo : c \in Conns}

\* The ids of rows are in the order of the messages.
RowsOrdered ==
    /\ \A r \in AllRows : r.id \in 1 .. last_id /\ StoredFor(r.message, r.key)
    /\ \A r, s \in AllRows : /\ r.id = s.id => r = s
                             /\ r.id < s.id => r.message < s.message

TodoOwn == \A c \in Conns : \A r \in delayed[c].todo : r.key = key[c]

\* An INSERT is for the message's addressee or no row, of a message that is newer than
\* any row and than the INSERTs before it.
Inserts == {p \in DOMAIN statements : statements[p].op = "insert"}
InsertsOrdered ==
    \A p \in Inserts : \A m \in statements[p].args :
        /\ \E k \in Keys : StoredFor(m, k) /\ statements[p].key \in {NoKey, k}
        /\ \A r \in AllRows : r.message < m
        /\ \A q \in Inserts : q > p => \A n \in statements[q].args : m < n

Tables == RowsOrdered /\ TodoOwn /\ InsertsOrdered

LEMMA SentGrows ==
    ASSUME TypesInv, RelayNext
    PROVE  /\ Len(sent) \in Nat /\ Len(sent') \in Nat /\ Len(sent) <= Len(sent')
           /\ \A m \in 1 .. Len(sent) : m \in 1 .. Len(sent') /\ sent'[m] = sent[m]
<1>1. sent \in Seq([from : Conns, to : Keys, via : Conns \cup {NoClient}])
  BY DEF TypesInv, RelayTypeOK
<1>2. sent' = sent \/ \E x : sent' = Append(sent, x)
  BY DEF RelayNext, PeerStep, ConnectionStep, SocketStep, DelayedStep, DatabaseStep,
         AcceptConnection, PeerCloses, LoginWithKey, LoginAborted, RelayMessage,
         StoreMessage, SelectExistingUser, RegisterClient, End, SocketWakes, SocketWrites,
         SocketFails, ChannelDestroyed, SendDelayed, FinishDelayed, InsertUser, SelectUser,
         InsertMessage, SelectMessages, DeleteMessages, StatementFails, Executes
<1>3. Len(sent') \in Nat /\ Len(sent) \in Nat /\ Len(sent) <= Len(sent')
  BY <1>1, <1>2
<1>4. \A m \in 1 .. Len(sent) : sent'[m] = sent[m]
  BY <1>1, <1>2
<1>. QED
  BY <1>3, <1>4

LEMMA StoredForStays ==
    ASSUME TypesInv, RelayNext, NEW m, NEW k, StoredFor(m, k)
    PROVE  m \in 1 .. Len(sent') /\ sent'[m].via = NoClient /\ sent'[m].to = k
BY SentGrows DEF StoredFor

\* What is appended to the statements, and what becomes of the rows.
LEMMA TableEffects ==
    ASSUME TypesInv, RelayNext
    PROVE  \/ /\ last_id' = last_id /\ AllRows' \subseteq AllRows
              /\ \/ statements' = statements
                 \/ statements # <<>> /\ statements' = Tail(statements)
                 \/ \E s : statements' = Append(statements, s) /\ s.op # "insert"
                 \/ \E k \in Keys, user \in Keys \cup {NoKey} :
                        /\ user \in {NoKey, k}
                        /\ \E c : sent' = Append(sent, [from |-> c, to |-> k, via |-> NoClient])
                        /\ statements' = Append(statements, Statement("insert", NoClient, user,
                                                                      {Len(sent) + 1}))
           \/ /\ InsertMessage
              /\ AllRows' \subseteq AllRows \cup Rows(Head(statements))
<1>1. /\ statements \in Seq(Statements) /\ delayed \in [Conns -> DelayedStates]
  BY DEF TypesInv, RelayTypeOK
<1>2. ASSUME NEW c \in Conns
      PROVE  delayed'[c].todo \subseteq delayed[c].todo \cup stored
  <2>1. CASE SelectMessages /\ c = Head(statements).conn
    <3>1. delayed'[c] = Batch("ready", 0, {row \in stored : row.key = Head(statements).key}, {})
      BY <1>1, <2>1 DEF SelectMessages
    <3>2. delayed'[c].todo = {row \in stored : row.key = Head(statements).key}
      BY <3>1 DEF Batch
    <3>. QED
      BY <3>2
  <2>. QED
    BY <2>1, DelayedChanges DEF TypesInv
<1>3. (stored' \subseteq stored /\ last_id' = last_id) \/ InsertMessage
  BY ZenonT(40) DEF RelayNext, PeerStep, ConnectionStep, SocketStep, DelayedStep, DatabaseStep,
         AcceptConnection, PeerCloses, LoginWithKey, LoginAborted, RelayMessage,
         StoreMessage, SelectExistingUser, RegisterClient, End, SocketWakes, SocketWrites,
         SocketFails, ChannelDestroyed, SendDelayed, FinishDelayed, InsertUser, SelectUser,
         SelectMessages, DeleteMessages, StatementFails, Submit, add_message_to_db, database
<1>4. CASE InsertMessage
  <2>1. stored' = stored \cup Rows(Head(statements))
    BY <1>4 DEF InsertMessage
  <2>. QED
    BY <1>2, <1>4, <2>1 DEF AllRows
<1>5. CASE stored' \subseteq stored /\ last_id' = last_id
  <2>1. AllRows' \subseteq AllRows
    BY <1>2, <1>5 DEF AllRows
  <2>. DEFINE Other == \E s : statements' = Append(statements, s) /\ s.op # "insert"
  <2>2. ASSUME NEW op, NEW c, NEW k, NEW args, op # "insert",
               Submit(Statement(op, c, k, args))
        PROVE  Other
    <3>1. Statement(op, c, k, args).op # "insert"
      BY <2>2 DEF Statement
    <3>. QED
      BY <2>2, <3>1 DEF Submit
  <2>3. ASSUME NEW c \in Conns,
               \/ \E k \in Keys : LoginWithKey(c, k)
               \/ SelectExistingUser(c) \/ RegisterClient(c)
        PROVE  Other
    BY <2>2, <2>3 DEF LoginWithKey, SelectExistingUser, RegisterClient
  <2>4. ASSUME NEW c \in Conns, FinishDelayed(c), statements' # statements PROVE Other
    BY <2>2, <2>4 DEF FinishDelayed, database
  <2>5. ASSUME NEW c \in Conns, NEW k \in Keys, StoreMessage(c, k)
        PROVE  \E user \in Keys \cup {NoKey} :
                   /\ user \in {NoKey, k}
                   /\ sent' = Append(sent, [from |-> c, to |-> k, via |-> NoClient])
                   /\ statements' = Append(statements, Statement("insert", NoClient, user,
                                                                 {Len(sent) + 1}))
    <3>1. PICK user \in IF k \in DOMAIN client_indices THEN {NoKey} ELSE get_db_index(k) :
              add_message_to_db(user, Len(sent) + 1)
      BY <2>5 DEF StoreMessage
    <3>2. user \in {NoKey, k}
      BY <3>1 DEF get_db_index
    <3>. QED
      BY <2>5, <3>1, <3>2 DEF StoreMessage, add_message_to_db, Submit
  <2>. HIDE DEF Other
  <2>6. \/ statements' = statements
        \/ statements # <<>> /\ statements' = Tail(statements)
        \/ Other
        \/ \E c \in Conns, k \in Keys : StoreMessage(c, k)
    BY <2>3, <2>4, StatementChanges
  <2>. QED
    BY <1>5, <2>1, <2>5, <2>6 DEF Other
<1>. QED
  BY <1>3, <1>4, <1>5

\* The head of the statements, as a row.
LEMMA InsertedRow ==
    ASSUME TypesInv, Tables, InsertMessage
    PROVE  \E m, k :
               /\ Rows(Head(statements)) = {[id |-> last_id + 1, key |-> k, message |-> m]}
               /\ 1 \in Inserts /\ statements[1].args = {m} /\ StoredFor(m, k) /\ k \in Keys
               /\ statements' = Tail(statements) /\ statements # <<>>
               /\ last_id' = last_id + 1 /\ sent' = sent
<1>1. /\ statements # <<>> /\ statements' = Tail(statements) /\ sent' = sent
      /\ Head(statements).op = "insert" /\ Head(statements).key \in users
      /\ last_id' = last_id + 1
  BY DEF InsertMessage, Executes
<1>2. statements \in Seq(Statements) /\ users \subseteq Keys
  BY DEF TypesInv, RelayTypeOK
<1>3. 1 \in Inserts /\ Head(statements) = statements[1] /\ statements[1] \in Statements
  BY <1>1, <1>2 DEF Inserts
<1>4. PICK m : statements[1].args = {m}
  BY <1>1, <1>3 DEF Statements
<1>5. PICK k : k = statements[1].key
  OBVIOUS
<1>6. k \in Keys /\ k # NoKey
  BY <1>1, <1>2, <1>3, <1>5, RegistryAssumption
<1>7. StoredFor(m, k)
  BY <1>3, <1>4, <1>5, <1>6 DEF Tables, InsertsOrdered
<1>8. Rows(Head(statements)) = {[id |-> last_id + 1, key |-> k, message |-> m]}
  BY <1>3, <1>4, <1>5 DEF Rows
<1>. QED
  BY <1>1, <1>3, <1>4, <1>6, <1>7, <1>8

LEMMA RowsOrderedStep ==
    ASSUME TypesInv, Tables, RelayNext
    PROVE  RowsOrdered'
<1>1. last_id \in Nat
  BY DEF TypesInv, RelayTypeOK
<1>2. \A r \in AllRows : /\ r.id \in 1 .. last_id
                         /\ r.message \in 1 .. Len(sent') /\ sent'[r.message].via = NoClient
                         /\ sent'[r.message].to = r.key
  BY StoredForStays DEF Tables, RowsOrdered
<1>3. \A r, s \in AllRows : /\ r.id = s.id => r = s
                            /\ r.id < s.id => r.message < s.message
  BY DEF Tables, RowsOrdered
<1>4. CASE last_id' = last_id /\ AllRows' \subseteq AllRows
  BY <1>2, <1>3, <1>4 DEF RowsOrdered, StoredFor
<1>5. CASE InsertMessage /\ AllRows' \subseteq AllRows \cup Rows(Head(statements))
  <2>1. PICK m, k :
            /\ Rows(Head(statements)) = {[id |-> last_id + 1, key |-> k, message |-> m]}
            /\ 1 \in Inserts /\ statements[1].args = {m} /\ StoredFor(m, k) /\ k \in Keys
            /\ statements' = Tail(statements) /\ statements # <<>>
            /\ last_id' = last_id + 1 /\ sent' = sent
    BY <1>5, InsertedRow
  <2>2. PICK new : new = [id |-> last_id + 1, key |-> k, message |-> m]
    OBVIOUS
  <2>3. new.id = last_id + 1 /\ new.key = k /\ new.message = m
    BY <2>2
  <2>4. \A r \in AllRows : r.message < m
    BY <2>1 DEF Tables, InsertsOrdered
  <2>5. AllRows' \subseteq AllRows \cup {new}
    BY <1>5, <2>1, <2>2
  <2>6. \A r \in AllRows' : r.id \in 1 .. last_id'
    BY <1>1, <1>2, <2>1, <2>3, <2>5
  <2>7. \A r \in AllRows' : /\ r.message \in 1 .. Len(sent') /\ sent'[r.message].via = NoClient
                            /\ sent'[r.message].to = r.key
    BY <1>2, <2>1, <2>3, <2>5 DEF StoredFor
  <2>8. \A r \in AllRows : r.id # new.id /\ ~(new.id < r.id) /\ r.message < new.message
    BY <1>1, <1>2, <2>3, <2>4
  <2>9. \A r, s \in AllRows' : /\ r.id = s.id => r = s
                               /\ r.id < s.id => r.message < s.message
    <3>1. ~(new.id < new.id)
      BY <1>1, <2>3
    <3>. QED
      BY <1>3, <2>5, <2>8, <3>1
  <2>. QED
    BY <2>6, <2>7, <2>9 DEF RowsOrdered, StoredFor
<1>. QED
  BY <1>4, <1>5, TableEffects

LEMMA InsertsOrderedStep ==
    ASSUME TypesInv, Tables, RelayNext
    PROVE  InsertsOrdered'
<1>1. statements \in Seq(Statements) /\ Len(statements) \in Nat
  BY DEF TypesInv, RelayTypeOK
<1>. DEFINE For(p, m) == \E k \in Keys : /\ m \in 1 .. Len(sent') /\ sent'[m].via = NoClient
                                         /\ sent'[m].to = k /\ statements[p].key \in {NoKey, k}
<1>2. \A p \in Inserts : \A m \in statements[p].args : For(p, m)
  BY StoredForStays DEF Tables, InsertsOrdered
<1>3. \A p \in Inserts : \A m \in statements[p].args :
          /\ \A r \in AllRows : r.message < m
          /\ \A q \in Inserts : q > p => \A n \in statements[q].args : m < n
  BY DEF Tables, InsertsOrdered
<1>4. ASSUME statements' = statements, AllRows' \subseteq AllRows
      PROVE  InsertsOrdered'
  BY <1>2, <1>3, <1>4 DEF InsertsOrdered, Inserts, StoredFor
<1>5. ASSUME statements # <<>>, statements' = Tail(statements),
             \A p \in Inserts : p > 1 =>
                 \A m \in statements[p].args : \A r \in AllRows' : r.message < m
      PROVE  InsertsOrdered'
  <2>1. \A p \in DOMAIN statements' : /\ p + 1 \in DOMAIN statements /\ p + 1 > 1 /\ p \in Nat
                                      /\ statements'[p] = statements[p + 1]
    BY <1>1, <1>5
  <2>2. \A p \in Inserts' : p + 1 \in Inserts /\ statements'[p] = statements[p + 1]
                            /\ p + 1 > 1 /\ p \in Nat
    BY <2>1 DEF Inserts
  <2>3. \A p, q \in Inserts' : q > p => q + 1 > p + 1
    BY <2>2
  <2>4. \A p \in Inserts' : \A m \in statements'[p].args : For(p + 1, m)
    BY <1>2, <2>2
  <2>5. \A p \in Inserts' : \A m \in statements'[p].args :
            \E k \in Keys : /\ m \in 1 .. Len(sent') /\ sent'[m].via = NoClient
                            /\ sent'[m].to = k /\ statements'[p].key \in {NoKey, k}
    BY <2>2, <2>4
  <2>6. ASSUME NEW p \in Inserts', NEW m \in statements'[p].args
        PROVE  /\ \A r \in AllRows' : r.message < m
               /\ \A q \in Inserts' : q > p => \A n \in statements'[q].args : m < n
    <3>1. m \in statements[p + 1].args /\ p + 1 \in Inserts /\ p + 1 > 1
      BY <2>2, <2>6
    <3>2. \A r \in AllRows' : r.message < m
      BY <1>5, <3>1
    <3>3. \A q \in Inserts' : q > p => \A n \in statements'[q].args : m < n
      BY <1>3, <2>2, <2>3, <3>1
    <3>. QED
      BY <3>2, <3>3
  <2>. QED
    BY <2>5, <2>6 DEF InsertsOrdered, StoredFor
<1>6. ASSUME NEW s, statements' = Append(statements, s), AllRows' \subseteq AllRows,
             s.op = "insert" =>
                 \E k \in Keys : /\ s.key \in {NoKey, k} /\ s.args = {Len(sent) + 1}
                                 /\ \E c : sent' = Append(sent, [from |-> c, to |-> k,
                                                               via |-> NoClient])
      PROVE  InsertsOrdered'
  <2>. DEFINE last == Len(statements) + 1
  <2>1. /\ DOMAIN statements' = DOMAIN statements \cup {last}
        /\ \A p \in DOMAIN statements : p < last /\ statements'[p] = statements[p]
        /\ statements'[last] = s
    BY <1>1, <1>6
  <2>2. /\ Inserts' \subseteq Inserts \cup {last}
        /\ \A p \in Inserts : p < last /\ p # last /\ statements'[p] = statements[p]
    BY <1>1, <2>1 DEF Inserts
  <2>3. last \in Inserts' => s.op = "insert"
    BY <2>1 DEF Inserts
  <2>4. CASE s.op # "insert"
    BY <1>2, <1>3, <1>6, <2>2, <2>3, <2>4 DEF InsertsOrdered, StoredFor
  <2>5. CASE s.op = "insert"
    <3>0. PICK k \in Keys :
              /\ s.key \in {NoKey, k} /\ s.args = {Len(sent) + 1}
              /\ \E c : sent' = Append(sent, [from |-> c, to |-> k, via |-> NoClient])
      BY <1>6, <2>5
    <3>1. PICK c : sent' = Append(sent, [from |-> c, to |-> k, via |-> NoClient])
      BY <3>0
    <3>2. /\ Len(sent) \in Nat /\ Len(sent) + 1 \in 1 .. Len(sent')
          /\ sent'[Len(sent) + 1] = [from |-> c, to |-> k, via |-> NoClient]
      BY <3>1 DEF TypesInv, RelayTypeOK
    <3>3. \A m \in s.args : m = Len(sent) + 1
      BY <3>0
    <3>4. \A m \in s.args : \E j \in Keys : StoredFor(m, j)' /\ s.key \in {NoKey, j}
      BY <3>0, <3>2, <3>3 DEF StoredFor
    <3>5. \A p \in Inserts : \A m \in statements[p].args : m < Len(sent) + 1
      BY <3>2 DEF Tables, InsertsOrdered, StoredFor
    <3>6. \A r \in AllRows : r.message < Len(sent) + 1
      BY <3>2 DEF Tables, RowsOrdered, StoredFor
    <3>7. \A p \in Inserts' : p \in Inserts \/ p = last
      BY <2>2
    <3>8. \A p \in Inserts : \A m \in statements[p].args :
              \E j \in Keys : StoredFor(m, j)' /\ statements[p].key \in {NoKey, j}
      BY <1>2 DEF StoredFor
    <3>9. \A p \in Inserts' : \A m \in statements'[p].args :
              \E j \in Keys : StoredFor(m, j)' /\ statements'[p].key \in {NoKey, j}
      BY <2>1, <2>2, <3>4, <3>7, <3>8
    <3>10. \A p \in Inserts' : \A m \in statements'[p].args : \A r \in AllRows' : r.message < m
      BY <1>3, <1>6, <2>1, <2>2, <3>3, <3>6, <3>7, ZenonT(40)
    <3>11. ASSUME NEW p \in Inserts', NEW q \in Inserts', q > p,
                  NEW m \in statements'[p].args, NEW n \in statements'[q].args
           PROVE  m < n
      <4>0. p \in Nat /\ q \in Nat /\ last \in Nat /\ ~(last > last)
        BY <1>1, <2>1, <3>11 DEF Inserts
      <4>1. p \in Inserts
        <5>1. CASE p = last
          BY <2>2, <3>7, <3>11, <4>0, <5>1
        <5>. QED
          BY <3>7, <5>1
      <4>2. CASE q = last
        BY <2>1, <2>2, <3>3, <3>5, <3>11, <4>1, <4>2
      <4>3. CASE q \in Inserts
        BY <1>3, <2>2, <3>11, <4>1, <4>3
      <4>. QED
        BY <3>7, <4>2, <4>3
    <3>. QED
      BY <3>9, <3>10, <3>11 DEF InsertsOrdered
  <2>. QED
    BY <2>4, <2>5
<1>7. CASE /\ last_id' = last_id /\ AllRows' \subseteq AllRows
           /\ statements # <<>> /\ statements' = Tail(statements)
  BY <1>3, <1>5, <1>7
<1>8. CASE InsertMessage /\ AllRows' \subseteq AllRows \cup Rows(Head(statements))
  <2>1. PICK m, k :
            /\ Rows(Head(statements)) = {[id |-> last_id + 1, key |-> k, message |-> m]}
            /\ 1 \in Inserts /\ statements[1].args = {m} /\ StoredFor(m, k) /\ k \in Keys
            /\ statements' = Tail(statements) /\ statements # <<>>
            /\ last_id' = last_id + 1 /\ sent' = sent
    BY <1>8, InsertedRow
  <2>2. \A r \in AllRows' : r \in AllRows \/ r.message = m
    BY <1>8, <2>1
  <2>3. \A p \in Inserts : p > 1 => \A n \in statements[p].args : m < n
    BY <1>3, <2>1
  <2>. QED
    BY <1>3, <1>5, <2>1, <2>2, <2>3
<1>9. ASSUME last_id' = last_id, AllRows' \subseteq AllRows,
             NEW k \in Keys, NEW user \in Keys \cup {NoKey}, user \in {NoKey, k},
             NEW c, sent' = Append(sent, [from |-> c, to |-> k, via |-> NoClient]),
             statements' = Append(statements, Statement("insert", NoClient, user,
                                                        {Len(sent) + 1}))
      PROVE  InsertsOrdered'
  <2>1. PICK s : s = Statement("insert", NoClient, user, {Len(sent) + 1})
    OBVIOUS
  <2>2. s.key = user /\ s.args = {Len(sent) + 1}
    BY <2>1 DEF Statement
  <2>. QED
    BY <1>6, <1>9, <2>1, <2>2
<1>10. ASSUME AllRows' \subseteq AllRows, NEW s, statements' = Append(statements, s),
              s.op # "insert"
       PROVE  InsertsOrdered'
  BY <1>6, <1>10
<1>. HIDE DEF For
<1>. QED
  BY <1>4, <1>7, <1>8, <1>9, <1>10, TableEffects

LEMMA TodoOwnStep ==
    ASSUME TypesInv, Plumbing, Tables, RelayNext
    PROVE  TodoOwn'
<1>. SUFFICES ASSUME NEW c \in Conns, NEW r \in delayed'[c].todo
              PROVE  r.key = key'[c]
  BY DEF TodoOwn
<1>1. statements \in Seq(Statements) /\ delayed \in [Conns -> DelayedStates]
      /\ stored \subseteq Row /\ NoKey \notin Keys
  BY RegistryAssumption DEF TypesInv, RelayTypeOK
<1>2. ASSUME Read(c), r.key = key[c] PROVE r.key = key'[c]
  BY <1>2, ContextGrows
<1>3. CASE delayed'[c].todo \subseteq delayed[c].todo
  <2>1. r \in delayed[c].todo /\ r.key = key[c]
    BY <1>3 DEF Tables, TodoOwn
  <2>2. delayed[c] # Delayed("none")
    BY <2>1 DEF Delayed, Batch
  <2>3. Read(c)
    BY <2>2 DEF Plumbing, EarlyIdle, Early, Read
  <2>. QED
    BY <1>2, <2>1, <2>3
<1>4. CASE SelectMessages /\ c = Head(statements).conn
  <2>. DEFINE s == Head(statements)
  <2>1. /\ statements # <<>> /\ s.op = "select"
        /\ delayed' = [delayed EXCEPT ![s.conn] =
                          Batch("ready", 0, {row \in stored : row.key = s.key}, {})]
    BY <1>4 DEF SelectMessages, Executes
  <2>2. delayed'[c] = Batch("ready", 0, {row \in stored : row.key = s.key}, {})
    BY <1>1, <1>4, <2>1
  <2>3. r \in stored /\ r.key = s.key
    BY <2>2 DEF Batch
  <2>4. Read(c) /\ s.key \in {NoKey, key[c]}
    BY <1>1, <1>4, <2>1 DEF Plumbing, Requested, GoodRequest
  <2>5. r.key \in Keys
    BY <1>1, <2>3 DEF Row
  <2>. QED
    BY <1>1, <1>2, <2>3, <2>4, <2>5
<1>. QED
  BY <1>3, <1>4, DelayedChanges DEF TypesInv

LEMMA TablesStep ==
    TypesInv /\ Plumbing /\ Tables /\ [RelayNext]_relayVars => Tables'
<1>1. ASSUME UNCHANGED relayVars, Tables PROVE Tables'
  <2>1. /\ stored' = stored /\ delayed' = delayed /\ statements' = statements
        /\ sent' = sent /\ last_id' = last_id /\ key' = key
    BY <1>1 DEF relayVars, registryVars, vars, database, delivery
  <2>2. AllRows' = AllRows /\ Inserts' = Inserts
    BY <2>1 DEF AllRows, Inserts
  <2>. QED
    BY <1>1, <2>1, <2>2 DEF Tables, RowsOrdered, TodoOwn, InsertsOrdered, StoredFor
<1>. QED
  BY <1>1, RowsOrderedStep, InsertsOrderedStep, TodoOwnStep DEF Tables

LEMMA InitTables == RelayInit => Tables
<1>. SUFFICES ASSUME RelayInit PROVE Tables
  OBVIOUS
<1>1. /\ stored = {} /\ statements = <<>>
      /\ \A c \in Conns : delayed[c].todo = {}
  BY DEF RelayInit, Delayed, Batch
<1>2. AllRows = {} /\ Inserts = {}
  BY <1>1 DEF AllRows, Inserts
<1>. QED
  BY <1>1, <1>2 DEF Tables, RowsOrdered, TodoOwn, InsertsOrdered

\* The ids of the rows are in the order in which the messages were received, and the
\* INSERTs under way are of newer ones (database.cpp:147).
THEOREM IdsAreInOrder == RelaySpec => []Tables
<1>1. RelayInit => Tables
  BY InitTables
<1>2. TypesInv /\ Plumbing /\ Tables /\ [RelayNext]_relayVars => Tables'
  BY TablesStep
<1>. QED
  BY <1>1, <1>2, TypesHold, OneRequestEach, PTL DEF RelaySpec

-----------------------------------------------------------------------------
(* What has been given to each client                                       *)

StoredMessage(m) == sent[m].via = NoClient

\* What a client was given was relayed to it or stored for its key; a
\* send_delayed_messages without rows has given nothing yet.
GivenItsOwn ==
    \A c \in Conns : \A p \in DOMAIN Given(c) :
        LET m == Given(c)[p]
        IN  /\ m \in DOMAIN sent
            /\ IF StoredMessage(m)
               THEN sent[m].to = key[c] /\ delayed[c].pc \notin {"none", "query"}
               ELSE sent[m].via = c

\* Each way into a queue is in order; what is still to be given is newer.
GivenInOrder ==
    \A c \in Conns : \A q \in DOMAIN Given(c) :
        LET n == Given(c)[q]
        IN  /\ \A p \in DOMAIN Given(c) :
                   p < q /\ StoredMessage(Given(c)[p]) = StoredMessage(n) => Given(c)[p] < n
            /\ StoredMessage(n) => \A row \in delayed[c].todo : n < row.message

\* A socket coroutine writes the head of its own client's queue.
WritesHead ==
    \A c \in Conns : sock[c].pc = "writing" =>
        /\ sock[c].target = c
        /\ queue[c] # <<>> /\ sock[c].message = Head(queue[c])

\* The row with an id, if it is still there, was given to c.
GivenRow(c, id) ==
    /\ id \in 0 .. last_id
    /\ \A row \in stored : row.id = id => row.key = key[c] /\ row.message \in ToSet(Given(c))

\* Only rows that were given are taken for sent, and deleted.
HandedGiven ==
    /\ \A c \in Conns :
           /\ \A id \in delayed[c].handed : GivenRow(c, id)
           /\ delayed[c].pc = "sending" => GivenRow(c, delayed[c].row)
    /\ \A p \in DOMAIN statements :
           statements[p].op = "delete" => \A id \in statements[p].args : GivenRow(statements[p].conn, id)

Giving == GivenItsOwn /\ GivenInOrder /\ WritesHead /\ HandedGiven /\ Accounted
GivingInv == ~crossed => Giving

-----------------------------------------------------------------------------
(* What a step adds to what has been given                                  *)

LEMMA ConcatMove ==
    ASSUME NEW S, NEW s \in Seq(S), NEW t \in Seq(S), t # <<>>
    PROVE  Append(s, Head(t)) \o Tail(t) = s \o t
OBVIOUS

LEMMA AppendElements ==
    ASSUME NEW S, NEW s \in Seq(S), NEW x
    PROVE  /\ DOMAIN Append(s, x) = DOMAIN s \cup {Len(s) + 1}
           /\ Append(s, x)[Len(s) + 1] = x
           /\ \A p \in DOMAIN s : Append(s, x)[p] = s[p] /\ p < Len(s) + 1
           /\ \A p \in DOMAIN s : ~(Len(s) + 1 < p)
           /\ ~(Len(s) + 1 < Len(s) + 1)
OBVIOUS

LEMMA CrossedStays ==
    ASSUME RelayNext, crossed \in BOOLEAN, ~crossed'
    PROVE  ~crossed
BY DEF RelayNext, PeerStep, ConnectionStep, SocketStep, DelayedStep, DatabaseStep,
       AcceptConnection, PeerCloses, LoginWithKey, LoginAborted, RelayMessage, StoreMessage,
       SelectExistingUser, RegisterClient, End, SocketWakes, SocketWrites, SocketFails,
       ChannelDestroyed, SendDelayed, FinishDelayed, InsertUser, SelectUser, InsertMessage,
       SelectMessages, DeleteMessages, StatementFails, Executes, delivery

LEMMA GivenType == TypesInv => \A c \in Conns : Given(c) \in Seq(Messages)
<1>. SUFFICES ASSUME TypesInv, NEW c \in Conns PROVE inbox[c] \o queue[c] \in Seq(Messages)
  BY DEF Given
<1>1. inbox[c] \in Seq(Messages) /\ queue[c] \in Seq(Messages)
  BY DEF TypesInv, RelayTypeOK
<1>. QED
  BY <1>1

\* A message is put behind what a client was given.
LEMMA GivenByAdding ==
    ASSUME TypesInv, NEW o \in Conns, NEW m \in Messages, add_message(o, m), inbox' = inbox
    PROVE  /\ Given(o)' = Append(Given(o), m)
           /\ \A c \in Conns \ {o} : Given(c)' = Given(c)
<1>1. queue \in [Conns -> Seq(Messages)] /\ inbox \in [Conns -> Seq(Messages)]
  BY DEF TypesInv, RelayTypeOK
<1>2. queue'[o] = Append(queue[o], m) /\ \A c \in Conns \ {o} : queue'[c] = queue[c]
  BY <1>1 DEF add_message
<1>3. inbox[o] \in Seq(Messages) /\ queue[o] \in Seq(Messages) /\ m \in Messages
  BY <1>1
<1>4. ASSUME NEW s \in Seq(Messages), NEW t \in Seq(Messages)
      PROVE  s \o Append(t, m) = Append(s \o t, m)
  OBVIOUS
<1>5. inbox[o] \o Append(queue[o], m) = Append(inbox[o] \o queue[o], m)
  BY <1>3, <1>4
<1>. QED
  BY <1>2, <1>5 DEF Given

\* A coroutine that writes the head of its own queue gives nothing and takes nothing.
LEMMA GivenByWriting ==
    ASSUME TypesInv, WritesHead, NEW d \in Conns, SocketWrites(d)
    PROVE  \A c \in Conns : Given(c)' = Given(c)
<1>1. queue \in [Conns -> Seq(Messages)] /\ inbox \in [Conns -> Seq(Messages)]
  BY DEF TypesInv, RelayTypeOK
<1>2. /\ queue[d] # <<>>
      /\ queue' = [queue EXCEPT ![d] = Tail(queue[d])]
      /\ inbox' = [inbox EXCEPT ![d] = Append(@, Head(queue[d]))]
  BY DEF SocketWrites, WritesHead
<1>3. queue'[d] = Tail(queue[d]) /\ inbox'[d] = Append(inbox[d], Head(queue[d]))
  BY <1>1, <1>2
<1>4. inbox[d] \in Seq(Messages) /\ queue[d] \in Seq(Messages)
  BY <1>1
<1>5. Append(inbox[d], Head(queue[d])) \o Tail(queue[d]) = inbox[d] \o queue[d]
  BY <1>2, <1>4, ConcatMove
<1>6. \A c \in Conns \ {d} : queue'[c] = queue[c] /\ inbox'[c] = inbox[c]
  BY <1>1, <1>2
<1>. QED
  BY <1>3, <1>5, <1>6 DEF Given

\* What a send_delayed_messages takes from its rows, and what becomes of it.
TakesRow(c, row) ==
    /\ row \in delayed[c].todo
    /\ \A other \in delayed[c].todo : row.id <= other.id
    /\ delayed'[c].todo = delayed[c].todo \ {row}
    /\ delayed'[c].row = row.id
    /\ delayed'[c].handed \subseteq delayed[c].handed \cup {row.id}
    /\ delayed[c].pc = "ready"

LEMMA SendDelayedTakes ==
    ASSUME TypesInv, NEW c \in Conns, SendDelayed(c)
    PROVE  \E row \in delayed[c].todo :
               /\ TakesRow(c, row) /\ row \in Row /\ add_message(c, row.message)
               /\ delayed'[c].pc \in {"ready", "sending"}
               /\ delayed[c].handed \subseteq delayed'[c].handed
               /\ delayed'[c].pc = "ready" => row.id \in delayed'[c].handed
<1>1. delayed \in [Conns -> DelayedStates]
  BY DEF TypesInv, RelayTypeOK
<1>2. PICK row \in delayed[c].todo :
          LET taken == Batch("sending", row.id, delayed[c].todo \ {row}, delayed[c].handed)
          IN  /\ \A other \in delayed[c].todo : row.id <= other.id
              /\ add_message_to_queue(c, row.message, DelayedSender)
              /\ delayed' = [delayed EXCEPT ![c] = IF sock[c].pc = "waiting"
                                                   THEN Handed(taken) ELSE taken]
  BY SendsToOwn DEF TypesInv
<1>3. PICK taken : taken = Batch("sending", row.id, delayed[c].todo \ {row}, delayed[c].handed)
  OBVIOUS
<1>4. /\ taken.row = row.id /\ taken.todo = delayed[c].todo \ {row} /\ taken.pc = "sending"
      /\ taken.handed = delayed[c].handed
  BY <1>3 DEF Batch
<1>5. /\ Handed(taken).row = row.id /\ Handed(taken).todo = delayed[c].todo \ {row}
      /\ Handed(taken).pc = "ready" /\ Handed(taken).handed = delayed[c].handed \cup {row.id}
  BY <1>4 DEF Handed, Batch
<1>6. delayed'[c] = Handed(taken) \/ delayed'[c] = taken
  BY <1>1, <1>2, <1>3
<1>7. row \in Row
  BY <1>1 DEF DelayedStates
<1>. QED
  BY <1>2, <1>4, <1>5, <1>6, <1>7 DEF TakesRow, add_message_to_queue, SendDelayed

LEMMA GivenChanges ==
    ASSUME TypesInv, WritesHead, RelayNext, NEW c \in Conns
    PROVE  \/ Given(c)' = Given(c)
           \/ /\ \E d \in Conns, k \in Keys : RelayMessage(d, k) /\ Recipient(k) = c
              /\ Given(c)' = Append(Given(c), Len(sent) + 1)
           \/ /\ SendDelayed(c)
              /\ \E row \in delayed[c].todo :
                     /\ TakesRow(c, row) /\ delayed'[c].pc \in {"ready", "sending"}
                     /\ Given(c)' = Append(Given(c), row.message)
<1>1. CASE UNCHANGED <<queue, inbox>>
  BY <1>1 DEF Given
<1>2. ASSUME NEW d \in Conns, NEW k \in Keys, RelayMessage(d, k)
      PROVE  \/ Given(c)' = Given(c)
             \/ Recipient(k) = c /\ Given(c)' = Append(Given(c), Len(sent) + 1)
  <2>1. PICK o \in Conns : o = Recipient(k)
    BY <1>2, RecipientType DEF RelayMessage
  <2>2. Len(sent) + 1 \in Messages
    BY <1>2, RelayAssumption DEF RelayMessage, Messages, TypesInv, RelayTypeOK
  <2>3. add_message(o, Len(sent) + 1) /\ inbox' = inbox
    BY <1>2, <2>1 DEF RelayMessage, add_message_to_queue
  <2>. QED
    BY <2>1, <2>2, <2>3, GivenByAdding
<1>3. ASSUME NEW d \in Conns, SendDelayed(d)
      PROVE  \/ Given(c)' = Given(c)
             \/ /\ d = c
                /\ \E row \in delayed[c].todo :
                       /\ TakesRow(c, row) /\ delayed'[c].pc \in {"ready", "sending"}
                       /\ Given(c)' = Append(Given(c), row.message)
  <2>1. PICK row \in delayed[d].todo :
            /\ TakesRow(d, row) /\ row \in Row /\ add_message(d, row.message)
            /\ delayed'[d].pc \in {"ready", "sending"}
    BY <1>3, SendDelayedTakes
  <2>2. row.message \in Messages /\ inbox' = inbox
    BY <1>3, <2>1 DEF Row, SendDelayed
  <2>3. /\ Given(d)' = Append(Given(d), row.message)
        /\ \A e \in Conns \ {d} : Given(e)' = Given(e)
    BY <2>1, <2>2, GivenByAdding
  <2>. QED
    BY <2>1, <2>3
<1>4. ASSUME NEW d \in Conns, SocketWrites(d) PROVE Given(c)' = Given(c)
  BY <1>4, GivenByWriting
<1>. QED
  BY <1>1, <1>2, <1>3, <1>4, QueueChanges

\* Given grows at its end.
LEMMA GivenGrows ==
    ASSUME TypesInv, WritesHead, RelayNext, NEW c \in Conns
    PROVE  /\ DOMAIN Given(c) \subseteq DOMAIN Given(c)'
           /\ \A p \in DOMAIN Given(c) : Given(c)'[p] = Given(c)[p]
           /\ ToSet(Given(c)) \subseteq ToSet(Given(c)')
<1>1. Given(c) \in Seq(Messages)
  BY GivenType
<1>2. Given(c)' = Given(c) \/ \E x : Given(c)' = Append(Given(c), x)
  BY GivenChanges
<1>3. /\ DOMAIN Given(c) \subseteq DOMAIN Given(c)'
      /\ \A p \in DOMAIN Given(c) : Given(c)'[p] = Given(c)[p]
  BY <1>1, <1>2, AppendElements
<1>. QED
  BY <1>3 DEF ToSet

-----------------------------------------------------------------------------
(* Custody and order are kept                                               *)

\* The key of whoever has a send_delayed_messages is known, and one that has fetched
\* its rows does not fetch again.
LEMMA SessionStays ==
    ASSUME TypesInv, Plumbing, RelayNext, NEW c \in Conns, delayed[c] # Delayed("none")
    PROVE  /\ Read(c) /\ key'[c] = key[c]
           /\ delayed[c].pc \notin {"none", "query"} => delayed'[c].pc \notin {"none", "query"}
<1>1. Read(c)
  BY DEF Plumbing, EarlyIdle, Early, Read
<1>2. delayed[c].pc \notin {"none", "query"} => delayed'[c].pc \notin {"none", "query"}
  BY DelayedPcs
<1>. QED
  BY <1>1, <1>2, PhasesAdvance

LEMMA NoneIsNone == Delayed("none").pc = "none" /\ Delayed("none").todo = {} /\ Delayed("none").handed = {}
BY DEF Delayed, Batch

\* What was given to a client, as the step leaves it.
LEMMA OwnStays ==
    ASSUME TypesInv, Plumbing, GivenItsOwn, RelayNext, NEW c \in Conns, NEW p \in DOMAIN Given(c)
    PROVE  LET m == Given(c)[p]
           IN  /\ m \in DOMAIN sent /\ m \in DOMAIN sent' /\ sent'[m] = sent[m]
               /\ IF StoredMessage(m)
                  THEN /\ sent[m].to = key[c] /\ key'[c] = key[c]
                       /\ delayed[c].pc \notin {"none", "query"}
                       /\ delayed'[c].pc \notin {"none", "query"}
                  ELSE sent[m].via = c
<1>. PICK m : m = Given(c)[p]
  OBVIOUS
<1>1. m \in DOMAIN sent /\ m \in DOMAIN sent' /\ sent'[m] = sent[m]
  <2>1. m \in DOMAIN sent
    BY DEF GivenItsOwn
  <2>2. \E n, o \in Nat : DOMAIN sent = 1 .. n /\ DOMAIN sent' = 1 .. o /\ n = Len(sent) /\ o = Len(sent')
    BY TypesStep DEF TypesInv, RelayTypeOK
  <2>. QED
    BY <2>1, <2>2, SentGrows
<1>2. ASSUME StoredMessage(m)
      PROVE  /\ sent[m].to = key[c] /\ key'[c] = key[c]
             /\ delayed[c].pc \notin {"none", "query"}
             /\ delayed'[c].pc \notin {"none", "query"}
  <2>1. sent[m].to = key[c] /\ delayed[c].pc \notin {"none", "query"}
    BY <1>2 DEF GivenItsOwn
  <2>. QED
    BY <2>1, SessionStays, NoneIsNone
<1>3. ~StoredMessage(m) => sent[m].via = c
  BY DEF GivenItsOwn
<1>. QED
  BY <1>1, <1>2, <1>3

\* A row that a send_delayed_messages takes holds a message stored for its client,
\* newer than any that it has given and older than any that it still has.
LEMMA TakenRow ==
    ASSUME TypesInv, Plumbing, Tables, GivenInOrder, RelayNext,
           NEW c \in Conns, NEW row, TakesRow(c, row)
    PROVE  /\ row.id \in 1 .. last_id /\ row.key = key[c] /\ key'[c] = key[c]
           /\ row.message \in DOMAIN sent' /\ row.message \in DOMAIN sent
           /\ sent[row.message].via = NoClient /\ sent'[row.message] = sent[row.message]
           /\ sent'[row.message].to = key[c]
           /\ \A p \in DOMAIN Given(c) : StoredMessage(Given(c)[p]) => Given(c)[p] < row.message
           /\ \A other \in delayed'[c].todo : row.message < other.message
           /\ \A other \in stored : other.id = row.id => other = row
<1>1. row \in AllRows /\ delayed[c].todo \subseteq AllRows /\ stored \subseteq AllRows
  BY DEF TakesRow, AllRows
<1>2. row.id \in 1 .. last_id /\ StoredFor(row.message, row.key) /\ row.key = key[c]
  BY <1>1 DEF Tables, RowsOrdered, TodoOwn, TakesRow
<1>3. key'[c] = key[c]
  BY SessionStays, NoneIsNone DEF TakesRow
<1>4. DOMAIN sent = 1 .. Len(sent) /\ DOMAIN sent' = 1 .. Len(sent')
  BY TypesStep DEF TypesInv, RelayTypeOK
<1>5. \A other \in delayed'[c].todo : row.message < other.message
  <2>. SUFFICES ASSUME NEW other \in delayed'[c].todo PROVE row.message < other.message
    OBVIOUS
  <2>1. other \in delayed[c].todo /\ other # row /\ row.id <= other.id
    BY DEF TakesRow
  <2>2. other \in AllRows /\ other.id \in Nat /\ row.id \in Nat /\ last_id \in Nat
    BY <1>1, <2>1 DEF Tables, RowsOrdered, TypesInv, RelayTypeOK
  <2>3. row.id # other.id
    BY <1>1, <2>1, <2>2 DEF Tables, RowsOrdered
  <2>4. row.id < other.id
    BY <2>1, <2>2, <2>3
  <2>. QED
    BY <1>1, <2>2, <2>4 DEF Tables, RowsOrdered
<1>6. \A other \in stored : other.id = row.id => other = row
  BY <1>1 DEF Tables, RowsOrdered
<1>7. \A p \in DOMAIN Given(c) : StoredMessage(Given(c)[p]) => Given(c)[p] < row.message
  BY DEF GivenInOrder, TakesRow
<1>. QED
  BY <1>2, <1>3, <1>4, <1>5, <1>6, <1>7, SentGrows DEF StoredFor

LEMMA GivenItsOwnStep ==
    ASSUME TypesInv, Plumbing, Tables, Giving, RelayNext
    PROVE  GivenItsOwn'
<1>. DEFINE Own(c, m) == /\ m \in DOMAIN sent'
                         /\ IF sent'[m].via = NoClient
                            THEN sent'[m].to = key'[c] /\ delayed'[c].pc \notin {"none", "query"}
                            ELSE sent'[m].via = c
<1>. SUFFICES ASSUME NEW c \in Conns, NEW p \in DOMAIN Given(c)' PROVE Own(c, Given(c)'[p])
  BY DEF GivenItsOwn, StoredMessage
<1>1. WritesHead /\ GivenItsOwn /\ GivenInOrder
  BY DEF Giving
<1>2. ASSUME p \in DOMAIN Given(c), Given(c)'[p] = Given(c)[p] PROVE Own(c, Given(c)'[p])
  BY <1>1, <1>2, OwnStays DEF StoredMessage
<1>3. Given(c) \in Seq(Messages)
  BY GivenType
<1>4. ASSUME NEW x, Given(c)' = Append(Given(c), x), Own(c, x) PROVE Own(c, Given(c)'[p])
  <2>1. \/ p \in DOMAIN Given(c) /\ Given(c)'[p] = Given(c)[p]
        \/ Given(c)'[p] = x
    BY <1>3, <1>4, AppendElements
  <2>. QED
    BY <1>2, <1>4, <2>1
<1>5. ASSUME NEW d \in Conns, NEW k \in Keys, RelayMessage(d, k), Recipient(k) = c
      PROVE  Own(c, Len(sent) + 1)
  <2>1. sent \in Seq([from : Conns, to : Keys, via : Conns \cup {NoClient}])
        /\ sent' = Append(sent, [from |-> d, to |-> k, via |-> c])
    BY <1>5 DEF RelayMessage, TypesInv, RelayTypeOK
  <2>2. Len(sent) + 1 \in DOMAIN sent' /\ sent'[Len(sent) + 1].via = c
    BY <2>1
  <2>. QED
    BY <2>2, RegistryAssumption
<1>6. ASSUME NEW row, TakesRow(c, row), delayed'[c].pc \in {"ready", "sending"}
      PROVE  Own(c, row.message)
  BY <1>1, <1>6, TakenRow
<1>. HIDE DEF Own
<1>. QED
  BY <1>1, <1>2, <1>4, <1>5, <1>6, GivenChanges

LEMMA GivenInOrderStep ==
    ASSUME TypesInv, Plumbing, Tables, Giving, RelayNext
    PROVE  GivenInOrder'
<1>. DEFINE Stored(m) == sent'[m].via = NoClient
<1>. SUFFICES ASSUME NEW c \in Conns
              PROVE  \A q \in DOMAIN Given(c)' :
                         /\ \A p \in DOMAIN Given(c)' :
                                p < q /\ Stored(Given(c)'[p]) = Stored(Given(c)'[q])
                                    => Given(c)'[p] < Given(c)'[q]
                         /\ Stored(Given(c)'[q]) =>
                                \A row \in delayed'[c].todo : Given(c)'[q] < row.message
  BY DEF GivenInOrder, StoredMessage
<1>1. WritesHead /\ GivenItsOwn /\ GivenInOrder
  BY DEF Giving
<1>2. Given(c) \in Seq(Messages)
  BY GivenType
<1>3. \A p \in DOMAIN Given(c) : /\ Given(c)[p] \in 1 .. Len(sent)
                                 /\ Stored(Given(c)[p]) = StoredMessage(Given(c)[p])
  <2>1. DOMAIN sent = 1 .. Len(sent)
    BY DEF TypesInv, RelayTypeOK
  <2>. QED
    BY <1>1, <2>1, OwnStays DEF StoredMessage
<1>4. \A p, q \in DOMAIN Given(c) :
          p < q /\ Stored(Given(c)[p]) = Stored(Given(c)[q]) => Given(c)[p] < Given(c)[q]
  BY <1>1, <1>3 DEF GivenInOrder
<1>5. \A q \in DOMAIN Given(c) : Stored(Given(c)[q]) =>
          \A row \in delayed'[c].todo : Given(c)[q] < row.message
  <2>1. CASE delayed'[c].todo \subseteq delayed[c].todo
    BY <1>1, <1>3, <2>1 DEF GivenInOrder
  <2>2. CASE SelectMessages /\ c = Head(statements).conn
    <3>1. delayed[c].pc = "query"
      <4>1. statements \in Seq(Statements) /\ statements # <<>> /\ Head(statements).op = "select"
        BY <2>2 DEF TypesInv, RelayTypeOK, SelectMessages, Executes
      <4>. QED
        BY <2>2, <4>1 DEF Plumbing, Requested, GoodRequest
    <3>2. \A q \in DOMAIN Given(c) : ~StoredMessage(Given(c)[q])
      BY <1>1, <3>1 DEF GivenItsOwn
    <3>. QED
      BY <1>3, <3>2
  <2>. QED
    BY <2>1, <2>2, DelayedChanges DEF TypesInv
<1>6. CASE Given(c)' = Given(c)
  BY <1>4, <1>5, <1>6
<1>7. ASSUME NEW x, Given(c)' = Append(Given(c), x),
             \A p \in DOMAIN Given(c) : Stored(Given(c)[p]) = Stored(x) => Given(c)[p] < x,
             Stored(x) => \A row \in delayed'[c].todo : x < row.message
      PROVE  \A q \in DOMAIN Given(c)' :
                 /\ \A p \in DOMAIN Given(c)' :
                        p < q /\ Stored(Given(c)'[p]) = Stored(Given(c)'[q])
                            => Given(c)'[p] < Given(c)'[q]
                 /\ Stored(Given(c)'[q]) =>
                        \A row \in delayed'[c].todo : Given(c)'[q] < row.message
  <2>. DEFINE last == Len(Given(c)) + 1
  <2>1. /\ DOMAIN Given(c)' = DOMAIN Given(c) \cup {last} /\ Given(c)'[last] = x
        /\ \A p \in DOMAIN Given(c) : Given(c)'[p] = Given(c)[p] /\ ~(last < p)
        /\ ~(last < last)
    BY <1>2, <1>7, AppendElements
  <2>. HIDE DEF last, Stored
  <2>2. ASSUME NEW q \in DOMAIN Given(c)', NEW p \in DOMAIN Given(c)', p < q,
               Stored(Given(c)'[p]) = Stored(Given(c)'[q])
        PROVE  Given(c)'[p] < Given(c)'[q]
    <3>1. CASE q \in DOMAIN Given(c)
      <4>1. p \in DOMAIN Given(c)
        BY <2>1, <2>2, <3>1
      <4>. QED
        BY <1>4, <2>1, <2>2, <3>1, <4>1
    <3>2. CASE q = last
      <4>1. p \in DOMAIN Given(c)
        BY <2>1, <2>2, <3>2
      <4>. QED
        BY <1>7, <2>1, <2>2, <3>2, <4>1
    <3>. QED
      BY <2>1, <3>1, <3>2
  <2>3. \A q \in DOMAIN Given(c)' : Stored(Given(c)'[q]) =>
            \A row \in delayed'[c].todo : Given(c)'[q] < row.message
    BY <1>5, <1>7, <2>1
  <2>. QED
    BY <2>2, <2>3
<1>8. ASSUME NEW d \in Conns, NEW k \in Keys, RelayMessage(d, k), Recipient(k) = c
      PROVE  /\ \A p \in DOMAIN Given(c) : Given(c)[p] < Len(sent) + 1
             /\ ~Stored(Len(sent) + 1)
  <2>1. sent \in Seq([from : Conns, to : Keys, via : Conns \cup {NoClient}])
        /\ sent' = Append(sent, [from |-> d, to |-> k, via |-> c])
    BY <1>8 DEF RelayMessage, TypesInv, RelayTypeOK
  <2>2. sent'[Len(sent) + 1].via = c /\ Len(sent) \in Nat
    BY <2>1
  <2>. QED
    BY <1>3, <2>2, RegistryAssumption
<1>9. ASSUME NEW row, TakesRow(c, row)
      PROVE  /\ \A p \in DOMAIN Given(c) : Stored(Given(c)[p]) => Given(c)[p] < row.message
             /\ Stored(row.message)
             /\ \A other \in delayed'[c].todo : row.message < other.message
  BY <1>1, <1>3, <1>9, TakenRow
<1>. HIDE DEF Stored
<1>. QED
  BY <1>1, <1>6, <1>7, <1>8, <1>9, GivenChanges

LEMMA WritesHeadStep ==
    ASSUME TypesInv, WritesHead, RelayNext, ~crossed, ~crossed'
    PROVE  WritesHead'
<1>. SUFFICES ASSUME NEW c \in Conns, sock'[c].pc = "writing"
              PROVE  /\ sock'[c].target = c
                     /\ queue'[c] # <<>> /\ sock'[c].message = Head(queue'[c])
  BY DEF WritesHead
<1>1. /\ queue \in [Conns -> Seq(Messages)] /\ sock \in [Conns -> SocketStates] /\ RelayTypeOK
  BY DEF TypesInv, RelayTypeOK
<1>2. \A pc : At(pc).pc = pc
  BY DEF At
<1>3. CASE SocketWakes(c)
  <2>. DEFINE o == get_client(indices[c].index)
              idle == IF o = NoClient THEN TRUE ELSE queue[o] = <<>>
  <2>1. CASE idle
    <3>1. AwaitSignal(c)
      BY <1>3, <2>1 DEF SocketWakes
    <3>. QED
      BY <1>1, <1>2, <3>1 DEF AwaitSignal
  <2>2. CASE ~idle
    <3>1. /\ sock' = [sock EXCEPT ![c] = [pc |-> "writing", target |-> o, message |-> Head(queue[o])]]
          /\ crossed' = (crossed \/ o # c) /\ queue' = queue /\ queue[o] # <<>>
      BY <1>3, <2>2 DEF SocketWakes
    <3>2. o = c
      BY <3>1
    <3>. QED
      BY <1>1, <3>1, <3>2
  <2>. QED
    BY <2>1, <2>2
<1>4. CASE SocketWrites(c)
  <2>1. /\ sock[c].pc = "writing" /\ sock[c].target = c /\ queue[c] # <<>>
    BY <1>4 DEF SocketWrites, WritesHead
  <2>2. queue' = [queue EXCEPT ![c] = Tail(queue[c])]
    BY <1>4, <2>1 DEF SocketWrites
  <2>3. CASE Tail(queue[c]) = <<>>
    <3>1. AwaitSignal(c)
      BY <1>4, <2>1, <2>3 DEF SocketWrites
    <3>. QED
      BY <1>1, <1>2, <3>1 DEF AwaitSignal
  <2>4. CASE Tail(queue[c]) # <<>>
    <3>1. sock' = [sock EXCEPT ![c].message = Head(Tail(queue[c]))]
      BY <1>4, <2>1, <2>4 DEF SocketWrites
    <3>2. sock[c] \in [pc : {"writing"}, target : Conns, message : Messages]
      BY <1>1, <2>1 DEF SocketStates
    <3>. QED
      BY <1>1, <2>1, <2>2, <2>4, <3>1, <3>2
  <2>. QED
    BY <2>3, <2>4
<1>5. CASE sock'[c] = sock[c]
  <2>1. sock[c].target = c /\ queue[c] # <<>> /\ sock[c].message = Head(queue[c])
    BY <1>5 DEF WritesHead
  <2>2. ASSUME NEW o \in Conns, NEW m, add_message(o, m)
        PROVE  queue'[c] # <<>> /\ Head(queue'[c]) = Head(queue[c])
    <3>1. queue'[c] = queue[c] \/ queue'[c] = Append(queue[c], m)
      BY <1>1, <2>2 DEF add_message
    <3>2. queue[c] \in Seq(Messages)
      BY <1>1
    <3>. QED
      BY <2>1, <3>1, <3>2
  <2>3. ASSUME NEW d \in Conns, NEW k \in Keys, RelayMessage(d, k)
        PROVE  queue'[c] # <<>> /\ Head(queue'[c]) = Head(queue[c])
    <3>1. Recipient(k) \in Conns
      BY <2>3, RecipientType DEF RelayMessage
    <3>. QED
      BY <2>2, <2>3, <3>1 DEF RelayMessage, add_message_to_queue
  <2>4. ASSUME NEW d \in Conns, SendDelayed(d)
        PROVE  queue'[c] # <<>> /\ Head(queue'[c]) = Head(queue[c])
    BY <2>2, <2>4, SendDelayedTakes
  <2>5. ASSUME NEW d \in Conns, SocketWrites(d), d # c
        PROVE  queue'[c] = queue[c]
    BY <1>1, <2>5 DEF SocketWrites, WritesHead
  <2>. QED
    BY <1>4, <1>5, <2>1, <2>3, <2>4, <2>5, QueueChanges
<1>. QED
  BY <1>1, <1>3, <1>4, <1>5, WriterChanges

-----------------------------------------------------------------------------
(* Rows and the ids of those that were given                                *)

\* Rows are only added with a new id, and removed by a DELETE.
LEMMA RowChanges ==
    ASSUME TypesInv, RelayNext
    PROVE  /\ last_id \in Nat /\ last_id' \in Nat /\ last_id <= last_id'
           /\ \A row \in stored' : row \in stored \/ row.id = last_id + 1
           /\ \A row \in stored : \/ row \in stored'
                                  \/ (DeleteMessages /\ row.id \in Head(statements).args)
<1>1. last_id \in Nat
  BY DEF TypesInv, RelayTypeOK
<1>2. CASE stored' = stored /\ last_id' = last_id
  BY <1>1, <1>2
<1>3. CASE InsertMessage
  BY <1>1, <1>3 DEF InsertMessage, Rows
<1>4. CASE DeleteMessages
  BY <1>1, <1>4 DEF DeleteMessages
<1>. QED
  BY <1>2, <1>3, <1>4, ZenonT(40)
  DEF RelayNext, PeerStep, ConnectionStep, SocketStep, DelayedStep, DatabaseStep,
      AcceptConnection, PeerCloses, LoginWithKey, LoginAborted, RelayMessage, StoreMessage,
      SelectExistingUser, RegisterClient, End, SocketWakes, SocketWrites, SocketFails,
      ChannelDestroyed, SendDelayed, FinishDelayed, InsertUser, SelectUser, SelectMessages,
      StatementFails, Submit, add_message_to_db, database

\* After the step, the row with an id was given to c, if it is still there.
NowGiven(c, id) ==
    /\ id \in 0 .. last_id'
    /\ \A row \in stored' : row.id = id => /\ row.key = key'[c]
                                             /\ row.message \in ToSet(inbox'[c] \o queue'[c])

LEMMA GivenRowStays ==
    ASSUME TypesInv, Plumbing, WritesHead, RelayNext, NEW c \in Conns,
           delayed[c] # Delayed("none"), NEW id, GivenRow(c, id)
    PROVE  NowGiven(c, id)
<1>1. key'[c] = key[c] /\ ToSet(Given(c)) \subseteq ToSet(Given(c)')
  BY SessionStays, GivenGrows
<1>2. id \in 0 .. last_id'
  BY RowChanges DEF GivenRow
<1>3. ASSUME NEW row \in stored', row.id = id
      PROVE  row.key = key[c] /\ row.message \in ToSet(Given(c))
  <2>1. row \in stored
    BY <1>3, RowChanges DEF GivenRow
  <2>. QED
    BY <1>3, <2>1 DEF GivenRow
<1>. QED
  BY <1>1, <1>2, <1>3 DEF NowGiven, GivenRow, Given, ToSet

\* A row that is taken is given.
LEMMA TakenIsGiven ==
    ASSUME TypesInv, Plumbing, Tables, Giving, RelayNext, NEW c \in Conns,
           NEW row, TakesRow(c, row), Given(c)' = Append(Given(c), row.message)
    PROVE  NowGiven(c, row.id)
<1>1. /\ row.id \in 1 .. last_id /\ row.key = key[c] /\ key'[c] = key[c]
      /\ \A other \in stored : other.id = row.id => other = row
  BY TakenRow DEF Giving
<1>2. row.id \in 0 .. last_id'
  BY <1>1, RowChanges
<1>3. ASSUME NEW other \in stored', other.id = row.id PROVE other = row
  BY <1>1, <1>3, RowChanges
<1>4. row.message \in ToSet(Given(c)')
  <2>1. Given(c) \in Seq(Messages)
    BY GivenType
  <2>. QED
    BY <2>1, AppendElements DEF ToSet
<1>. QED
  BY <1>1, <1>2, <1>3, <1>4 DEF NowGiven, Given, ToSet

LEMMA HandedStep ==
    ASSUME TypesInv, Plumbing, Tables, Giving, RelayNext, NEW c \in Conns
    PROVE  /\ \A id \in delayed'[c].handed : NowGiven(c, id)
           /\ delayed'[c].pc = "sending" => NowGiven(c, delayed'[c].row)
<1>. DEFINE Recorded(d) == /\ \A id \in d.handed : NowGiven(c, id)
                           /\ d.pc = "sending" => NowGiven(c, d.row)
<1>1. /\ \A id \in delayed[c].handed : GivenRow(c, id)
      /\ delayed[c].pc = "sending" => GivenRow(c, delayed[c].row)
      /\ WritesHead
  BY DEF Giving, HandedGiven
<1>2. Recorded(delayed[c])
  <2>1. ASSUME NEW id, id \in delayed[c].handed \/ (delayed[c].pc = "sending" /\ id = delayed[c].row)
        PROVE  NowGiven(c, id)
    <3>1. GivenRow(c, id) /\ delayed[c] # Delayed("none")
      BY <1>1, <2>1, NoneIsNone
    <3>. QED
      BY <1>1, <3>1, GivenRowStays DEF Giving
  <2>. QED
    BY <2>1
<1>3. \A pc : Delayed(pc).pc = pc /\ Delayed(pc).handed = {}
  BY DEF Delayed, Batch
<1>4. ASSUME NEW d, d.handed = delayed[c].handed, d.pc # "sending" PROVE Recorded(d)
  BY <1>2, <1>4
<1>5. ASSUME waiters[c] # <<>>, Head(waiters[c]) = DelayedSender
      PROVE  Recorded(Handed(delayed[c]))
  <2>1. delayed[c].pc = "sending"
    <3>1. waiters[c] \in Seq(Senders)
      BY DEF TypesInv, RelayTypeOK
    <3>2. 1 \in DOMAIN waiters[c] /\ waiters[c][1] = DelayedSender
      BY <1>5, <3>1
    <3>. QED
      BY <3>2 DEF Plumbing, SuspendedOnce
  <2>2. NowGiven(c, delayed[c].row)
    BY <1>2, <2>1
  <2>3. /\ Handed(delayed[c]).pc = "ready"
        /\ Handed(delayed[c]).handed = delayed[c].handed \cup {delayed[c].row}
    BY DEF Handed, Batch
  <2>. QED
    BY <1>2, <2>2, <2>3
<1>6. LeftLoop(delayed[c]).handed = delayed[c].handed /\ LeftLoop(delayed[c]).pc = "ready"
  BY DEF LeftLoop, Batch
<1>7. ASSUME SendDelayed(c) PROVE Recorded(delayed'[c])
  <2>1. PICK row \in delayed[c].todo :
            /\ TakesRow(c, row) /\ row \in Row /\ add_message(c, row.message)
            /\ delayed'[c].pc \in {"ready", "sending"}
    BY <1>7, SendDelayedTakes
  <2>2. Given(c)' = Append(Given(c), row.message)
    BY <1>7, <2>1, GivenByAdding DEF Row, SendDelayed
  <2>3. NowGiven(c, row.id)
    BY <2>1, <2>2, TakenIsGiven
  <2>. QED
    BY <1>2, <2>1, <2>3 DEF TakesRow
<1>8. ASSUME FinishDelayed(c) PROVE Recorded(delayed'[c])
  <2>1. delayed \in [Conns -> DelayedStates]
    BY DEF TypesInv, RelayTypeOK
  <2>2. delayed'[c] = Delayed("done") \/ delayed'[c] = Batch("deleting", delayed[c].row, {}, delayed[c].handed)
    BY <1>8, <2>1 DEF FinishDelayed
  <2>3. Batch("deleting", delayed[c].row, {}, delayed[c].handed).handed = delayed[c].handed
        /\ Batch("deleting", delayed[c].row, {}, delayed[c].handed).pc = "deleting"
    BY DEF Batch
  <2>. QED
    BY <1>3, <1>4, <2>2, <2>3
<1>9. ASSUME SelectMessages /\ Head(statements).conn = c PROVE Recorded(delayed'[c])
  <2>1. delayed \in [Conns -> DelayedStates]
    BY DEF TypesInv, RelayTypeOK
  <2>2. PICK rows : delayed'[c] = Batch("ready", 0, rows, {})
    BY <1>9, <2>1 DEF SelectMessages
  <2>. QED
    BY <2>2 DEF Batch
<1>10. ASSUME DeleteMessages /\ Head(statements).conn = c PROVE Recorded(delayed'[c])
  <2>1. delayed \in [Conns -> DelayedStates]
    BY DEF TypesInv, RelayTypeOK
  <2>2. delayed'[c] = Delayed("done")
    BY <1>10, <2>1 DEF DeleteMessages
  <2>. QED
    BY <1>3, <2>2
<1>11. Recorded(Delayed("query")) /\ Recorded(LeftLoop(delayed[c]))
  BY <1>2, <1>3, <1>6
<1>. HIDE DEF Recorded
<1>12. Recorded(delayed'[c])
  <2>1. CASE delayed'[c] \in {delayed[c], Delayed("query"), LeftLoop(delayed[c])}
    BY <1>2, <1>11, <2>1
  <2>2. CASE /\ waiters[c] # <<>> /\ Head(waiters[c]) = DelayedSender
             /\ delayed'[c] = Handed(delayed[c])
    BY <1>5, <2>2
  <2>. QED
    BY <1>7, <1>8, <1>9, <1>10, <2>1, <2>2, DelayedEffects
<1>. QED
  BY <1>12 DEF Recorded

LEMMA HandedGivenStep ==
    ASSUME TypesInv, Plumbing, Tables, Giving, RelayNext
    PROVE  HandedGiven'
<1>. DEFINE Good(s) == s.op = "delete" => \A id \in s.args : NowGiven(s.conn, id)
<1>1. statements \in Seq(Statements) /\ delayed \in [Conns -> DelayedStates]
  BY DEF TypesInv, RelayTypeOK
<1>2. WritesHead
  BY DEF Giving
<1>3. \A p \in DOMAIN statements : Good(statements[p])
  <2>. SUFFICES ASSUME NEW p \in DOMAIN statements, statements[p].op = "delete",
                       NEW id \in statements[p].args
                PROVE  NowGiven(statements[p].conn, id)
    OBVIOUS
  <2>1. PICK c \in Conns : c = statements[p].conn
    BY <1>1 DEF Statements
  <2>2. delayed[c].pc = "deleting"
    BY <2>1 DEF Plumbing, Requested, GoodRequest
  <2>3. GivenRow(c, id)
    BY <2>1 DEF Giving, HandedGiven
  <2>4. NowGiven(c, id)
    BY <1>2, <2>2, <2>3, GivenRowStays, NoneIsNone
  <2>. QED
    BY <2>1, <2>4
<1>4. ASSUME NEW s, statements' = Append(statements, s), Good(s)
      PROVE  \A p \in DOMAIN statements' : Good(statements'[p])
  <2>1. \A p \in DOMAIN statements' : statements'[p] = s \/ (p \in DOMAIN statements
                                                           /\ statements'[p] = statements[p])
    BY <1>1, <1>4, AppendElements
  <2>. QED
    BY <1>3, <1>4, <2>1
<1>5. ASSUME NEW op, NEW c, NEW k, NEW args, op # "delete", Submit(Statement(op, c, k, args))
      PROVE  \A p \in DOMAIN statements' : Good(statements'[p])
  <2>1. PICK s : s = Statement(op, c, k, args)
    OBVIOUS
  <2>2. s.op # "delete" /\ statements' = Append(statements, s)
    BY <1>5, <2>1 DEF Statement, Submit
  <2>3. Good(s)
    BY <2>2
  <2>. QED
    BY <1>4, <2>2, <2>3
<1>6. ASSUME NEW c \in Conns, FinishDelayed(c), statements' # statements
      PROVE  \A p \in DOMAIN statements' : Good(statements'[p])
  <2>1. PICK s : s = Statement("delete", c, NoKey, delayed[c].handed)
    OBVIOUS
  <2>2. /\ statements' = Append(statements, s)
        /\ delayed'[c] = Batch("deleting", delayed[c].row, {}, delayed[c].handed)
    BY <1>1, <1>6, <2>1 DEF FinishDelayed, Submit, database
  <2>3. s.conn = c /\ s.args = delayed'[c].handed
    BY <2>1, <2>2 DEF Statement, Batch
  <2>4. Good(s)
    BY <2>3, HandedStep
  <2>. QED
    BY <1>4, <2>2, <2>4
<1>. HIDE DEF Good
<1>7. \A p \in DOMAIN statements' : Good(statements'[p])
  <2>1. CASE statements' = statements
    BY <1>3, <2>1
  <2>2. CASE statements # <<>> /\ statements' = Tail(statements)
    <3>1. \A p \in DOMAIN statements' : p + 1 \in DOMAIN statements
                                        /\ statements'[p] = statements[p + 1]
      BY <1>1, <2>2
    <3>. QED
      BY <1>3, <3>1
  <2>3. ASSUME NEW c \in Conns, NEW k \in Keys, LoginWithKey(c, k) \/ StoreMessage(c, k)
        PROVE  \A p \in DOMAIN statements' : Good(statements'[p])
    BY <1>5, <2>3 DEF LoginWithKey, StoreMessage, add_message_to_db
  <2>4. ASSUME NEW c \in Conns, SelectExistingUser(c) \/ RegisterClient(c)
        PROVE  \A p \in DOMAIN statements' : Good(statements'[p])
    BY <1>5, <2>4 DEF SelectExistingUser, RegisterClient
  <2>. QED
    BY <1>6, <2>1, <2>2, <2>3, <2>4, StatementChanges
<1>8. \A p \in DOMAIN statements' : statements'[p].op = "delete" =>
          \A id \in statements'[p].args : NowGiven(statements'[p].conn, id)
  BY <1>7 DEF Good
<1>. QED
  BY <1>8, HandedStep DEF HandedGiven, GivenRow, NowGiven, Given

-----------------------------------------------------------------------------
(* Every message is accounted for                                           *)

\* Where a message is: with the client it was relayed to, in an INSERT, in a row, or
\* with a client that logged in with its key.
ToBeInserted(m) ==
    \E p \in DOMAIN statements : statements[p].op = "insert" /\ m \in statements[p].args
InRow(m) == \E row \in stored : row.message = m
GivenTo(c, m) == m \in ToSet(Given(c))
SafeStored(m) ==
    \/ ToBeInserted(m) \/ InRow(m)
    \/ \E c \in Conns : key[c] = sent[m].to /\ GivenTo(c, m)
Safe(m) == IF StoredMessage(m) THEN SafeStored(m) ELSE GivenTo(sent[m].via, m)

LEMMA AccountedIsSafe == ~crossed => (Accounted <=> \A m \in DOMAIN sent : Safe(m))
BY DEF Accounted, Safe, SafeStored, StoredMessage, ToBeInserted, InRow, GivenTo

\* Only a statement that is executed leaves the queue.
LEMMA OnlyExecutedLeaves ==
    ASSUME TypesInv, RelayNext, statements # <<>>, statements' = Tail(statements)
    PROVE  /\ InsertUser \/ SelectUser \/ InsertMessage \/ SelectMessages \/ DeleteMessages
           /\ Head(statements).op = "insert" => InsertMessage
           /\ Head(statements).op = "select" => SelectMessages
<1>1. statements \in Seq(Statements)
  BY DEF TypesInv, RelayTypeOK
<1>2. Len(statements') = Len(statements) - 1 /\ Len(statements) \in Nat
  BY <1>1
<1>3. ASSUME statements' = statements PROVE FALSE
  <2>1. Len(statements') = Len(statements)
    BY <1>3
  <2>. QED
    BY <1>2, <2>1
<1>4. ASSUME NEW s, statements' = Append(statements, s) PROVE FALSE
  BY <1>1, <1>2, <1>4
<1>5. ASSUME NEW s, Submit(s) PROVE FALSE
  BY <1>4, <1>5 DEF Submit
<1>6. ~(\E c \in Conns : PeerStep(c) \/ ConnectionStep(c))
  BY <1>3, <1>5
  DEF PeerStep, ConnectionStep, AcceptConnection, PeerCloses, LoginWithKey, LoginAborted,
      RelayMessage, StoreMessage, SelectExistingUser, RegisterClient, End,
      add_message_to_db, database
<1>7. ~(\E c \in Conns : SocketStep(c) \/ DelayedStep(c))
  BY <1>3, <1>5
  DEF SocketStep, DelayedStep, SocketWakes, SocketWrites, SocketFails, ChannelDestroyed,
      SendDelayed, FinishDelayed, database
<1>8. InsertUser \/ SelectUser \/ InsertMessage \/ SelectMessages \/ DeleteMessages
  BY <1>3, <1>6, <1>7 DEF RelayNext, DatabaseStep, StatementFails
<1>9. /\ InsertUser => Head(statements).op = "insert_user"
      /\ SelectUser => Head(statements).op = "select_user"
      /\ InsertMessage => Head(statements).op = "insert"
      /\ SelectMessages => Head(statements).op = "select"
      /\ DeleteMessages => Head(statements).op = "delete"
  BY DEF InsertUser, SelectUser, InsertMessage, SelectMessages, DeleteMessages, Executes
<1>. QED
  BY <1>8, <1>9

\* A message that is stored stays accounted for: its INSERT becomes a row, and its row
\* is only deleted when it was given to a client with its key.
LEMMA StoredStaysSafe ==
    ASSUME TypesInv, Plumbing, Tables, Giving, RelayNext,
           NEW m \in DOMAIN sent, StoredMessage(m), SafeStored(m)
    PROVE  \/ ToBeInserted(m)' \/ InRow(m)'
           \/ \E c \in Conns : key'[c] = sent[m].to /\ GivenTo(c, m)'
<1>1. /\ statements \in Seq(Statements)
      /\ WritesHead /\ GivenItsOwn /\ HandedGiven
  BY DEF TypesInv, RelayTypeOK, Giving
<1>2. ASSUME NEW c \in Conns, key[c] = sent[m].to, GivenTo(c, m)
      PROVE  key'[c] = sent[m].to /\ GivenTo(c, m)'
  <2>1. PICK p \in DOMAIN Given(c) : Given(c)[p] = m
    BY <1>2 DEF GivenTo, ToSet
  <2>2. key'[c] = key[c]
    BY <1>1, <2>1, OwnStays
  <2>3. m \in ToSet(Given(c)')
    BY <1>1, <1>2, GivenGrows DEF GivenTo
  <2>. QED
    BY <1>2, <2>2, <2>3 DEF GivenTo, ToSet
<1>3. CASE ToBeInserted(m)
  <2>1. PICK p \in DOMAIN statements : statements[p].op = "insert" /\ m \in statements[p].args
    BY <1>3 DEF ToBeInserted
  <2>2. ASSUME NEW s, statements' = Append(statements, s) PROVE ToBeInserted(m)'
    <3>1. p \in DOMAIN statements' /\ statements'[p] = statements[p]
      BY <1>1, <2>2, AppendElements
    <3>. QED
      BY <2>1, <3>1 DEF ToBeInserted
  <2>3. CASE statements # <<>> /\ statements' = Tail(statements) /\ p = 1
    <3>1. Head(statements) = statements[p]
      BY <1>1, <2>3
    <3>2. InsertMessage
      BY <2>1, <2>3, <3>1, OnlyExecutedLeaves
    <3>3. [id |-> last_id + 1, key |-> Head(statements).key, message |-> m]
              \in Rows(Head(statements))
      BY <2>1, <3>1 DEF Rows
    <3>4. stored' = stored \cup Rows(Head(statements))
      BY <3>2 DEF InsertMessage
    <3>. QED
      BY <3>3, <3>4 DEF InRow
  <2>4. CASE statements # <<>> /\ statements' = Tail(statements) /\ p # 1
    <3>1. p - 1 \in DOMAIN statements' /\ statements'[p - 1] = statements[p]
      BY <1>1, <2>4
    <3>. QED
      BY <2>1, <3>1 DEF ToBeInserted
  <2>5. CASE statements' = statements
    BY <2>1, <2>5 DEF ToBeInserted
  <2>. QED
    BY <2>2, <2>3, <2>4, <2>5, StatementEffects
<1>4. CASE InRow(m)
  <2>1. PICK row \in stored : row.message = m
    BY <1>4 DEF InRow
  <2>2. CASE row \in stored'
    BY <2>1, <2>2 DEF InRow
  <2>3. CASE DeleteMessages /\ row.id \in Head(statements).args
    <3>1. /\ statements # <<>> /\ Head(statements) = statements[1]
          /\ 1 \in DOMAIN statements /\ statements[1].op = "delete"
      BY <1>1, <2>3 DEF DeleteMessages, Executes
    <3>2. PICK c \in Conns : c = statements[1].conn
      BY <1>1, <3>1 DEF Statements
    <3>3. GivenRow(c, row.id)
      BY <1>1, <2>3, <3>1, <3>2 DEF HandedGiven
    <3>4. row.key = key[c] /\ GivenTo(c, m)
      BY <2>1, <3>3 DEF GivenRow, GivenTo
    <3>5. sent[m].to = row.key
      BY <2>1 DEF Tables, RowsOrdered, AllRows, StoredFor
    <3>. QED
      BY <1>2, <3>4, <3>5
  <2>. QED
    BY <2>2, <2>3, RowChanges
<1>. QED
  BY <1>2, <1>3, <1>4 DEF SafeStored

\* A message that is received is relayed or stored.
LEMMA Received ==
    ASSUME TypesInv, RelayNext, NEW m \in DOMAIN sent', m \notin DOMAIN sent
    PROVE  /\ m = Len(sent) + 1
           /\ \E c \in Conns, k \in Keys : RelayMessage(c, k) \/ StoreMessage(c, k)
<1>1. sent \in Seq([from : Conns, to : Keys, via : Conns \cup {NoClient}])
  BY DEF TypesInv, RelayTypeOK
<1>2. sent' = sent \/ \E c \in Conns, k \in Keys : RelayMessage(c, k) \/ StoreMessage(c, k)
  BY RelayAssumption
  DEF RelayNext, PeerStep, ConnectionStep, SocketStep, DelayedStep, DatabaseStep,
      AcceptConnection, PeerCloses, LoginWithKey, LoginAborted,
      SelectExistingUser, RegisterClient, End, SocketWakes, SocketWrites,
      SocketFails, ChannelDestroyed, SendDelayed, FinishDelayed, InsertUser, SelectUser,
      InsertMessage, SelectMessages, DeleteMessages, StatementFails, Executes
<1>3. PICK c \in Conns, k \in Keys : RelayMessage(c, k) \/ StoreMessage(c, k)
  BY <1>2
<1>4. \E x : sent' = Append(sent, x)
  BY <1>3 DEF RelayMessage, StoreMessage
<1>. QED
  BY <1>1, <1>3, <1>4

LEMMA ReceivedIsSafe ==
    ASSUME TypesInv, WritesHead, RelayNext, NEW m \in DOMAIN sent', m \notin DOMAIN sent
    PROVE  Safe(m)'
<1>1. /\ sent \in Seq([from : Conns, to : Keys, via : Conns \cup {NoClient}])
      /\ statements \in Seq(Statements)
  BY DEF TypesInv, RelayTypeOK
<1>2. m = Len(sent) + 1
  BY Received
<1>3. ASSUME NEW c \in Conns, NEW k \in Keys, RelayMessage(c, k) PROVE Safe(m)'
  <2>1. PICK o \in Conns : o = Recipient(k)
    BY <1>3, RecipientType DEF RelayMessage
  <2>2. sent' = Append(sent, [from |-> c, to |-> k, via |-> o])
    BY <1>3, <2>1 DEF RelayMessage
  <2>3. sent'[m].via = o /\ o # NoClient
    BY <1>1, <1>2, <2>2, RegistryAssumption
  <2>4. m \in Messages /\ add_message(o, m) /\ inbox' = inbox
    BY <1>2, <1>3, <2>1, RelayAssumption
    DEF RelayMessage, add_message_to_queue, Messages, TypesInv, RelayTypeOK
  <2>5. Given(o)' = Append(Given(o), m) /\ Given(o) \in Seq(Messages)
    BY <2>4, GivenByAdding, GivenType
  <2>6. m \in ToSet(Given(o)')
    BY <2>5, AppendElements DEF ToSet
  <2>. QED
    BY <2>3, <2>6 DEF Safe, StoredMessage, GivenTo, ToSet, Given
<1>4. ASSUME NEW c \in Conns, NEW k \in Keys, StoreMessage(c, k) PROVE Safe(m)'
  <2>1. sent' = Append(sent, [from |-> c, to |-> k, via |-> NoClient])
    BY <1>4 DEF StoreMessage
  <2>2. sent'[m].via = NoClient
    BY <1>1, <1>2, <2>1
  <2>3. PICK user, s : s = Statement("insert", NoClient, user, {m}) /\ Submit(s)
    BY <1>2, <1>4 DEF StoreMessage, add_message_to_db
  <2>4. statements' = Append(statements, s) /\ s.op = "insert" /\ s.args = {m}
    BY <2>3 DEF Submit, Statement
  <2>5. \E p \in DOMAIN statements' : statements'[p] = s
    BY <1>1, <2>4, AppendElements
  <2>6. ToBeInserted(m)'
    BY <2>4, <2>5 DEF ToBeInserted
  <2>. QED
    BY <2>2, <2>6 DEF Safe, StoredMessage, SafeStored
<1>. QED
  BY <1>3, <1>4, Received

LEMMA AccountedStep ==
    ASSUME TypesInv, Plumbing, Tables, Giving, ~crossed, RelayNext, ~crossed'
    PROVE  Accounted'
<1>. SUFFICES ASSUME NEW m \in DOMAIN sent' PROVE Safe(m)'
  BY AccountedIsSafe DEF Accounted, Safe, SafeStored, StoredMessage, ToBeInserted, InRow, GivenTo
<1>1. WritesHead /\ \A n \in DOMAIN sent : Safe(n)
  BY AccountedIsSafe DEF Giving
<1>2. CASE m \notin DOMAIN sent
  BY <1>1, <1>2, ReceivedIsSafe
<1>3. CASE m \in DOMAIN sent
  <2>1. /\ sent \in Seq([from : Conns, to : Keys, via : Conns \cup {NoClient}])
        /\ DOMAIN sent = 1 .. Len(sent)
    BY DEF TypesInv, RelayTypeOK
  <2>2. sent'[m] = sent[m] /\ sent[m].via \in Conns \cup {NoClient}
    <3>1. sent[m] \in [from : Conns, to : Keys, via : Conns \cup {NoClient}]
      BY <1>3, <2>1, ElementOfSeq
    <3>2. sent'[m] = sent[m]
      BY <1>3, <2>1, SentGrows
    <3>. QED
      BY <3>1, <3>2
  <2>3. CASE StoredMessage(m)
    <3>1. SafeStored(m)
      BY <1>1, <1>3, <2>3 DEF Safe
    <3>2. \/ ToBeInserted(m)' \/ InRow(m)'
          \/ \E c \in Conns : key'[c] = sent[m].to /\ GivenTo(c, m)'
      BY <1>3, <2>3, <3>1, StoredStaysSafe
    <3>3. sent'[m].via = NoClient /\ sent'[m].to = sent[m].to
      BY <2>2, <2>3 DEF StoredMessage
    <3>. QED
      BY <3>2, <3>3 DEF Safe, SafeStored, StoredMessage
  <2>4. CASE ~StoredMessage(m)
    <3>1. PICK o \in Conns : o = sent[m].via
      BY <2>2, <2>4 DEF StoredMessage
    <3>2. m \in ToSet(Given(o))
      BY <1>1, <1>3, <2>4, <3>1 DEF Safe, GivenTo
    <3>3. m \in ToSet(Given(o)')
      BY <1>1, <3>2, GivenGrows
    <3>4. sent'[m].via = o /\ o # NoClient
      BY <2>2, <3>1, RegistryAssumption
    <3>. QED
      BY <3>3, <3>4 DEF Safe, StoredMessage, GivenTo, ToSet, Given
  <2>. QED
    BY <2>3, <2>4
<1>. QED
  BY <1>2, <1>3

-----------------------------------------------------------------------------
(* The inductive invariant                                                  *)

LEMMA GivingStep ==
    TypesInv /\ Plumbing /\ Tables /\ GivingInv /\ [RelayNext]_relayVars => GivingInv'
<1>1. ASSUME TypesInv, Plumbing, Tables, GivingInv, RelayNext PROVE GivingInv'
  <2>. SUFFICES ASSUME ~crossed' PROVE Giving'
    BY DEF GivingInv
  <2>1. ~crossed
    BY <1>1, CrossedStays DEF TypesInv, RelayTypeOK
  <2>2. Giving /\ WritesHead
    BY <1>1, <2>1 DEF GivingInv, Giving
  <2>3. GivenItsOwn' /\ GivenInOrder'
    BY <1>1, <2>2, GivenItsOwnStep, GivenInOrderStep
  <2>4. WritesHead' /\ HandedGiven'
    BY <1>1, <2>1, <2>2, WritesHeadStep, HandedGivenStep
  <2>5. Accounted'
    BY <1>1, <2>1, <2>2, AccountedStep
  <2>. QED
    BY <2>3, <2>4, <2>5 DEF Giving
<1>2. ASSUME UNCHANGED relayVars, GivingInv PROVE GivingInv'
  <2>1. /\ stored' = stored /\ delayed' = delayed /\ statements' = statements
        /\ sent' = sent /\ last_id' = last_id /\ key' = key /\ crossed' = crossed
        /\ queue' = queue /\ inbox' = inbox /\ sock' = sock
    BY <1>2 DEF relayVars, registryVars, vars, database, delivery
  <2>2. \A c \in Conns : Given(c)' = Given(c)
    BY <2>1 DEF Given
  <2>3. GivenItsOwn => GivenItsOwn'
    BY <2>1, <2>2 DEF GivenItsOwn, StoredMessage
  <2>4. GivenInOrder => GivenInOrder'
    BY <2>1, <2>2 DEF GivenInOrder, StoredMessage
  <2>5. WritesHead => WritesHead'
    BY <2>1 DEF WritesHead
  <2>6. HandedGiven => HandedGiven'
    BY <2>1 DEF HandedGiven, GivenRow, Given
  <2>7. Accounted => Accounted'
    BY <2>1 DEF Accounted, Given
  <2>. QED
    BY <1>2, <2>1, <2>3, <2>4, <2>5, <2>6, <2>7 DEF GivingInv, Giving
<1>. QED
  BY <1>1, <1>2

LEMMA InitGiving == RelayInit => GivingInv
<1>. SUFFICES ASSUME RelayInit PROVE Giving
  BY DEF GivingInv
<1>1. \A c \in Conns : /\ inbox[c] = <<>> /\ queue[c] = <<>>
                       /\ delayed[c].handed = {} /\ delayed[c].pc = "none" /\ sock[c].pc = "none"
  BY DEF RelayInit, Delayed, Batch, At
<1>2. \A c \in Conns : DOMAIN Given(c) = {}
  <2>1. <<>> \o <<>> = <<>>
    OBVIOUS
  <2>2. \A c \in Conns : Given(c) = <<>>
    BY <1>1, <2>1 DEF Given
  <2>. QED
    BY <2>2
<1>3. statements = <<>> /\ sent = <<>>
  BY DEF RelayInit
<1>. QED
  BY <1>1, <1>2, <1>3
  DEF Giving, GivenItsOwn, GivenInOrder, WritesHead, HandedGiven, Accounted

LEMMA GivingHolds == RelaySpec => []GivingInv
<1>1. RelayInit => GivingInv
  BY InitGiving
<1>2. TypesInv /\ Plumbing /\ Tables /\ GivingInv /\ [RelayNext]_relayVars => GivingInv'
  BY GivingStep
<1>. QED
  BY <1>1, <1>2, TypesHold, OneRequestEach, IdsAreInOrder, PTL DEF RelaySpec

\* As long as no coroutine serves another's client, no message is lost between the
\* sender's frame and the recipient's queue: it is in an INSERT, in a row, or was given
\* to a client that logged in with its key (server.cpp:208, 247).
THEOREM EveryMessageIsAccountedFor == RelaySpec => []Accounted
<1>1. GivingInv => Accounted
  BY DEF GivingInv, Giving, Accounted
<1>. QED
  BY <1>1, GivingHolds, PTL

\* As long as no coroutine serves another's client, each message is given once, and
\* those of one sender in the order in which they were sent, whichever way they take
\* (server.cpp:80-85, 205-210).
THEOREM GivenOnceAndInOrder == RelaySpec => []OnceAndInOrder
<1>1. ASSUME TypesInv, GivingInv PROVE OnceAndInOrder
  <2>. SUFFICES ASSUME ~crossed, NEW c \in Conns,
                       NEW p \in DOMAIN Given(c), NEW q \in DOMAIN Given(c), p < q
                PROVE  LET m == Given(c)[p]
                           n == Given(c)[q]
                       IN  /\ m # n
                           /\ (sent[m].via = NoClient) = (sent[n].via = NoClient) => m < n
    BY DEF OnceAndInOrder
  <2>1. Given(c)[p] \in Nat /\ Given(c)[q] \in Nat
    <3>1. Given(c) \in Seq(Messages)
      BY <1>1, GivenType
    <3>2. Given(c)[p] \in Messages /\ Given(c)[q] \in Messages
      BY <3>1
    <3>. QED
      BY <3>2 DEF Messages
  <2>2. /\ StoredMessage(Given(c)[p]) = StoredMessage(Given(c)[q]) => Given(c)[p] < Given(c)[q]
    BY <1>1 DEF GivingInv, Giving, GivenInOrder
  <2>3. CASE Given(c)[p] = Given(c)[q]
    BY <2>1, <2>2, <2>3
  <2>. QED
    BY <2>2, <2>3 DEF StoredMessage
<1>. QED
  BY <1>1, TypesHold, GivingHolds, PTL

-----------------------------------------------------------------------------
(* The message path implements the mailbox                                  *)

\* The state that the mailbox sees, part by part.
LEMMA SameMessages ==
    ASSUME sent' = sent
    PROVE  Addressees' = Addressees /\ EverKept' = EverKept
BY DEF Addressees, EverKept

LEMMA SameGiven ==
    ASSUME \A c \in Conns : Given(c)' = Given(c)
    PROVE  GivenToAll' = GivenToAll
BY DEF GivenToAll

LEMMA SameSessions ==
    ASSUME phase' = phase
    PROVE  Sessions' = Sessions
BY DEF Sessions

LEMMA SameWritten ==
    ASSUME inbox' = inbox
    PROVE  Written' = Written
BY DEF Written

LEMMA KeptElements ==
    ASSUME NEW m
    PROVE  /\ m \in Kept <=> InRow(m) \/ ToBeInserted(m)
           /\ m \in Kept' <=> InRow(m)' \/ ToBeInserted(m)'
<1>1. m \in Kept <=> InRow(m) \/ ToBeInserted(m)
  BY DEF Kept, Inserted, InRow, ToBeInserted, ToSet
<1>2. m \in Kept' <=> InRow(m)' \/ ToBeInserted(m)'
  BY DEF Kept, Inserted, InRow, ToBeInserted, ToSet
<1>. QED
  BY <1>1, <1>2

\* What is to be inserted stays the same as long as no INSERT comes or goes.
LEMMA SameInserts ==
    ASSUME TypesInv, NEW m,
           \/ statements' = statements
           \/ \E s : statements' = Append(statements, s) /\ s.op # "insert"
           \/ /\ statements # <<>> /\ statements' = Tail(statements)
              /\ Head(statements).op # "insert"
    PROVE  ToBeInserted(m)' <=> ToBeInserted(m)
<1>1. statements \in Seq(Statements)
  BY DEF TypesInv, RelayTypeOK
<1>2. CASE statements' = statements
  BY <1>2 DEF ToBeInserted
<1>3. ASSUME NEW s, statements' = Append(statements, s), s.op # "insert"
      PROVE  ToBeInserted(m)' <=> ToBeInserted(m)
  <2>1. /\ DOMAIN statements' = DOMAIN statements \cup {Len(statements) + 1}
        /\ statements'[Len(statements) + 1] = s
        /\ \A p \in DOMAIN statements : statements'[p] = statements[p]
    BY <1>1, <1>3, AppendElements
  <2>. QED
    BY <1>3, <2>1 DEF ToBeInserted
<1>4. ASSUME statements # <<>>, statements' = Tail(statements), Head(statements).op # "insert"
      PROVE  ToBeInserted(m)' <=> ToBeInserted(m)
  <2>1. /\ \A p \in DOMAIN statements' : p + 1 \in DOMAIN statements
                                         /\ statements'[p] = statements[p + 1]
        /\ \A p \in DOMAIN statements :
               p = 1 \/ (p - 1 \in DOMAIN statements' /\ statements'[p - 1] = statements[p])
        /\ statements[1].op # "insert"
    BY <1>1, <1>4
  <2>2. ToBeInserted(m)' => ToBeInserted(m)
    BY <2>1 DEF ToBeInserted
  <2>3. ToBeInserted(m) => ToBeInserted(m)'
    BY <2>1 DEF ToBeInserted
  <2>. QED
    BY <2>2, <2>3
<1>. QED
  BY <1>2, <1>3, <1>4

LEMMA SameKept ==
    ASSUME TypesInv, stored' = stored,
           \/ statements' = statements
           \/ \E s : statements' = Append(statements, s) /\ s.op # "insert"
           \/ /\ statements # <<>> /\ statements' = Tail(statements)
              /\ Head(statements).op # "insert"
    PROVE  Kept' = Kept
<1>1. ASSUME NEW m PROVE InRow(m)' <=> InRow(m)
  BY DEF InRow
<1>2. ASSUME NEW m PROVE ToBeInserted(m)' <=> ToBeInserted(m)
  BY SameInserts
<1>. QED
  BY <1>1, <1>2, KeptElements

\* A message is added to the sequence of addressees.
LEMMA MoreMessages ==
    ASSUME TypesInv, NEW from \in Conns, NEW k \in Keys, NEW via \in Conns \cup {NoClient},
           sent' = Append(sent, [from |-> from, to |-> k, via |-> via])
    PROVE  /\ Addressees' = Append(Addressees, k) /\ Len(Addressees) = Len(sent)
           /\ EverKept' = IF via = NoClient THEN EverKept \cup {Len(sent) + 1} ELSE EverKept
<1>1. sent \in Seq([from : Conns, to : Keys, via : Conns \cup {NoClient}])
  BY DEF TypesInv, RelayTypeOK
<1>2. /\ DOMAIN sent = 1 .. Len(sent) /\ Len(sent) \in Nat
      /\ DOMAIN sent' = 1 .. Len(sent) + 1
      /\ sent'[Len(sent) + 1] = [from |-> from, to |-> k, via |-> via]
      /\ \A m \in 1 .. Len(sent) : sent'[m] = sent[m]
  BY <1>1
<1>3. ASSUME NEW m \in 1 .. Len(sent) PROVE sent[m].to \in Keys
  <2>1. sent[m] \in [from : Conns, to : Keys, via : Conns \cup {NoClient}]
    BY <1>1, ElementOfSeq
  <2>. QED
    BY <2>1
<1>4. Addressees = [m \in 1 .. Len(sent) |-> sent[m].to]
  BY <1>2 DEF Addressees
<1>5. Addressees \in Seq(Keys) /\ Len(Addressees) = Len(sent)
  BY <1>2, <1>3, <1>4
<1>6. Addressees' = [m \in 1 .. Len(sent) + 1 |-> IF m = Len(sent) + 1 THEN k ELSE sent[m].to]
  BY <1>2 DEF Addressees
<1>7. Append(Addressees, k)
          = [m \in 1 .. Len(sent) + 1 |-> IF m = Len(sent) + 1 THEN k ELSE Addressees[m]]
  <2>1. ASSUME NEW s \in Seq(Keys), NEW n \in Nat, Len(s) = n
        PROVE  Append(s, k) = [m \in 1 .. n + 1 |-> IF m = n + 1 THEN k ELSE s[m]]
    <3>1. Append(s, k) \in Seq(Keys) /\ Len(Append(s, k)) = n + 1
      BY <2>1
    <3>2. Append(s, k) = [m \in 1 .. n + 1 |-> Append(s, k)[m]]
      BY <3>1, LenProperties
    <3>3. \A m \in 1 .. n + 1 : Append(s, k)[m] = IF m = n + 1 THEN k ELSE s[m]
      BY <2>1
    <3>. QED
      BY <3>2, <3>3
  <2>. QED
    BY <1>2, <1>5, <2>1
<1>8. Addressees' = Append(Addressees, k)
  BY <1>2, <1>4, <1>6, <1>7
<1>9. EverKept' = IF via = NoClient THEN EverKept \cup {Len(sent) + 1} ELSE EverKept
  BY <1>2 DEF EverKept
<1>. QED
  BY <1>5, <1>8, <1>9

\* Whoever gets a message is in.
LEMMA RecipientIsIn ==
    ASSUME TypesInv, "aborted_login" \notin anomalies, NEW k \in Keys, Recipient(k) # NoClient
    PROVE  Recipient(k) \in Conns /\ key[Recipient(k)] = k /\ phase[Recipient(k)] = "online"
<1>1. k \in DOMAIN client_indices /\ Recipient(k) = Object(sv, client_indices[k].index)
  BY DEF Recipient, sv
<1>2. client_indices[k].index \in Indices(sv)
  BY <1>1 DEF TypesInv, EntriesIssued
<1>3. phase[Recipient(k)] = "online"
  BY <1>1, <1>2 DEF TypesInv, RegistryInv, Owners, OccupantsOnline, Empty
<1>. QED
  BY <1>3, RecipientIsAddressee

LEMMA ResolvedIsIn ==
    ASSUME TypesInv, "aborted_login" \notin anomalies, NEW c \in Conns, Resolves(indices[c])
    PROVE  phase[c] = "online"
<1>. DEFINE i == indices[c].index
<1>1. /\ i \in Indices(sv) /\ Object(sv, i) # NoClient
      /\ Generation(sv, i) = indices[c].generation
  BY DEF Resolves, Empty, sv
<1>2. TypeOK /\ OccupantsIssued /\ HandlesUnique /\ OccupantsOnline
  BY DEF TypesInv, RegistryInv, Handles, Owners
<1>3. Object(sv, i) \in Conns /\ Registered(Object(sv, i))
  BY <1>1, OccupantRegistered
<1>4. indices[Object(sv, i)] = [index |-> i, generation |-> Generation(sv, i)]
  BY <1>1, <1>2 DEF OccupantsIssued, Empty
<1>5. indices[c] = [index |-> i, generation |-> Generation(sv, i)]
  BY <1>1, <1>2 DEF TypeOK, ClientIndex
<1>6. Object(sv, i) = c
  BY <1>2, <1>3, <1>4, <1>5 DEF HandlesUnique
<1>. QED
  BY <1>1, <1>2, <1>6 DEF OccupantsOnline, Empty

LEMMA StaysRegular ==
    ASSUME TypesInv, RelayNext, ~Irregular'
    PROVE  /\ ~Irregular /\ Irregular' = Irregular
           /\ ~crossed /\ "aborted_login" \notin anomalies /\ "aborted_login" \notin anomalies'
<1>1. ~crossed' /\ "aborted_login" \notin anomalies'
  BY DEF Irregular
<1>2. ~crossed
  BY <1>1, CrossedStays DEF TypesInv, RelayTypeOK
<1>3. "aborted_login" \notin anomalies
  BY <1>1, ContextGrows
<1>4. ~Irregular
  BY <1>2, <1>3 DEF Irregular
<1>. QED
  BY <1>1, <1>2, <1>3, <1>4 DEF Irregular

\* A login, with or without add_user, and what comes of it.
LEMMA PeerInMailbox ==
    ASSUME TypesInv, Plumbing, RelayNext, ~Irregular', NEW c \in Conns, PeerStep(c)
    PROVE  [Mail!Next]_(Mail!vars)
<1>1. /\ TypeOK /\ "aborted_login" \notin anomalies /\ "aborted_login" \notin anomalies'
      /\ Irregular' = Irregular
  BY StaysRegular DEF TypesInv, RelayTypeOK
<1>2. CASE AcceptConnection(c)
  <2>1. /\ key' = key /\ sent' = sent /\ stored' = stored /\ statements' = statements
        /\ queue' = queue /\ inbox' = inbox /\ phase[c] = "unused"
        /\ phase' = [phase EXCEPT ![c] = "reading_key"]
    BY <1>2 DEF AcceptConnection, Accept, database, delivery
  <2>2. Sessions' = Sessions
    BY <1>1, <2>1 DEF Sessions, TypeOK
  <2>3. Addressees' = Addressees /\ EverKept' = EverKept /\ Kept' = Kept /\ Written' = Written
        /\ GivenToAll' = GivenToAll
    BY <2>1, SameMessages, SameKept, SameWritten DEF GivenToAll, Given
  <2>. QED
    BY <1>1, <2>1, <2>2, <2>3 DEF Mail!vars
<1>3. CASE PeerCloses(c)
  <2>1. /\ key' = key /\ sent' = sent /\ stored' = stored /\ statements' = statements
        /\ queue' = queue /\ inbox' = inbox /\ phase' = phase
    BY <1>3 DEF PeerCloses, registryVars, vars, database, delivery
  <2>2. Addressees' = Addressees /\ EverKept' = EverKept /\ Kept' = Kept /\ Written' = Written
        /\ GivenToAll' = GivenToAll /\ Sessions' = Sessions
    BY <2>1, SameMessages, SameKept, SameWritten, SameSessions DEF GivenToAll, Given
  <2>. QED
    BY <1>1, <2>1, <2>2 DEF Mail!vars
<1>4. ASSUME NEW k \in LoginKeys[c], LoginWithKey(c, k) PROVE Mail!Next
  <2>1. /\ sent' = sent /\ stored' = stored /\ queue' = queue /\ inbox' = inbox
        /\ phase[c] = "reading_key" /\ key' = [key EXCEPT ![c] = k]
        /\ phase' \in {[phase EXCEPT ![c] = "online"], [phase EXCEPT ![c] = "adding"]}
    BY <1>4 DEF LoginWithKey, Login, Submit
  <2>2. k \in Keys /\ key[c] = NoKey
    BY <2>1, RelayAssumption DEF Plumbing, EarlyIdle, Read
  <2>3. \E s : statements' = Append(statements, s) /\ s.op # "insert"
    <3>1. PICK s : /\ s.op # "insert" /\ Submit(s)
      <4>1. \/ Submit(Statement("insert_user", c, k, {}))
            \/ Submit(Statement("select", c, NoKey, {}))
        BY <1>4 DEF LoginWithKey
      <4>2. /\ Statement("insert_user", c, k, {}).op = "insert_user"
            /\ Statement("select", c, NoKey, {}).op = "select"
        BY DEF Statement
      <4>. QED
        BY <4>1, <4>2
    <3>. QED
      BY <3>1 DEF Submit
  <2>4. Addressees' = Addressees /\ EverKept' = EverKept /\ Kept' = Kept /\ Written' = Written
        /\ GivenToAll' = GivenToAll
    BY <2>1, <2>3, SameMessages, SameKept, SameWritten DEF GivenToAll, Given
  <2>5. Sessions[c] = "out" /\ Sessions' \in {Sessions, [Sessions EXCEPT ![c] = "in"]}
    BY <1>1, <2>1 DEF Sessions, TypeOK
  <2>6. Mail!LogIn(c, k)
    BY <1>1, <2>1, <2>2, <2>4, <2>5 DEF Mail!LogIn
  <2>. QED
    BY <2>2, <2>6 DEF Mail!Next
<1>5. ASSUME NEW k, LoginAborted(c, k) PROVE FALSE
  BY <1>1, <1>5 DEF LoginAborted, AbortLogin
<1>6. ASSUME NEW k \in Recipients[c], RelayMessage(c, k) PROVE Mail!Next
  <2>1. k \in Keys
    BY RelayAssumption
  <2>2. PICK o : o = Recipient(k) /\ o \in Conns /\ key[o] = k /\ phase[o] = "online"
    BY <1>1, <1>6, <2>1, RecipientIsIn DEF RelayMessage
  <2>3. /\ sent' = Append(sent, [from |-> c, to |-> k, via |-> o])
        /\ key' = key /\ phase' = phase /\ stored' = stored /\ statements' = statements
        /\ inbox' = inbox /\ add_message(o, Len(sent) + 1)
    BY <1>6, <2>2
    DEF RelayMessage, registryVars, vars, database, add_message_to_queue
  <2>4. Len(sent) + 1 \in Messages /\ o # NoClient
    BY <1>6, <2>2, RelayAssumption, RegistryAssumption
    DEF RelayMessage, Messages, TypesInv, RelayTypeOK
  <2>5. Addressees' = Append(Addressees, k) /\ Len(Addressees) = Len(sent) /\ EverKept' = EverKept
    BY <2>1, <2>2, <2>3, <2>4, MoreMessages
  <2>6. Given(o)' = Append(Given(o), Len(sent) + 1) /\ \A d \in Conns \ {o} : Given(d)' = Given(d)
    BY <2>2, <2>3, <2>4, GivenByAdding
  <2>7. GivenToAll' = [GivenToAll EXCEPT ![o] = Append(@, Len(Addressees) + 1)]
    BY <2>2, <2>5, <2>6 DEF GivenToAll
  <2>8. Kept' = Kept /\ Written' = Written /\ Sessions' = Sessions
    BY <2>3, SameKept, SameWritten, SameSessions
  <2>9. Sessions[o] = "in"
    BY <2>2 DEF Sessions
  <2>10. Mail!Relay(o)
    BY <1>1, <2>2, <2>3, <2>5, <2>7, <2>8, <2>9 DEF Mail!Relay, Mail!clients
  <2>. QED
    BY <2>2, <2>10 DEF Mail!Next
<1>7. ASSUME NEW k \in Recipients[c], StoreMessage(c, k) PROVE Mail!Next
  <2>1. k \in Keys
    BY RelayAssumption
  <2>2. /\ sent' = Append(sent, [from |-> c, to |-> k, via |-> NoClient])
        /\ key' = key /\ phase' = phase /\ queue' = queue /\ inbox' = inbox
    BY <1>7 DEF StoreMessage, registryVars, vars, delivery
  <2>3. Addressees' = Append(Addressees, k) /\ Len(Addressees) = Len(sent)
        /\ EverKept' = EverKept \cup {Len(Addressees) + 1}
    BY <2>1, <2>2, MoreMessages
  <2>4. PICK user, s : s = Statement("insert", NoClient, user, {Len(sent) + 1}) /\ Submit(s)
    BY <1>7 DEF StoreMessage, add_message_to_db
  <2>5. /\ statements' = Append(statements, s) /\ stored' = stored
        /\ s.op = "insert" /\ s.args = {Len(sent) + 1}
    BY <2>4 DEF Submit, Statement
  <2>6. statements \in Seq(Statements)
    BY DEF TypesInv, RelayTypeOK
  <2>7. ASSUME NEW m PROVE ToBeInserted(m)' <=> ToBeInserted(m) \/ m = Len(sent) + 1
    <3>1. /\ DOMAIN statements' = DOMAIN statements \cup {Len(statements) + 1}
          /\ statements'[Len(statements) + 1] = s
          /\ \A p \in DOMAIN statements : statements'[p] = statements[p]
      BY <2>5, <2>6, AppendElements
    <3>. QED
      BY <2>5, <3>1 DEF ToBeInserted
  <2>8. \A m : InRow(m)' <=> InRow(m)
    BY <2>5 DEF InRow
  <2>9. Kept' = Kept \cup {Len(Addressees) + 1}
    BY <2>3, <2>7, <2>8, KeptElements
  <2>10. Written' = Written /\ Sessions' = Sessions /\ GivenToAll' = GivenToAll
    BY <2>2, SameWritten, SameSessions DEF GivenToAll, Given
  <2>11. Mail!Keep(k)
    BY <1>1, <2>2, <2>3, <2>9, <2>10 DEF Mail!Keep, Mail!clients
  <2>. QED
    BY <2>1, <2>11 DEF Mail!Next
<1>. QED
  BY <1>2, <1>3, <1>4, <1>5, <1>6, <1>7 DEF PeerStep

\* The end of a login and of a connection.
LEMMA ConnectionInMailbox ==
    ASSUME TypesInv, RelayNext, ~Irregular', NEW c \in Conns, ConnectionStep(c)
    PROVE  [Mail!Next]_(Mail!vars)
<1>1. TypeOK /\ Irregular' = Irregular /\ KeyRead
  BY StaysRegular DEF TypesInv, RelayTypeOK, RegistryInv, Handles
<1>2. \A k, args : /\ Statement("select", c, k, args).op # "insert"
                   /\ Statement("select_user", c, k, args).op # "insert"
  BY DEF Statement
<1>3. /\ key' = key /\ sent' = sent /\ stored' = stored /\ queue' = queue /\ inbox' = inbox
      /\ statements' = statements \/ \E s : statements' = Append(statements, s) /\ s.op # "insert"
  <2>1. CASE SelectExistingUser(c)
    BY <1>2, <2>1 DEF SelectExistingUser, Submit, registryVars, vars, delivery
  <2>2. CASE RegisterClient(c)
    BY <1>2, <2>2 DEF RegisterClient, Register, Submit
  <2>3. CASE End(c)
    BY <2>3 DEF End, EndConnection, database, delivery
  <2>. QED
    BY <2>1, <2>2, <2>3 DEF ConnectionStep
<1>4. Addressees' = Addressees /\ EverKept' = EverKept /\ Kept' = Kept /\ Written' = Written
      /\ GivenToAll' = GivenToAll
  BY <1>3, SameMessages, SameKept, SameWritten DEF GivenToAll, Given
<1>5. CASE SelectExistingUser(c)
  <2>1. Sessions' = Sessions
    BY <1>5, SameSessions DEF SelectExistingUser, registryVars, vars
  <2>. QED
    BY <1>1, <1>3, <1>4, <2>1 DEF Mail!vars
<1>6. CASE RegisterClient(c)
  <2>1. phase[c] = "adding" /\ phase' = [phase EXCEPT ![c] = "online"]
    BY <1>6 DEF RegisterClient, Register
  <2>2. key[c] # NoKey
    BY <1>1, <2>1, RegistryAssumption DEF KeyRead
  <2>3. Sessions[c] = "out" /\ Sessions' = [Sessions EXCEPT ![c] = "in"]
    BY <1>1, <2>1 DEF Sessions, TypeOK
  <2>4. Mail!Enter(c)
    BY <1>1, <1>3, <1>4, <2>2, <2>3 DEF Mail!Enter
  <2>. QED
    BY <2>4 DEF Mail!Next
<1>7. CASE End(c)
  <2>1. phase[c] = "online" /\ phase' = [phase EXCEPT ![c] = "ended"]
    BY <1>7 DEF End, EndConnection
  <2>2. Sessions[c] = "in" /\ Sessions' = [Sessions EXCEPT ![c] = "gone"]
    BY <1>1, <2>1 DEF Sessions, TypeOK
  <2>3. Mail!Leave(c)
    BY <1>1, <1>3, <1>4, <2>2 DEF Mail!Leave
  <2>. QED
    BY <2>3 DEF Mail!Next
<1>. QED
  BY <1>5, <1>6, <1>7 DEF ConnectionStep

\* A socket coroutine writes the next message, or nothing the mailbox can tell.
LEMMA SocketInMailbox ==
    ASSUME TypesInv, Giving, RelayNext, ~Irregular', NEW c \in Conns, SocketStep(c)
    PROVE  [Mail!Next]_(Mail!vars)
<1>1. Irregular' = Irregular /\ WritesHead
  BY StaysRegular DEF Giving
<1>2. /\ key' = key /\ phase' = phase /\ sent' = sent /\ stored' = stored
      /\ statements' = statements
  BY DEF SocketStep, SocketWakes, SocketWrites, SocketFails, ChannelDestroyed, registryVars,
         vars, database
<1>3. Addressees' = Addressees /\ EverKept' = EverKept /\ Kept' = Kept /\ Sessions' = Sessions
  BY <1>2, SameMessages, SameKept, SameSessions
<1>4. CASE SocketWrites(c)
  <2>1. queue \in [Conns -> Seq(Messages)] /\ inbox \in [Conns -> Seq(Messages)]
    BY DEF TypesInv, RelayTypeOK
  <2>2. sock[c].target = c /\ queue[c] # <<>> /\ sock[c].message \in Messages
    BY <1>1, <1>4, <2>1 DEF WritesHead, SocketWrites
  <2>3. inbox' = [inbox EXCEPT ![c] = Append(inbox[c], sock[c].message)]
    BY <1>4, <2>2 DEF SocketWrites
  <2>4. GivenToAll' = GivenToAll
    BY <1>1, <1>4, GivenByWriting, SameGiven
  <2>5. Len(inbox[c]) < Len(inbox[c] \o queue[c])
    <3>1. ASSUME NEW s \in Seq(Messages), NEW t \in Seq(Messages), t # <<>>
          PROVE  Len(s) < Len(s \o t)
      BY <3>1
    <3>. QED
      BY <2>1, <2>2, <3>1
  <2>6. Written[c] < Len(GivenToAll[c])
    BY <2>5 DEF Written, GivenToAll, Given
  <2>7. Written' = [Written EXCEPT ![c] = @ + 1]
    <3>1. Len(Append(inbox[c], sock[c].message)) = Len(inbox[c]) + 1
      BY <2>1, <2>2
    <3>2. \A d \in Conns : Len(inbox'[d]) = IF d = c THEN Len(inbox[c]) + 1 ELSE Len(inbox[d])
      BY <2>1, <2>3, <3>1
    <3>. QED
      BY <3>2 DEF Written
  <2>8. Mail!Write(c)
    BY <1>1, <1>2, <1>3, <2>4, <2>6, <2>7 DEF Mail!Write, Mail!clients
  <2>. QED
    BY <2>8 DEF Mail!Next
<1>5. CASE ~SocketWrites(c)
  <2>1. queue' = queue /\ inbox' = inbox
    BY <1>5 DEF SocketStep, SocketWakes, SocketFails, ChannelDestroyed
  <2>2. Written' = Written /\ GivenToAll' = GivenToAll
    BY <2>1, SameWritten DEF GivenToAll, Given
  <2>. QED
    BY <1>1, <1>2, <1>3, <2>2 DEF Mail!vars
<1>. QED
  BY <1>4, <1>5

\* A send_delayed_messages hands a message over that was kept.
LEMMA DelayedInMailbox ==
    ASSUME TypesInv, Plumbing, Tables, Giving, RelayNext, ~Irregular', NEW c \in Conns, DelayedStep(c)
    PROVE  [Mail!Next]_(Mail!vars)
<1>1. Irregular' = Irregular /\ "aborted_login" \notin anomalies /\ WritesHead /\ GivenInOrder
  BY StaysRegular DEF Giving
<1>2. /\ key' = key /\ phase' = phase /\ sent' = sent /\ stored' = stored /\ inbox' = inbox
  BY DEF DelayedStep, SendDelayed, FinishDelayed, registryVars, vars, database, Submit
<1>3. Addressees' = Addressees /\ EverKept' = EverKept /\ Sessions' = Sessions /\ Written' = Written
  BY <1>2, SameMessages, SameSessions, SameWritten
<1>4. CASE SendDelayed(c)
  <2>1. PICK row \in delayed[c].todo :
            TakesRow(c, row) /\ row \in Row /\ add_message(c, row.message)
    BY <1>4, SendDelayedTakes
  <2>2. /\ row.message \in DOMAIN sent /\ sent[row.message].via = NoClient
        /\ sent[row.message].to = key[c]
        /\ \A p \in DOMAIN Given(c) : StoredMessage(Given(c)[p]) => Given(c)[p] < row.message
    BY <1>1, <1>2, <2>1, TakenRow
  <2>3. row.message \in EverKept /\ Addressees[row.message] = key[c]
    BY <2>2 DEF EverKept, Addressees
  <2>4. Given(c)' = Append(Given(c), row.message) /\ \A d \in Conns \ {c} : Given(d)' = Given(d)
    BY <1>2, <2>1, GivenByAdding DEF Row
  <2>5. GivenToAll' = [GivenToAll EXCEPT ![c] = Append(@, row.message)]
    BY <2>4 DEF GivenToAll
  <2>6. \A n \in Mail!GivenTo(c) \cap EverKept : n < row.message
    BY <2>2 DEF Mail!GivenTo, GivenToAll, EverKept, StoredMessage
  <2>7. Sessions[c] = "in"
    BY <1>1, <1>4, ResolvedIsIn DEF SendDelayed, Sessions
  <2>8. Kept' = Kept
    BY <1>4, SameKept DEF SendDelayed, database
  <2>9. Mail!Hand(c, row.message)
    BY <1>1, <1>2, <1>3, <2>3, <2>5, <2>6, <2>7, <2>8 DEF Mail!Hand, Mail!clients
  <2>. QED
    BY <2>3, <2>9 DEF Mail!Next
<1>5. CASE FinishDelayed(c)
  <2>1. \A args : Statement("delete", c, NoKey, args).op # "insert"
    BY DEF Statement
  <2>2. statements' = statements \/ \E s : statements' = Append(statements, s) /\ s.op # "insert"
    BY <1>5, <2>1 DEF FinishDelayed, Submit, database
  <2>3. Kept' = Kept
    BY <1>2, <2>2, SameKept
  <2>4. GivenToAll' = GivenToAll
    BY <1>2, <1>5 DEF FinishDelayed, GivenToAll, Given
  <2>. QED
    BY <1>1, <1>2, <1>3, <2>3, <2>4 DEF Mail!vars
<1>. QED
  BY <1>4, <1>5 DEF DelayedStep

\* The database keeps what it is given until a client with the key was given it.
LEMMA DatabaseInMailbox ==
    ASSUME TypesInv, Plumbing, Tables, Giving, RelayNext, ~Irregular', DatabaseStep
    PROVE  [Mail!Next]_(Mail!vars)
<1>1. Irregular' = Irregular /\ statements \in Seq(Statements) /\ HandedGiven
  BY StaysRegular DEF Giving, TypesInv, RelayTypeOK
<1>2. /\ key' = key /\ phase' = phase /\ sent' = sent /\ inbox' = inbox /\ queue' = queue
  BY DEF DatabaseStep, InsertUser, SelectUser, InsertMessage, SelectMessages, DeleteMessages,
         StatementFails, Executes, registryVars, vars, delivery
<1>3. Addressees' = Addressees /\ EverKept' = EverKept /\ Sessions' = Sessions
      /\ Written' = Written /\ GivenToAll' = GivenToAll
  BY <1>2, SameMessages, SameSessions, SameWritten DEF GivenToAll, Given
<1>4. ASSUME Kept' = Kept PROVE UNCHANGED Mail!vars
  BY <1>1, <1>2, <1>3, <1>4 DEF Mail!vars
<1>5. CASE InsertUser \/ SelectUser \/ SelectMessages
  <2>1. /\ stored' = stored /\ statements # <<>> /\ statements' = Tail(statements)
        /\ Head(statements).op # "insert"
    BY <1>5 DEF InsertUser, SelectUser, SelectMessages, Executes
  <2>. QED
    BY <1>4, <2>1, SameKept
<1>6. CASE StatementFails
  <2>1. stored' = stored /\ statements' = statements
    BY <1>6 DEF StatementFails
  <2>. QED
    BY <1>4, <2>1, SameKept
<1>7. CASE InsertMessage
  <2>1. PICK m, k :
            /\ Rows(Head(statements)) = {[id |-> last_id + 1, key |-> k, message |-> m]}
            /\ 1 \in Inserts /\ statements[1].args = {m} /\ StoredFor(m, k) /\ k \in Keys
            /\ statements' = Tail(statements) /\ statements # <<>>
            /\ last_id' = last_id + 1 /\ sent' = sent
    BY <1>7, InsertedRow
  <2>2. ASSUME NEW n PROVE InRow(n)' <=> InRow(n) \/ n = m
    <3>1. stored' = stored \cup {[id |-> last_id + 1, key |-> k, message |-> m]}
      BY <1>7, <2>1 DEF InsertMessage
    <3>2. [id |-> last_id + 1, key |-> k, message |-> m].message = m
      OBVIOUS
    <3>. QED
      BY <3>1, <3>2 DEF InRow
  <2>3. ASSUME NEW n PROVE ToBeInserted(n) <=> ToBeInserted(n)' \/ n = m
    <3>1. /\ \A p \in DOMAIN statements' : p + 1 \in DOMAIN statements
                                           /\ statements'[p] = statements[p + 1]
          /\ \A p \in DOMAIN statements :
                 p = 1 \/ (p - 1 \in DOMAIN statements' /\ statements'[p - 1] = statements[p])
      BY <1>1, <2>1
    <3>2. 1 \in DOMAIN statements /\ statements[1].op = "insert"
      BY <2>1 DEF Inserts
    <3>3. ToBeInserted(n)' \/ n = m => ToBeInserted(n)
      BY <2>1, <3>1, <3>2 DEF ToBeInserted
    <3>4. ToBeInserted(n) => ToBeInserted(n)' \/ n = m
      BY <2>1, <3>1 DEF ToBeInserted
    <3>. QED
      BY <3>3, <3>4
  <2>4. Kept' = Kept
    BY <2>2, <2>3, KeptElements
  <2>. QED
    BY <1>4, <2>4
<1>8. CASE DeleteMessages
  <2>1. /\ statements # <<>> /\ statements' = Tail(statements) /\ Head(statements).op = "delete"
        /\ Head(statements) = statements[1] /\ 1 \in DOMAIN statements
        /\ stored' = {row \in stored : row.id \notin statements[1].args}
    BY <1>1, <1>8 DEF DeleteMessages, Executes
  <2>2. PICK c \in Conns : c = statements[1].conn
    BY <1>1, <2>1 DEF Statements
  <2>3. \A m : ToBeInserted(m)' <=> ToBeInserted(m)
    BY <2>1, SameInserts
  <2>4. \A m : InRow(m)' => InRow(m)
    BY <2>1 DEF InRow
  <2>5. Kept' \subseteq Kept
    BY <2>3, <2>4, KeptElements
  <2>6. ASSUME NEW m \in Kept \ Kept' PROVE key[c] = Addressees[m] /\ m \in Mail!GivenTo(c)
    <3>1. InRow(m) /\ ~InRow(m)'
      BY <2>3, <2>6, KeptElements
    <3>2. PICK row \in stored : row.message = m /\ row.id \in statements[1].args
      BY <2>1, <3>1 DEF InRow
    <3>3. GivenRow(c, row.id)
      BY <1>1, <2>1, <2>2, <3>2 DEF HandedGiven
    <3>4. row.key = key[c] /\ m \in ToSet(Given(c))
      BY <3>2, <3>3 DEF GivenRow
    <3>5. m \in 1 .. Len(sent) /\ sent[m].to = row.key
      BY <3>2 DEF Tables, RowsOrdered, AllRows, StoredFor
    <3>6. m \in DOMAIN sent
      BY <3>5 DEF TypesInv, RelayTypeOK
    <3>7. m \in Mail!GivenTo(c)
      BY <3>4 DEF Mail!GivenTo, GivenToAll, ToSet
    <3>. QED
      BY <3>4, <3>5, <3>6, <3>7 DEF Addressees
  <2>7. Mail!Forget
    BY <1>1, <1>2, <1>3, <2>5, <2>6 DEF Mail!Forget, Mail!clients
  <2>. QED
    BY <2>7 DEF Mail!Next
<1>. QED
  BY <1>5, <1>6, <1>7, <1>8 DEF DatabaseStep

\* What the server is for (README.md:3-4), for any number of clients, keys and messages:
\* up to an aborted login or a coroutine that serves another's client, the message path
\* is a mailbox.
THEOREM RelayIsAMailbox == RelaySpec => ImplementsMailbox
<1>1. RelayInit => Mail!Init
  <2>. SUFFICES ASSUME RelayInit PROVE Mail!Init
    OBVIOUS
  <2>1. /\ sent = <<>> /\ stored = {} /\ statements = <<>> /\ ~crossed /\ anomalies = {}
        /\ key = [c \in Conns |-> NoKey] /\ phase = [c \in Conns |-> "unused"]
        /\ queue = [c \in Conns |-> <<>>] /\ inbox = [c \in Conns |-> <<>>]
    BY DEF RelayInit, Init
  <2>2. Addressees = <<>> /\ EverKept = {}
    BY <2>1 DEF Addressees, EverKept
  <2>3. Sessions = [c \in Conns |-> "out"]
    BY <2>1 DEF Sessions
  <2>4. Kept = {}
    BY <2>1 DEF Kept, Inserted, ToSet
  <2>5. GivenToAll = [c \in Conns |-> <<>>] /\ Written = [c \in Conns |-> 0]
    <3>1. <<>> \o <<>> = <<>> /\ Len(<<>>) = 0
      OBVIOUS
    <3>. QED
      BY <2>1, <3>1 DEF GivenToAll, Given, Written
  <2>6. Irregular = FALSE
    BY <2>1 DEF Irregular
  <2>. QED
    BY <2>1, <2>2, <2>3, <2>4, <2>5, <2>6 DEF Mail!Init
<1>2. TypesInv /\ Plumbing /\ Tables /\ GivingInv /\ [RelayNext]_relayVars => [Mail!Next]_(Mail!vars)
  <2>1. ASSUME UNCHANGED relayVars PROVE UNCHANGED Mail!vars
    BY <2>1
    DEF relayVars, registryVars, vars, database, delivery, Mail!vars, Addressees, Sessions, Kept,
        Inserted, EverKept, GivenToAll, Given, Written, Irregular
  <2>2. ASSUME Irregular' PROVE Mail!Next
    BY <2>2 DEF Mail!Next
  <2>3. ASSUME TypesInv, Plumbing, Tables, GivingInv, RelayNext, ~Irregular'
        PROVE  [Mail!Next]_(Mail!vars)
    <3>1. Giving
      BY <2>3, StaysRegular DEF GivingInv
    <3>2. ASSUME NEW c \in Conns, PeerStep(c) \/ ConnectionStep(c) PROVE [Mail!Next]_(Mail!vars)
      BY <2>3, <3>2, PeerInMailbox, ConnectionInMailbox
    <3>3. ASSUME NEW c \in Conns, SocketStep(c) \/ DelayedStep(c) PROVE [Mail!Next]_(Mail!vars)
      BY <2>3, <3>1, <3>3, SocketInMailbox, DelayedInMailbox
    <3>4. DatabaseStep => [Mail!Next]_(Mail!vars)
      BY <2>3, <3>1, DatabaseInMailbox
    <3>. QED
      BY <2>3, <3>2, <3>3, <3>4 DEF RelayNext
  <2>. QED
    BY <2>1, <2>2, <2>3
<1>. QED
  BY <1>1, <1>2, TypesHold, OneRequestEach, IdsAreInOrder, GivingHolds, PTL
  DEF RelaySpec, ImplementsMailbox, Mail!Spec

-----------------------------------------------------------------------------
(* No stored message stays behind                                           *)

\* A send_delayed_messages has nothing in hand before its rows arrive and no row left
\* once it deletes; the row that it took last it has handed over, unless it sends it
\* still or lost its channel.
Rounds ==
    \A c \in Conns :
        LET d == delayed[c]
        IN  /\ d.pc = "query" => d = Delayed("query")
            /\ d.pc = "deleting" => d.todo = {}
            /\ phase[c] = "online" /\ d.pc \in {"ready", "deleting"}
                   => d.row \in {0} \cup d.handed

\* What it deletes is what it has handed over.
DeletesHanded ==
    \A p \in DOMAIN statements :
        statements[p].op = "delete" => statements[p].args = delayed[statements[p].conn].handed

\* A connection in add_client, or before it, is not online; one that is stays so until
\* it ends.
LEMMA OnlineBefore ==
    ASSUME TypesInv, Plumbing, RelayNext, NEW c \in Conns, phase'[c] = "online",
           delayed[c] # Delayed("none")
    PROVE  phase[c] = "online"
<1>1. TypeOK /\ [Next]_vars /\ ~Early(c)
  BY RegistryStep DEF TypesInv, RelayTypeOK, Plumbing, EarlyIdle
<1>. QED
  BY <1>1
  DEF Next, Accept, Login, Register, EndConnection, AbortLogin, vars, TypeOK, Early

LEMMA RoundsStep ==
    ASSUME TypesInv, Plumbing, Rounds, RelayNext
    PROVE  Rounds'
<1>. DEFINE Fine(d, online) == /\ d.pc = "query" => d = Delayed("query")
                               /\ d.pc = "deleting" => d.todo = {}
                               /\ online /\ d.pc \in {"ready", "deleting"}
                                      => d.row \in {0} \cup d.handed
<1>. SUFFICES ASSUME NEW c \in Conns PROVE Fine(delayed'[c], phase'[c] = "online")
  BY DEF Rounds
<1>1. delayed \in [Conns -> DelayedStates]
  BY DEF TypesInv, RelayTypeOK
<1>2. Fine(delayed[c], phase[c] = "online")
  BY DEF Rounds
<1>3. \A pc, row, todo, handed :
          /\ Batch(pc, row, todo, handed).pc = pc /\ Batch(pc, row, todo, handed).row = row
          /\ Batch(pc, row, todo, handed).todo = todo
          /\ Batch(pc, row, todo, handed).handed = handed
  BY DEF Batch
<1>4. \A pc : Delayed(pc).pc = pc
  BY DEF Delayed, Batch
<1>5. ASSUME delayed'[c] = delayed[c] PROVE Fine(delayed'[c], phase'[c] = "online")
  <2>1. CASE delayed[c] = Delayed("none")
    BY <1>4, <1>5, <2>1
  <2>2. CASE delayed[c] # Delayed("none")
    BY <1>2, <1>5, <2>2, OnlineBefore
  <2>. QED
    BY <2>1, <2>2
<1>6. ASSUME delayed'[c] = Delayed("query") PROVE Fine(delayed'[c], phase'[c] = "online")
  BY <1>4, <1>6
<1>7. ASSUME delayed'[c] = Handed(delayed[c]) PROVE Fine(delayed'[c], phase'[c] = "online")
  BY <1>3, <1>7 DEF Handed
<1>8. ASSUME ChannelDestroyed(c), delayed'[c] = LeftLoop(delayed[c])
      PROVE  Fine(delayed'[c], phase'[c] = "online")
  <2>1. phase'[c] = "ended"
    BY <1>8 DEF ChannelDestroyed, registryVars, vars
  <2>. QED
    BY <1>3, <1>8, <2>1 DEF LeftLoop
<1>9. ASSUME SendDelayed(c) PROVE Fine(delayed'[c], phase'[c] = "online")
  <2>1. PICK row \in delayed[c].todo :
            /\ TakesRow(c, row) /\ delayed'[c].pc \in {"ready", "sending"}
            /\ delayed'[c].pc = "ready" => row.id \in delayed'[c].handed
    BY <1>9, SendDelayedTakes
  <2>. QED
    BY <2>1 DEF TakesRow
<1>10. ASSUME FinishDelayed(c) PROVE Fine(delayed'[c], phase'[c] = "online")
  <2>1. delayed[c].pc = "ready"
    BY <1>10 DEF FinishDelayed
  <2>2. phase'[c] = "online" => delayed[c].row \in {0} \cup delayed[c].handed
    BY <1>2, <2>1, OnlineBefore, NoneIsNone
  <2>3. delayed'[c] = Delayed("done") \/ delayed'[c] = Batch("deleting", delayed[c].row, {}, delayed[c].handed)
    BY <1>1, <1>10 DEF FinishDelayed
  <2>. QED
    BY <1>3, <1>4, <2>2, <2>3
<1>11. ASSUME SelectMessages, Head(statements).conn = c
       PROVE  Fine(delayed'[c], phase'[c] = "online")
  <2>1. PICK rows : delayed'[c] = Batch("ready", 0, rows, {})
    BY <1>1, <1>11 DEF SelectMessages
  <2>. QED
    BY <1>3, <2>1
<1>12. ASSUME DeleteMessages, Head(statements).conn = c
       PROVE  Fine(delayed'[c], phase'[c] = "online")
  <2>1. delayed'[c] = Delayed("done")
    BY <1>1, <1>12 DEF DeleteMessages
  <2>. QED
    BY <1>4, <2>1
<1>. HIDE DEF Fine
<1>. QED
  BY <1>5, <1>6, <1>7, <1>8, <1>9, <1>10, <1>11, <1>12, DelayedEffects

\* Who submits a DELETE and who submits an INSERT.
LEMMA Submitted ==
    ASSUME TypesInv, RelayNext, NEW s, statements' = Append(statements, s)
    PROVE  \/ s.op \notin {"delete", "insert"}
           \/ \E c \in Conns : /\ FinishDelayed(c) /\ s.op = "delete" /\ s.conn = c
                               /\ s.args = delayed[c].handed
                               /\ delayed'[c].handed = delayed[c].handed
           \/ \E c \in Conns, k \in Keys : /\ StoreMessage(c, k) /\ s.op = "insert"
                                           /\ s.key \in {NoKey, k}
<1>1. statements \in Seq(Statements) /\ delayed \in [Conns -> DelayedStates]
  BY DEF TypesInv, RelayTypeOK
<1>2. ASSUME NEW t, Submit(t) PROVE t = s
  <2>1. Append(statements, t) = Append(statements, s)
    BY <1>2 DEF Submit
  <2>2. ASSUME NEW x PROVE Append(statements, x)[Len(statements) + 1] = x
    BY <1>1, AppendElements
  <2>. QED
    BY <2>1, <2>2
<1>3. statements' # statements
  <2>1. Len(Append(statements, s)) = Len(statements) + 1 /\ Len(statements) \in Nat
    BY <1>1
  <2>. QED
    BY <2>1
<1>4. statements # <<>> => statements' # Tail(statements)
  <2>1. Len(Append(statements, s)) = Len(statements) + 1 /\ Len(statements) \in Nat
    BY <1>1
  <2>2. statements # <<>> => Len(Tail(statements)) = Len(statements) - 1
    BY <1>1
  <2>. QED
    BY <2>1, <2>2
<1>5. \A op, c, k, args : /\ Statement(op, c, k, args).op = op
                          /\ Statement(op, c, k, args).conn = c
                          /\ Statement(op, c, k, args).key = k
                          /\ Statement(op, c, k, args).args = args
  BY DEF Statement
<1>6. ASSUME NEW c \in Conns, NEW k \in Keys, LoginWithKey(c, k)
      PROVE  s.op \notin {"delete", "insert"}
  <2>1. s = Statement("insert_user", c, k, {}) \/ s = Statement("select", c, NoKey, {})
    BY <1>2, <1>6 DEF LoginWithKey
  <2>. QED
    BY <1>5, <2>1
<1>7. ASSUME NEW c \in Conns, SelectExistingUser(c) \/ RegisterClient(c)
      PROVE  s.op \notin {"delete", "insert"}
  <2>1. s = Statement("select_user", c, key[c], {}) \/ s = Statement("select", c, key[c], {})
    BY <1>2, <1>7 DEF SelectExistingUser, RegisterClient
  <2>. QED
    BY <1>5, <2>1
<1>8. ASSUME NEW c \in Conns, FinishDelayed(c)
      PROVE  /\ s.op = "delete" /\ s.conn = c /\ s.args = delayed[c].handed
             /\ delayed'[c].handed = delayed[c].handed
  <2>1. /\ Submit(Statement("delete", c, NoKey, delayed[c].handed))
        /\ delayed' = [delayed EXCEPT ![c] = Batch("deleting", delayed[c].row, {}, delayed[c].handed)]
    BY <1>3, <1>8 DEF FinishDelayed, database
  <2>2. s = Statement("delete", c, NoKey, delayed[c].handed)
    BY <1>2, <2>1
  <2>3. delayed'[c].handed = delayed[c].handed
    BY <1>1, <2>1 DEF Batch
  <2>. QED
    BY <1>5, <2>2, <2>3
<1>9. ASSUME NEW c \in Conns, NEW k \in Keys, StoreMessage(c, k)
      PROVE  s.op = "insert" /\ s.key \in {NoKey, k}
  <2>1. PICK user \in IF k \in DOMAIN client_indices THEN {NoKey} ELSE get_db_index(k) :
            Submit(Statement("insert", NoClient, user, {Len(sent) + 1}))
    BY <1>9 DEF StoreMessage, add_message_to_db
  <2>2. s = Statement("insert", NoClient, user, {Len(sent) + 1}) /\ user \in {NoKey, k}
    BY <1>2, <2>1 DEF get_db_index
  <2>. QED
    BY <1>5, <2>2
<1>. QED
  BY <1>3, <1>4, <1>6, <1>7, <1>8, <1>9, StatementChanges

\* A statement in the queue was there before, or was submitted just now.
LEMMA Queued ==
    ASSUME TypesInv, Plumbing, RelayNext, NEW p \in DOMAIN statements'
    PROVE  \/ \E q \in DOMAIN statements :
                  /\ statements'[p] = statements[q]
                  /\ statements' = Tail(statements) => q # 1
           \/ p = Len(statements) + 1 /\ statements' = Append(statements, statements'[p])
<1>1. statements \in Seq(Statements)
  BY DEF TypesInv, RelayTypeOK
<1>2. CASE statements' = statements
  <2>1. statements' # Tail(statements) \/ statements = <<>>
    BY <1>1, <1>2
  <2>. QED
    BY <1>2, <2>1
<1>3. CASE statements # <<>> /\ statements' = Tail(statements)
  <2>1. p + 1 \in DOMAIN statements /\ statements'[p] = statements[p + 1] /\ p + 1 # 1
    BY <1>1, <1>3
  <2>. QED
    BY <2>1
<1>4. ASSUME NEW s, statements' = Append(statements, s)
      PROVE  \/ \E q \in DOMAIN statements :
                    /\ statements'[p] = statements[q]
                    /\ statements' = Tail(statements) => q # 1
             \/ p = Len(statements) + 1 /\ statements' = Append(statements, statements'[p])
  <2>1. statements # <<>> => statements' # Tail(statements)
    <3>1. Len(Append(statements, s)) = Len(statements) + 1 /\ Len(statements) \in Nat
      BY <1>1
    <3>2. statements # <<>> => Len(Tail(statements)) = Len(statements) - 1
      BY <1>1
    <3>. QED
      BY <1>4, <3>1, <3>2
  <2>2. /\ DOMAIN statements' = DOMAIN statements \cup {Len(statements) + 1}
        /\ statements'[Len(statements) + 1] = s
        /\ \A q \in DOMAIN statements : statements'[q] = statements[q]
    BY <1>1, <1>4, AppendElements
  <2>3. CASE p \in DOMAIN statements
    <3>1. statements # <<>>
      BY <2>3
    <3>. QED
      BY <2>1, <2>2, <2>3, <3>1
  <2>4. CASE p = Len(statements) + 1
    BY <1>4, <2>2, <2>4
  <2>. QED
    BY <2>2, <2>3, <2>4
<1>. QED
  BY <1>2, <1>3, <1>4, StatementEffects

LEMMA DeletesHandedStep ==
    ASSUME TypesInv, Plumbing, DeletesHanded, RelayNext
    PROVE  DeletesHanded'
<1>. SUFFICES ASSUME NEW p \in DOMAIN statements', statements'[p].op = "delete"
              PROVE  statements'[p].args = delayed'[statements'[p].conn].handed
  BY DEF DeletesHanded
<1>1. statements \in Seq(Statements)
  BY DEF TypesInv, RelayTypeOK
<1>2. ASSUME NEW q \in DOMAIN statements, statements'[p] = statements[q],
             statements' = Tail(statements) => q # 1
      PROVE  statements'[p].args = delayed'[statements'[p].conn].handed
  <2>1. PICK s : s = statements[q]
    OBVIOUS
  <2>2. PICK c \in Conns : c = s.conn
    BY <1>1, <1>2, <2>1 DEF Statements
  <2>3. GoodRequest(statements[q]) /\ GoodRequest(s)'
    BY <1>2, <2>1, RequestStays
  <2>4. delayed[c].pc = "deleting" /\ delayed'[c].pc = "deleting"
    BY <1>2, <2>1, <2>2, <2>3 DEF GoodRequest
  <2>5. delayed'[c] = delayed[c]
    BY <2>4, DelayedPcs
  <2>6. s.args = delayed[c].handed
    BY <1>2, <2>1, <2>2 DEF DeletesHanded
  <2>. QED
    BY <1>2, <2>1, <2>2, <2>5, <2>6
<1>3. ASSUME statements' = Append(statements, statements'[p])
      PROVE  statements'[p].args = delayed'[statements'[p].conn].handed
  <2>1. PICK s : s = statements'[p]
    OBVIOUS
  <2>2. statements' = Append(statements, s) /\ s.op = "delete"
    BY <1>3, <2>1
  <2>3. PICK c \in Conns : /\ s.conn = c /\ s.args = delayed[c].handed
                           /\ delayed'[c].handed = delayed[c].handed
    BY <2>2, Submitted
  <2>. QED
    BY <2>1, <2>3
<1>. QED
  BY <1>2, <1>3, Queued

\* The request for the rows of c, and who has got hold of a row.
Selected(c) == Statement("select", c, key[c], {})
Fetched(c, row) ==
    \/ Selected(c) \in ToSet(statements)
    \/ row \in delayed[c].todo
    \/ row.id \in {delayed[c].row} \cup delayed[c].handed
Behind(c, p) == \E q \in DOMAIN statements : q > p /\ statements[q] = Selected(c)

NothingLeft(c) ==
    /\ \A row \in stored : row.key = key[c] => Fetched(c, row)
    /\ \A p \in DOMAIN statements :
           statements[p].op = "insert" /\ statements[p].key = key[c] => Behind(c, p)
Fetching == anomalies = {} => \A c \in Conns : phase[c] = "online" => NothingLeft(c)

LEMMA FetchingIsEnough == Fetching => NothingStranded
BY DEF Fetching, NothingLeft, Fetched, Behind, Selected, NothingStranded

\* Without irregular logins, whoever comes online asks for its rows.
LEMMA ComesOnline ==
    ASSUME TypesInv, RelayNext, anomalies' = {}, NEW c \in Conns,
           phase[c] # "online", phase'[c] = "online"
    PROVE  RegisterClient(c)
<1>1. TypeOK
  BY DEF TypesInv, RelayTypeOK
<1>2. ASSUME NEW d \in Conns, NEW k \in Keys, LoginWithKey(d, k) PROVE phase'[c] # "online"
  <2>1. anomalies = {} /\ Claims(k) = {} /\ Login(d, k)
    BY <1>2 DEF LoginWithKey, Login
  <2>2. k \notin DOMAIN client_indices
    BY <2>1 DEF TypesInv, RegistryInv, AddresseeOnly
  <2>3. phase' = [phase EXCEPT ![d] = "adding"]
    BY <2>1, <2>2 DEF Login
  <2>. QED
    BY <1>1, <2>3 DEF TypeOK
<1>3. ASSUME NEW d \in Conns, NEW k, LoginAborted(d, k) PROVE FALSE
  BY <1>3 DEF LoginAborted, AbortLogin
<1>4. ASSUME NEW d \in Conns, RegisterClient(d) PROVE d = c
  BY <1>1, <1>4 DEF RegisterClient, Register, TypeOK
<1>5. ASSUME NEW d \in Conns, AcceptConnection(d) \/ End(d) PROVE phase'[c] # "online"
  BY <1>1, <1>5 DEF AcceptConnection, Accept, End, EndConnection, TypeOK
<1>6. ASSUME NEW d \in Conns, PeerStep(d) \/ ConnectionStep(d) PROVE RegisterClient(c)
  BY <1>2, <1>3, <1>4, <1>5, <1>6, RelayAssumption
  DEF PeerStep, ConnectionStep, PeerCloses, RelayMessage, StoreMessage, SelectExistingUser,
      registryVars, vars
<1>7. ASSUME NEW d \in Conns, SocketStep(d) \/ DelayedStep(d) PROVE phase' = phase
  BY <1>7, QuietSteps DEF vars
<1>8. DatabaseStep => phase' = phase
  BY DEF DatabaseStep, InsertUser, SelectUser, InsertMessage, SelectMessages, DeleteMessages,
         StatementFails, Executes, registryVars, vars
<1>. QED
  BY <1>6, <1>7, <1>8 DEF RelayNext

\* Its request is behind every INSERT.
LEMMA LeavesNothing ==
    ASSUME TypesInv, NEW c \in Conns, RegisterClient(c)
    PROVE  NothingLeft(c)'
<1>1. statements \in Seq(Statements)
  BY DEF TypesInv, RelayTypeOK
<1>2. statements' = Append(statements, Selected(c)) /\ key' = key
  BY DEF RegisterClient, Register, Submit, Selected
<1>3. Selected(c)' = Selected(c)
  BY <1>2 DEF Selected
<1>4. /\ DOMAIN statements' = DOMAIN statements \cup {Len(statements) + 1}
      /\ statements'[Len(statements) + 1] = Selected(c)
      /\ \A p \in DOMAIN statements : p < Len(statements) + 1
  BY <1>1, <1>2, AppendElements
<1>5. Selected(c).op = "select"
  BY DEF Selected, Statement
<1>6. (Selected(c) \in ToSet(statements))'
  BY <1>3, <1>4 DEF ToSet
<1>7. ASSUME NEW p \in DOMAIN statements', statements'[p].op = "insert" PROVE Behind(c, p)'
  <2>1. p \in DOMAIN statements
    BY <1>4, <1>5, <1>7
  <2>2. Len(statements) + 1 > p
    BY <1>1, <2>1
  <2>. QED
    BY <1>3, <1>4, <2>2 DEF Behind
<1>. QED
  BY <1>6, <1>7 DEF NothingLeft, Fetched

\* A row that c has got hold of, it keeps hold of until the row is deleted.
LEMMA FetchedStays ==
    ASSUME TypesInv, Plumbing, Tables, Rounds, DeletesHanded, RelayNext, anomalies = {},
           NEW c \in Conns, phase[c] = "online", phase'[c] = "online", key'[c] = key[c],
           NEW row \in stored, row \in stored', row.key = key[c], Fetched(c, row)
    PROVE  Fetched(c, row)'
<1>1. /\ statements \in Seq(Statements) /\ delayed \in [Conns -> DelayedStates]
  BY DEF TypesInv, RelayTypeOK
<1>2. \A pc, number, todo, handed :
          /\ Batch(pc, number, todo, handed).pc = pc
          /\ Batch(pc, number, todo, handed).row = number
          /\ Batch(pc, number, todo, handed).todo = todo
          /\ Batch(pc, number, todo, handed).handed = handed
  BY DEF Batch
<1>3. Selected(c)' = Selected(c)
  BY DEF Selected
<1>4. ASSUME SelectMessages, Head(statements) = Selected(c) PROVE Fetched(c, row)'
  <2>1. Head(statements).conn = c /\ Head(statements).key = key[c]
    BY <1>4 DEF Selected, Statement
  <2>2. delayed'[c] = Batch("ready", 0, {r \in stored : r.key = key[c]}, {})
    BY <1>1, <1>4, <2>1 DEF SelectMessages
  <2>3. row \in delayed'[c].todo
    BY <1>2, <2>2
  <2>. QED
    BY <2>3 DEF Fetched
<1>5. CASE Selected(c) \in ToSet(statements)
  <2>1. PICK q \in DOMAIN statements : statements[q] = Selected(c)
    BY <1>5 DEF ToSet
  <2>2. CASE statements' = statements
    BY <1>3, <1>5, <2>2 DEF Fetched
  <2>3. ASSUME NEW s, statements' = Append(statements, s) PROVE Fetched(c, row)'
    <3>1. q \in DOMAIN statements' /\ statements'[q] = Selected(c)
      BY <1>1, <2>1, <2>3, AppendElements
    <3>. QED
      BY <1>3, <3>1 DEF Fetched, ToSet
  <2>4. CASE statements # <<>> /\ statements' = Tail(statements) /\ q # 1
    <3>1. q - 1 \in DOMAIN statements' /\ statements'[q - 1] = Selected(c)
      BY <1>1, <2>1, <2>4
    <3>. QED
      BY <1>3, <3>1 DEF Fetched, ToSet
  <2>5. CASE statements # <<>> /\ statements' = Tail(statements) /\ q = 1
    <3>1. Head(statements) = Selected(c)
      BY <1>1, <2>1, <2>5
    <3>2. SelectMessages
      BY <2>5, <3>1, OnlyExecutedLeaves DEF Selected, Statement
    <3>. QED
      BY <1>4, <3>1, <3>2
  <2>. QED
    BY <2>2, <2>3, <2>4, <2>5, StatementEffects
<1>6. CASE Selected(c) \notin ToSet(statements)
  <2>1. row.id \in 1 .. last_id /\ last_id \in Nat
    BY DEF Tables, RowsOrdered, AllRows, TypesInv, RelayTypeOK
  <2>2. \/ row \in delayed[c].todo
        \/ row.id \in {delayed[c].row} \cup delayed[c].handed
    BY <1>6 DEF Fetched
  <2>3. delayed[c].pc # "query" /\ delayed[c] # Delayed("none")
    BY <1>2, <2>1, <2>2 DEF Rounds, Delayed
  <2>4. CASE delayed'[c] = delayed[c]
    BY <2>2, <2>4 DEF Fetched
  <2>5. ~(RegisterClient(c) \/ \E k \in Keys : LoginWithKey(c, k))
    BY DEF RegisterClient, Register, LoginWithKey, Login
  <2>6. CASE delayed'[c] = Handed(delayed[c])
    BY <1>2, <2>2, <2>6 DEF Handed, Fetched
  <2>7. ~ChannelDestroyed(c)
    BY DEF ChannelDestroyed
  <2>8. CASE SendDelayed(c)
    <3>1. PICK taken \in delayed[c].todo :
              TakesRow(c, taken) /\ delayed[c].handed \subseteq delayed'[c].handed
      BY <2>8, SendDelayedTakes
    <3>2. delayed[c].row \in {0} \cup delayed[c].handed
      BY <3>1 DEF Rounds, TakesRow
    <3>. QED
      BY <2>1, <2>2, <3>1, <3>2 DEF TakesRow, Fetched
  <2>9. CASE FinishDelayed(c)
    <3>1. delayed[c].pc = "ready" /\ (delayed[c].todo # {} => ~Resolves(indices[c]))
      BY <2>9 DEF FinishDelayed
    <3>2. delayed[c].todo = {}
      BY <3>1 DEF TypesInv, RegistryInv, OnlineClientsReachable
    <3>3. row.id \in delayed[c].handed
      BY <2>1, <2>2, <3>1, <3>2 DEF Rounds
    <3>4. delayed'[c] = Batch("deleting", delayed[c].row, {}, delayed[c].handed)
      BY <1>1, <2>9, <3>3 DEF FinishDelayed
    <3>. QED
      BY <1>2, <3>3, <3>4 DEF Fetched
  <2>10. CASE SelectMessages /\ Head(statements).conn = c
    <3>1. 1 \in DOMAIN statements /\ Head(statements) = statements[1] /\ statements[1].op = "select"
      BY <1>1, <2>10 DEF SelectMessages, Executes
    <3>2. delayed[c].pc = "query"
      BY <2>10, <3>1 DEF Plumbing, Requested, GoodRequest
    <3>. QED
      BY <2>3, <3>2
  <2>11. CASE DeleteMessages /\ Head(statements).conn = c
    <3>1. 1 \in DOMAIN statements /\ Head(statements) = statements[1] /\ statements[1].op = "delete"
      BY <1>1, <2>11 DEF DeleteMessages, Executes
    <3>2. delayed[c].pc = "deleting" /\ statements[1].args = delayed[c].handed
      BY <2>11, <3>1 DEF Plumbing, Requested, GoodRequest, DeletesHanded
    <3>3. row.id \in delayed[c].handed
      BY <2>1, <2>2, <3>2 DEF Rounds
    <3>4. row.id \notin statements[1].args
      BY <2>11, <3>1 DEF DeleteMessages
    <3>. QED
      BY <3>2, <3>3, <3>4
  <2>. QED
    BY <2>4, <2>5, <2>6, <2>7, <2>8, <2>9, <2>10, <2>11, DelayedEffects
<1>. QED
  BY <1>5, <1>6

\* A request that is behind a statement stays behind it.
LEMMA BehindStays ==
    ASSUME TypesInv, Plumbing, RelayNext, NEW c \in Conns, key'[c] = key[c],
           NEW p \in DOMAIN statements', NEW q \in DOMAIN statements,
           statements'[p] = statements[q],
           IF statements' = Tail(statements) THEN q = p + 1 ELSE q = p,
           Behind(c, q)
    PROVE  Behind(c, p)'
<1>1. statements \in Seq(Statements)
  BY DEF TypesInv, RelayTypeOK
<1>2. Selected(c)' = Selected(c)
  BY DEF Selected
<1>3. PICK r \in DOMAIN statements : r > q /\ statements[r] = Selected(c)
  BY DEF Behind
<1>4. CASE statements' = Tail(statements)
  <2>1. statements # <<>>
    BY <1>3
  <2>2. r - 1 \in DOMAIN statements' /\ statements'[r - 1] = Selected(c) /\ r - 1 > p
    BY <1>1, <1>3, <1>4, <2>1
  <2>. QED
    BY <1>2, <2>2 DEF Behind
<1>5. CASE statements' = statements /\ statements' # Tail(statements)
  BY <1>2, <1>3, <1>5 DEF Behind
<1>6. ASSUME NEW s, statements' = Append(statements, s), statements' # Tail(statements)
      PROVE  Behind(c, p)'
  <2>1. r \in DOMAIN statements' /\ statements'[r] = Selected(c)
    BY <1>1, <1>3, <1>6, AppendElements
  <2>. QED
    BY <1>2, <1>3, <1>6, <2>1 DEF Behind
<1>. QED
  BY <1>4, <1>5, <1>6, StatementEffects

LEMMA FetchingStep ==
    ASSUME TypesInv, Plumbing, Tables, Rounds, DeletesHanded, Fetching, RelayNext
    PROVE  Fetching'
<1>. SUFFICES ASSUME anomalies' = {}, NEW c \in Conns, phase'[c] = "online"
              PROVE  NothingLeft(c)'
  BY DEF Fetching
<1>1. anomalies = {}
  BY ContextGrows
<1>2. CASE phase[c] # "online"
  BY <1>2, ComesOnline, LeavesNothing
<1>3. CASE phase[c] = "online"
  <2>1. NothingLeft(c)
    BY <1>1, <1>3 DEF Fetching
  <2>2. key'[c] = key[c] /\ key[c] \in Keys
    BY <1>3, ContextGrows DEF Read, TypesInv, RegistryInv, Handles, KeyRead
  <2>3. statements \in Seq(Statements)
    BY DEF TypesInv, RelayTypeOK
  <2>4. ASSUME NEW row \in stored', row.key = key[c] PROVE Fetched(c, row)'
    <3>1. CASE row \in stored
      <4>1. Fetched(c, row)
        BY <2>1, <2>4, <3>1 DEF NothingLeft
      <4>. QED
        BY <1>1, <1>3, <2>2, <2>4, <3>1, <4>1, FetchedStays
    <3>2. CASE row \notin stored
      <4>1. InsertMessage
        BY <3>2, ZenonT(40)
        DEF RelayNext, PeerStep, ConnectionStep, SocketStep, DelayedStep, DatabaseStep,
            AcceptConnection, PeerCloses, LoginWithKey, LoginAborted, RelayMessage,
            StoreMessage, SelectExistingUser, RegisterClient, End, SocketWakes, SocketWrites,
            SocketFails, ChannelDestroyed, SendDelayed, FinishDelayed, InsertUser, SelectUser,
            SelectMessages, DeleteMessages, StatementFails, Submit, add_message_to_db, database
      <4>2. /\ row \in Rows(Head(statements)) /\ statements # <<>>
            /\ statements' = Tail(statements) /\ Head(statements).op = "insert"
        BY <3>2, <4>1 DEF InsertMessage, Executes
      <4>3. /\ 1 \in DOMAIN statements /\ statements[1].op = "insert"
            /\ statements[1].key = key[c]
        BY <2>3, <2>4, <4>2 DEF Rows
      <4>4. PICK q \in DOMAIN statements : q > 1 /\ statements[q] = Selected(c)
        BY <2>1, <4>3 DEF NothingLeft, Behind
      <4>5. q - 1 \in DOMAIN statements' /\ statements'[q - 1] = Selected(c)
        BY <2>3, <4>2, <4>4
      <4>. QED
        BY <2>2, <4>5 DEF Fetched, Selected, ToSet
    <3>. QED
      BY <3>1, <3>2
  <2>5. ASSUME NEW p \in DOMAIN statements', statements'[p].op = "insert",
               statements'[p].key = key[c]
        PROVE  Behind(c, p)'
    <3>1. ASSUME NEW q \in DOMAIN statements, statements'[p] = statements[q],
                 IF statements' = Tail(statements) THEN q = p + 1 ELSE q = p
          PROVE  Behind(c, p)'
      <4>1. Behind(c, q)
        BY <2>1, <2>5, <3>1 DEF NothingLeft
      <4>. QED
        BY <2>2, <3>1, <4>1, BehindStays
    <3>2. ASSUME NEW s, statements' = Append(statements, s), statements'[p] = s PROVE FALSE
      <4>1. PICK d \in Conns, k \in Keys : StoreMessage(d, k) /\ s.key \in {NoKey, k}
        BY <2>5, <3>2, Submitted
      <4>2. k = key[c] /\ Recipient(k) = NoClient
        BY <2>2, <2>5, <3>2, <4>1, RegistryAssumption DEF StoreMessage
      <4>3. /\ k \in DOMAIN client_indices /\ client_indices[k] = indices[c]
            /\ Resolves(indices[c])
        BY <1>1, <1>3, <4>2 DEF TypesInv, RegistryInv, OnlineClientsReachable
      <4>. QED
        BY <4>2, <4>3 DEF Recipient, Resolves, Empty
    <3>3. CASE statements # <<>> /\ statements' = Tail(statements)
      <4>1. p + 1 \in DOMAIN statements /\ statements'[p] = statements[p + 1]
        BY <2>3, <3>3
      <4>. QED
        BY <3>1, <3>3, <4>1
    <3>4. CASE statements' = statements
      <4>1. statements # <<>> => statements' # Tail(statements)
        BY <2>3, <3>4
      <4>2. statements # <<>>
        BY <2>3, <3>4
      <4>. QED
        BY <3>1, <3>4, <4>1, <4>2
    <3>5. ASSUME NEW s, statements' = Append(statements, s) PROVE Behind(c, p)'
      <4>1. statements # <<>> => statements' # Tail(statements)
        <5>1. Len(statements') = Len(statements) + 1 /\ Len(statements) \in Nat
          BY <2>3, <3>5
        <5>2. statements # <<>> => Len(Tail(statements)) = Len(statements) - 1
          BY <2>3
        <5>. QED
          BY <5>1, <5>2
      <4>2. \/ p \in DOMAIN statements /\ statements'[p] = statements[p]
            \/ statements'[p] = s
        BY <2>3, <3>5, AppendElements
      <4>3. CASE p \in DOMAIN statements /\ statements'[p] = statements[p]
        <5>1. statements # <<>>
          BY <2>3, <4>3
        <5>. QED
          BY <3>1, <4>1, <4>3, <5>1
      <4>. QED
        BY <3>2, <3>5, <4>2, <4>3
    <3>. QED
      BY <2>3, <3>3, <3>4, <3>5, StatementEffects
  <2>. QED
    BY <2>2, <2>4, <2>5 DEF NothingLeft
<1>. QED
  BY <1>2, <1>3

Custody == Rounds /\ DeletesHanded /\ Fetching

LEMMA CustodyStep ==
    TypesInv /\ Plumbing /\ Tables /\ Custody /\ [RelayNext]_relayVars => Custody'
<1>1. ASSUME TypesInv, Plumbing, Tables, Custody, RelayNext PROVE Custody'
  BY <1>1, RoundsStep, DeletesHandedStep, FetchingStep DEF Custody
<1>2. ASSUME UNCHANGED relayVars, Custody PROVE Custody'
  BY <1>2
  DEF relayVars, registryVars, vars, database, delivery, Custody, Rounds, DeletesHanded,
      Fetching, NothingLeft, Fetched, Behind, Selected
<1>. QED
  BY <1>1, <1>2

LEMMA InitCustody == RelayInit => Custody
<1>. SUFFICES ASSUME RelayInit PROVE Custody
  OBVIOUS
<1>1. /\ statements = <<>>
      /\ \A c \in Conns : phase[c] = "unused" /\ delayed[c] = Delayed("none")
  BY DEF RelayInit, Init
<1>2. Delayed("none").pc = "none"
  BY DEF Delayed, Batch
<1>3. Rounds
  BY <1>1, <1>2 DEF Rounds
<1>4. DeletesHanded /\ Fetching
  BY <1>1 DEF DeletesHanded, Fetching
<1>. QED
  BY <1>3, <1>4 DEF Custody

\* Without irregular logins, a message that was stored because its recipient was not
\* registered (connection.cpp:127) is found by the recipient's send_delayed_messages
\* (server.cpp:185-215): whoever is online has asked for its rows behind every INSERT
\* of one, or has the row in its hands until it is deleted as sent.
THEOREM NothingStaysBehind == RelaySpec => []NothingStranded
<1>1. RelaySpec => []Custody
  <2>1. TypesInv /\ Plumbing /\ Tables /\ Custody /\ [RelayNext]_relayVars => Custody'
    BY CustodyStep
  <2>2. RelayInit => Custody
    BY InitCustody
  <2>. QED
    BY <2>1, <2>2, TypesHold, OneRequestEach, IdsAreInOrder, PTL DEF RelaySpec
<1>2. Custody => NothingStranded
  BY FetchingIsEnough DEF Custody
<1>. QED
  BY <1>1, <1>2, PTL

=============================================================================
