--------------------------- MODULE DeliveryProofs ---------------------------
(***************************************************************************)
(* That a message reaches nobody but its addressee, unless a login was     *)
(* aborted.  The invariant follows a message through everything that may   *)
(* hold it: a statement, a row, the rows of a send_delayed_messages, a     *)
(* queue, a socket coroutine's write, and what was written.                *)
(***************************************************************************)
EXTENDS RelayProofs

\* The messages sent to a key, and the connections whose key has been read.
To(k) == {m \in 1 .. Len(sent) : sent[m].to = k}
Read(c) == phase[c] \notin {"unused", "reading_key"}

GoodQueues ==
    \A c \in Conns : queue[c] \in Seq(To(key[c])) /\ inbox[c] \in Seq(To(key[c]))

\* A writer's target is a client that logged in with the message's key.
GoodWriters ==
    \A c \in Conns :
        sock[c].pc = "writing" =>
            Read(sock[c].target) /\ sock[c].message \in To(key[sock[c].target])

GoodRows == \A row \in stored : row.message \in To(row.key)

GoodDelayed == \A c \in Conns : \A row \in delayed[c].todo : row.message \in To(key[c])

\* An INSERT for a user that exists is for the addressee; a SELECT is for the
\* connection's own key, or for no row.
GoodStatement(s) ==
    /\ s.op = "insert" /\ s.key # NoKey => s.args \subseteq To(s.key)
    /\ s.op = "select" => Read(s.conn) /\ s.key \in {NoKey, key[s.conn]}
GoodStatements == \A p \in DOMAIN statements : GoodStatement(statements[p])

\* Nothing is held for a connection before its key is read: its key may change.
UnreadHoldNothing ==
    \A c \in Conns :
        ~Read(c) => queue[c] = <<>> /\ inbox[c] = <<>> /\ delayed[c].todo = {}

Delivery ==
    /\ GoodQueues
    /\ GoodWriters
    /\ GoodRows
    /\ GoodDelayed
    /\ GoodStatements
    /\ UnreadHoldNothing

DeliveryInv == TypesInv /\ ("aborted_login" \notin anomalies => Delivery)

-----------------------------------------------------------------------------
(* What the parts refer to only grows                                       *)

\* Messages are only added to sent, a key that has been read stays, and an aborted
\* login is not forgotten.
LEMMA ContextGrows ==
    ASSUME TypesInv, RelayNext
    PROVE  /\ \A k : To(k) \subseteq To(k)'
           /\ \A c \in Conns : Read(c) => Read(c)' /\ key'[c] = key[c]
           /\ anomalies \subseteq anomalies'
  <1>1. /\ TypeOK /\ [Next]_vars
        /\ sent \in Seq([from : Conns, to : Keys, via : Conns \cup {NoClient}])
    BY RegistryStep DEF TypesInv, RelayTypeOK
  <1>2. sent' = sent \/ \E x : sent' = Append(sent, x)
    BY DEF RelayNext, PeerStep, ConnectionStep, SocketStep, DelayedStep, DatabaseStep,
           AcceptConnection, PeerCloses, LoginWithKey, LoginAborted, RelayMessage,
           StoreMessage, SelectExistingUser, RegisterClient, End, SocketWakes, SocketWrites,
           SocketFails, ChannelDestroyed, SendDelayed, FinishDelayed, InsertUser, SelectUser,
           InsertMessage, SelectMessages, DeleteMessages, StatementFails, Executes
  <1>3. Len(sent) <= Len(sent') /\ \A m \in 1 .. Len(sent) : sent'[m] = sent[m]
    BY <1>1, <1>2
  <1>4. \A k : To(k) \subseteq To(k)'
    <2>1. Len(sent) \in Nat /\ Len(sent') \in Nat
      BY <1>1, <1>2
    <2> QED
      BY <1>3, <2>1 DEF To
  <1>5. /\ \A c \in Conns : Read(c) => Read(c)' /\ key'[c] = key[c]
        /\ anomalies \subseteq anomalies'
    BY <1>1
    DEF Next, Accept, Login, Register, EndConnection, AbortLogin, vars, TypeOK, Read
  <1> QED
    BY <1>4, <1>5

\* What held no message that was not its own still does once the context has grown.
LEMMA PartsSurvive ==
    ASSUME DeliveryInv, RelayNext, "aborted_login" \notin anomalies
    PROVE  /\ \A c \in Conns : queue[c] \in Seq(To(key[c])') /\ inbox[c] \in Seq(To(key[c])')
           /\ \A c \in Conns : \A row \in delayed[c].todo : row.message \in To(key[c])'
           /\ \A row \in stored : row.message \in To(row.key)'
           /\ \A c \in Conns : \A m \in To(key[c]) : Read(c) => m \in To(key[c])'
  <1>1. Delivery /\ TypesInv
    BY DEF DeliveryInv
  <1>2. /\ \A k : To(k) \subseteq To(k)'
        /\ \A c \in Conns : Read(c) => key'[c] = key[c]
    BY <1>1, ContextGrows
  <1>3. \A k : To(k) \subseteq {m \in 1 .. Len(sent') : sent'[m].to = k}
    BY <1>2 DEF To
  <1>4. \A c \in Conns : Read(c) => To(key[c]) \subseteq To(key[c])'
    BY <1>2, <1>3 DEF To
  <1>5. ASSUME NEW c \in Conns
        PROVE  queue[c] \in Seq(To(key[c])') /\ inbox[c] \in Seq(To(key[c])')
    <2>1. CASE Read(c)
      <3>1. queue[c] \in Seq(To(key[c])) /\ inbox[c] \in Seq(To(key[c]))
        BY <1>1 DEF Delivery, GoodQueues
      <3> HIDE DEF To
      <3>2. To(key[c]) \subseteq To(key[c])'
        BY <1>4, <2>1
      <3> QED
        BY <3>1, <3>2, SeqMonotonic
    <2>2. CASE ~Read(c)
      <3>1. queue[c] = <<>> /\ inbox[c] = <<>>
        BY <1>1, <2>2 DEF Delivery, UnreadHoldNothing
      <3> QED
        BY <3>1, EmptySeq
    <2> QED
      BY <2>1, <2>2
  <1>6. ASSUME NEW c \in Conns, NEW row \in delayed[c].todo
        PROVE  row.message \in To(key[c])'
    BY <1>1, <1>4 DEF Delivery, UnreadHoldNothing, GoodDelayed
  <1>7. \A row \in stored : row.message \in To(row.key)'
    BY <1>1, <1>2 DEF Delivery, GoodRows, To
  <1> QED
    BY <1>4, <1>5, <1>6, <1>7

-----------------------------------------------------------------------------
(* Each holder of messages in turn                                          *)

\* Only add_message_to_queue and a finished write touch a queue.
LEMMA QueueChanges ==
    ASSUME RelayNext
    PROVE  \/ UNCHANGED <<queue, inbox>>
           \/ \E c \in Conns, k \in Keys : RelayMessage(c, k)
           \/ \E c \in Conns : SendDelayed(c) \/ SocketWrites(c)
  <1>1. ASSUME NEW c \in Conns, PeerStep(c) \/ ConnectionStep(c)
        PROVE  UNCHANGED <<queue, inbox>> \/ \E k \in Keys : RelayMessage(c, k)
    BY <1>1, RelayAssumption
    DEF PeerStep, ConnectionStep, AcceptConnection, PeerCloses, LoginWithKey, LoginAborted,
        StoreMessage, SelectExistingUser, RegisterClient, End, delivery
  <1>2. ASSUME NEW c \in Conns, SocketStep(c) \/ DelayedStep(c)
        PROVE  UNCHANGED <<queue, inbox>> \/ SendDelayed(c) \/ SocketWrites(c)
    BY <1>2
    DEF SocketStep, DelayedStep, SocketWakes, SocketFails, ChannelDestroyed, FinishDelayed
  <1>3. ASSUME DatabaseStep PROVE UNCHANGED <<queue, inbox>>
    BY <1>3
    DEF DatabaseStep, InsertUser, SelectUser, InsertMessage, SelectMessages, DeleteMessages,
        StatementFails, Executes, delivery
  <1> QED
    BY <1>1, <1>2, <1>3 DEF RelayNext

\* The client that a key leads to logged in with it.
LEMMA RecipientIsAddressee ==
    ASSUME TypesInv, "aborted_login" \notin anomalies, NEW k \in Keys, Recipient(k) # NoClient
    PROVE  Recipient(k) \in Conns /\ key[Recipient(k)] = k /\ Read(Recipient(k))
  <1>1. k \in DOMAIN client_indices
        /\ Recipient(k) = Object(clients_slot_vector, client_indices[k].index)
    BY DEF Recipient
  <1>2. Recipient(k) \in Claims(k)
    BY <1>1 DEF TypesInv, RegistryInv, AddresseeOnly
  <1> QED
    BY <1>2 DEF Claims, Read

QueuesAndUnread == GoodQueues /\ \A c \in Conns : ~Read(c) => queue[c] = <<>> /\ inbox[c] = <<>>

LEMMA QueuesStep ==
    ASSUME DeliveryInv, RelayNext, "aborted_login" \notin anomalies'
    PROVE  QueuesAndUnread'
  <1>1. TypesInv /\ "aborted_login" \notin anomalies /\ Delivery
    BY ContextGrows DEF DeliveryInv
  <1>2. \A c \in Conns : Read(c) => Read(c)'
    BY <1>1, ContextGrows
  <1> DEFINE Own(c) == Seq(To(key[c])')
  <1>3. \A c \in Conns : queue[c] \in Own(c) /\ inbox[c] \in Own(c)
    BY <1>1, PartsSurvive
  <1>4. \A c \in Conns : ~Read(c)' => queue[c] = <<>> /\ inbox[c] = <<>>
    BY <1>1, <1>2 DEF Delivery, UnreadHoldNothing
  <1>5. queue \in [Conns -> Seq(Messages)] /\ inbox \in [Conns -> Seq(Messages)]
    BY <1>1 DEF TypesInv, RelayTypeOK
  <1>6. ASSUME NEW o \in Conns, Read(o)', NEW m \in To(key[o])',
               UNCHANGED inbox, add_message(o, m)
        PROVE  QueuesAndUnread'
    <2>1. /\ inbox' = inbox /\ queue'[o] = Append(queue[o], m)
          /\ \A c \in Conns \ {o} : queue'[c] = queue[c]
      BY <1>5, <1>6 DEF add_message
    <2>2. queue'[o] \in Own(o)
      BY <1>3, <1>6, <2>1, AppendProperties
    <2> QED
      BY <1>3, <1>4, <1>6, <2>1, <2>2 DEF QueuesAndUnread, GoodQueues
  <1>7. CASE UNCHANGED <<queue, inbox>>
    BY <1>3, <1>4, <1>7 DEF QueuesAndUnread, GoodQueues
  <1>8. ASSUME NEW c \in Conns, NEW k \in Keys, RelayMessage(c, k) PROVE QueuesAndUnread'
    <2>1. /\ Recipient(k) # NoClient
          /\ sent' = Append(sent, [from |-> c, to |-> k, via |-> Recipient(k)])
          /\ add_message(Recipient(k), Len(sent) + 1)
          /\ UNCHANGED <<registryVars, inbox>>
      BY <1>8 DEF RelayMessage, add_message_to_queue
    <2>2. PICK o \in Conns : o = Recipient(k) /\ key[o] = k /\ Read(o)
      BY <1>1, <2>1, RecipientIsAddressee
    <2>3. PICK m \in Nat : m = Len(sent) + 1
      BY <1>1 DEF TypesInv, RelayTypeOK
    <2>4. key' = key
      BY <2>1 DEF registryVars, vars
    <2>5. m \in 1 .. Len(sent') /\ sent'[m].to = k
      BY <1>1, <2>1, <2>3 DEF TypesInv, RelayTypeOK
    <2>6. m \in To(key[o])'
      BY <2>2, <2>4, <2>5 DEF To
    <2> QED
      BY <1>2, <1>6, <2>1, <2>2, <2>3, <2>6
  <1>9. ASSUME NEW c \in Conns, SendDelayed(c) PROVE QueuesAndUnread'
    <2>1. PICK row \in delayed[c].todo : add_message(c, row.message) /\ UNCHANGED inbox
      BY <1>1, <1>9, SendsToOwn DEF TypesInv, add_message_to_queue
    <2>2. Read(c) /\ row.message \in To(key[c])'
      BY <1>1, <2>1, PartsSurvive DEF Delivery, UnreadHoldNothing
    <2> QED
      BY <1>2, <1>6, <2>1, <2>2
  <1>10. ASSUME NEW c \in Conns, SocketWrites(c) PROVE QueuesAndUnread'
    <2>1. sock[c].pc = "writing" /\ sock[c].target \in Conns
      BY <1>1, <1>10 DEF SocketWrites, TypesInv, RelayTypeOK, SocketStates
    <2>2. PICK o \in Conns, m \in To(key[sock[c].target]) :
              o = sock[c].target /\ m = sock[c].message /\ Read(o)
      BY <1>1, <2>1 DEF Delivery, GoodWriters
    <2>3. m \in To(key[o])'
      BY <1>1, <2>2, PartsSurvive
    <2> DEFINE rest == IF queue[o] = <<>> THEN <<>> ELSE Tail(queue[o])
    <2>4. /\ inbox' = [inbox EXCEPT ![o] = Append(@, m)]
          /\ queue' = [queue EXCEPT ![o] = rest]
      BY <1>10, <2>2 DEF SocketWrites
    <2>5. rest \in Own(o)
      <3> HIDE DEF Own
      <3>1. queue[o] \in Own(o)
        BY <1>3
      <3> USE DEF Own
      <3> QED
        BY <3>1, EmptySeq, HeadTailProperties
    <2>6. Append(inbox[o], m) \in Own(o)
      BY <1>3, <2>3, AppendProperties
    <2> HIDE DEF rest
    <2>7. /\ inbox'[o] = Append(inbox[o], m) /\ queue'[o] = rest
          /\ \A d \in Conns \ {o} : inbox'[d] = inbox[d] /\ queue'[d] = queue[d]
      BY <1>5, <2>4
    <2> QED
      BY <1>2, <1>3, <1>4, <2>2, <2>5, <2>6, <2>7 DEF QueuesAndUnread, GoodQueues
  <1> QED
    BY <1>7, <1>8, <1>9, <1>10, QueueChanges

\* A socket coroutine starts a write when it is signalled or has finished one.
LEMMA WriterChanges ==
    ASSUME RelayTypeOK, RelayNext, NEW c \in Conns, sock'[c].pc = "writing"
    PROVE  sock'[c] = sock[c] \/ SocketWakes(c) \/ SocketWrites(c)
  <1>1. sock \in [Conns -> SocketStates] /\ \A pc : At(pc).pc = pc
    BY DEF RelayTypeOK, At
  <1> DEFINE Same == sock'[c] = sock[c]
  <1>2. ASSUME NEW d \in Conns, AwaitSignal(d) PROVE Same \/ (d = c /\ sock'[c].pc # "writing")
    BY <1>1, <1>2 DEF AwaitSignal
  <1>3. ASSUME NEW o, NEW who, async_send(o, who) PROVE Same
    BY <1>1, <1>3 DEF async_send
  <1>4. ASSUME NEW d \in Conns, PeerStep(d) \/ ConnectionStep(d) PROVE Same
    <2>1. CASE RegisterClient(d)
      BY <1>1, <2>1 DEF RegisterClient
    <2>2. CASE \E k \in Recipients[d] : RelayMessage(d, k)
      BY <1>3, <2>2 DEF RelayMessage, add_message_to_queue
    <2> QED
      BY <1>4, <2>1, <2>2
      DEF PeerStep, ConnectionStep, AcceptConnection, PeerCloses, LoginWithKey, LoginAborted,
          StoreMessage, SelectExistingUser, End, delivery
  <1>5. ASSUME NEW d \in Conns, SocketStep(d)
        PROVE  Same \/ SocketWakes(c) \/ SocketWrites(c)
    <2>1. CASE SocketWakes(d)
      BY <1>1, <1>2, <2>1 DEF SocketWakes
    <2>2. CASE SocketWrites(d)
      BY <1>1, <1>2, <2>2 DEF SocketWrites
    <2>3. CASE SocketFails(d) \/ ChannelDestroyed(d)
      BY <1>1, <2>3 DEF SocketFails, ChannelDestroyed
    <2> QED
      BY <1>5, <2>1, <2>2, <2>3 DEF SocketStep
  <1>6. ASSUME NEW d \in Conns, DelayedStep(d) PROVE Same
    BY <1>3, <1>6 DEF DelayedStep, SendDelayed, FinishDelayed, add_message_to_queue
  <1>7. ASSUME DatabaseStep PROVE Same
    BY <1>7
    DEF DatabaseStep, InsertUser, SelectUser, InsertMessage, SelectMessages, DeleteMessages,
        StatementFails, Executes, delivery
  <1> QED
    BY <1>4, <1>5, <1>6, <1>7 DEF RelayNext

LEMMA WritersStep ==
    ASSUME DeliveryInv, RelayNext, "aborted_login" \notin anomalies'
    PROVE  GoodWriters'
  <1>1. TypesInv /\ "aborted_login" \notin anomalies /\ Delivery
    BY ContextGrows DEF DeliveryInv
  <1>2. \A o \in Conns : \A m \in To(key[o]) : Read(o) => Read(o)' /\ m \in To(key[o])'
    BY <1>1, ContextGrows, PartsSurvive
  <1> SUFFICES ASSUME NEW c \in Conns, sock'[c].pc = "writing"
               PROVE  Read(sock[c].target)' /\ sock'[c].message \in To(key[sock[c].target])'
    BY DEF GoodWriters
  <1>3. sock \in [Conns -> SocketStates]
    BY <1>1 DEF TypesInv, RelayTypeOK
  <1>4. ASSUME NEW o \in Conns, NEW m \in To(key[o]), Read(o),
               sock'[c].target = o, sock'[c].message = m
        PROVE  Read(sock[c].target)' /\ sock'[c].message \in To(key[sock[c].target])'
    <2>1. Read(o)' /\ m \in To(key[o])'
      BY <1>2, <1>4
    <2> QED
      BY <1>4, <2>1 DEF Read, To
  <1>5. ASSUME NEW o \in Conns, NEW rest \in Seq(To(key[o])), rest # <<>>, queue[o] # <<>>
        PROVE  Head(rest) \in To(key[o]) /\ Read(o)
    BY <1>1, <1>5 DEF Delivery, UnreadHoldNothing
  <1>6. CASE sock'[c] = sock[c]
    <2>1. sock[c].pc = "writing" /\ sock[c].target \in Conns
      BY <1>3, <1>6 DEF SocketStates
    <2>2. PICK o \in Conns, m \in To(key[sock[c].target]) :
              o = sock[c].target /\ m = sock[c].message /\ Read(o)
      BY <1>1, <2>1 DEF Delivery, GoodWriters
    <2> QED
      BY <1>4, <1>6, <2>2
  <1>7. CASE SocketWakes(c) /\ sock'[c] # sock[c]
    <2>1. /\ sock[c].pc = "ready"
          /\ ~AwaitSignal(c)
      <3>1. AwaitSignal(c) => sock'[c].pc # "writing"
        BY <1>3 DEF AwaitSignal, At
      <3> QED
        BY <1>7, <3>1 DEF SocketWakes
    <2>2. PICK o \in Conns : o = get_client(indices[c].index) /\ queue[o] # <<>>
      BY <1>1, <1>7, <2>1, SocketClientType DEF SocketWakes
    <2>3. queue[o] \in Seq(To(key[o]))
      BY <1>1 DEF Delivery, GoodQueues
    <2>4. PICK m \in To(key[o]) : m = Head(queue[o]) /\ Read(o)
      BY <1>5, <2>2, <2>3
    <2>5. sock'[c] = [pc |-> "writing", target |-> o, message |-> m]
      BY <1>3, <1>7, <2>1, <2>2, <2>4 DEF SocketWakes
    <2> QED
      BY <1>4, <2>4, <2>5
  <1>8. CASE SocketWrites(c) /\ sock'[c] # sock[c]
    <2>1. sock[c].pc = "writing" /\ sock[c].target \in Conns
      BY <1>3, <1>8 DEF SocketWrites, SocketStates
    <2>2. PICK o \in Conns : o = sock[c].target
      BY <2>1
    <2>3. PICK rest : rest = IF queue[o] = <<>> THEN <<>> ELSE Tail(queue[o])
      OBVIOUS
    <2>4. ~AwaitSignal(c)
      BY <1>3 DEF AwaitSignal, At
    <2>5. rest # <<>> /\ sock' = [sock EXCEPT ![c].message = Head(rest)]
      BY <1>8, <2>2, <2>3, <2>4 DEF SocketWrites
    <2>6. queue[o] # <<>> /\ rest \in Seq(To(key[o]))
      <3>1. queue[o] \in Seq(To(key[o]))
        BY <1>1 DEF Delivery, GoodQueues
      <3> QED
        BY <2>3, <2>5, <3>1, HeadTailProperties
    <2>7. PICK m \in To(key[o]) : m = Head(rest) /\ Read(o)
      BY <1>5, <2>5, <2>6
    <2>8. sock'[c] = [sock[c] EXCEPT !.message = m]
      BY <1>3, <2>5, <2>7
    <2>9. sock'[c].target = o /\ sock'[c].message = m
      BY <1>3, <2>1, <2>2, <2>8 DEF SocketStates
    <2> QED
      BY <1>4, <2>7, <2>9
  <1> QED
    BY <1>1, <1>6, <1>7, <1>8, WriterChanges DEF TypesInv

LEMMA RowsStep ==
    ASSUME DeliveryInv, RelayNext, "aborted_login" \notin anomalies'
    PROVE  GoodRows'
  <1>1. TypesInv /\ "aborted_login" \notin anomalies /\ Delivery
    BY ContextGrows DEF DeliveryInv
  <1>2. \A row \in stored : row.message \in To(row.key)'
    BY <1>1, PartsSurvive
  <1>3. stored' \subseteq stored \/ InsertMessage
    BY ZenonT(40) DEF RelayNext, PeerStep, ConnectionStep, SocketStep, DelayedStep, DatabaseStep,
           AcceptConnection, PeerCloses, LoginWithKey, LoginAborted, RelayMessage,
           StoreMessage, SelectExistingUser, RegisterClient, End, SocketWakes, SocketWrites,
           SocketFails, ChannelDestroyed, SendDelayed, FinishDelayed, InsertUser, SelectUser,
           SelectMessages, DeleteMessages, StatementFails, Submit, add_message_to_db, database
  <1>4. CASE stored' \subseteq stored
    BY <1>2, <1>4 DEF GoodRows
  <1>5. CASE InsertMessage
    <2>1. PICK s : s = Head(statements)
      OBVIOUS
    <2>2. /\ statements # <<>> /\ s.op = "insert" /\ s.key \in users
          /\ stored' = stored \cup Rows(s)
          /\ sent' = sent
      BY <1>5, <2>1 DEF InsertMessage, Executes
    <2>3. s.key # NoKey
      BY <1>1, <2>2, RegistryAssumption DEF TypesInv, RelayTypeOK
    <2>4. s = statements[1] /\ 1 \in DOMAIN statements
      BY <1>1, <2>1, <2>2 DEF TypesInv, RelayTypeOK
    <2>5. s.args \subseteq To(s.key)
      BY <1>1, <2>2, <2>3, <2>4 DEF Delivery, GoodStatements, GoodStatement
    <2>6. s.args \subseteq To(s.key)'
      BY <2>2, <2>5 DEF To
    <2>7. ASSUME NEW row \in stored' PROVE row.message \in To(row.key)'
      <3>1. row \in stored \/ row \in Rows(s)
        BY <2>2
      <3>2. row \in Rows(s) => row.key = s.key /\ row.message \in s.args
        BY DEF Rows
      <3>3. CASE row \in Rows(s)
        BY <2>6, <3>2, <3>3 DEF To
      <3> QED
        BY <1>2, <3>1, <3>3
    <2> QED
      BY <2>7 DEF GoodRows
  <1> QED
    BY <1>3, <1>4, <1>5

\* Only a SELECT brings rows to a send_delayed_messages.
LEMMA DelayedChanges ==
    ASSUME RelayTypeOK, RelayNext, NEW c \in Conns
    PROVE  \/ delayed'[c].todo \subseteq delayed[c].todo
           \/ SelectMessages /\ c = Head(statements).conn
  <1>1. delayed \in [Conns -> DelayedStates]
    BY DEF RelayTypeOK
  <1> DEFINE Fewer == delayed'[c].todo \subseteq delayed[c].todo
  <1>2. ASSUME NEW d \in Conns, NEW x, x.todo \subseteq delayed[d].todo,
               delayed' = [delayed EXCEPT ![d] = x]
        PROVE  Fewer
    BY <1>1, <1>2
  <1>3. \A pc : Delayed(pc).todo = {}
    BY DEF Delayed, Batch
  <1>4. \A x : Handed(x).todo = x.todo /\ LeftLoop(x).todo = {}
    BY DEF Handed, LeftLoop, Batch
  <1>5. ASSUME NEW d \in Conns, PeerStep(d) \/ ConnectionStep(d) PROVE Fewer
    <2>1. CASE UNCHANGED delayed
      BY <2>1
    <2>2. CASE \E pc : delayed' = [delayed EXCEPT ![d] = Delayed(pc)]
      BY <1>2, <1>3, <2>2
    <2> QED
      BY <1>5, <2>1, <2>2
      DEF PeerStep, ConnectionStep, AcceptConnection, PeerCloses, LoginWithKey, LoginAborted,
          RelayMessage, StoreMessage, SelectExistingUser, RegisterClient, End, delivery
  <1>6. ASSUME NEW d \in Conns, AwaitSignal(d) PROVE Fewer
    <2>1. delayed' = delayed \/ delayed' = [delayed EXCEPT ![d] = Handed(delayed[d])]
      BY <1>6 DEF AwaitSignal
    <2> QED
      BY <1>2, <1>4, <2>1
  <1>7. ASSUME NEW d \in Conns, SocketStep(d) PROVE Fewer
    <2>1. CASE ChannelDestroyed(d)
      <3>1. delayed' = delayed \/ delayed' = [delayed EXCEPT ![d] = LeftLoop(delayed[d])]
        BY <2>1 DEF ChannelDestroyed
      <3> QED
        BY <1>2, <1>4, <3>1
    <2> QED
      BY <1>6, <1>7, <2>1 DEF SocketStep, SocketWakes, SocketWrites, SocketFails
  <1>8. ASSUME NEW d \in Conns, SendDelayed(d) PROVE Fewer
    <2>1. PICK x : /\ x.todo \subseteq delayed[d].todo
                   /\ \/ delayed' = [delayed EXCEPT ![d] = x]
                      \/ delayed' = [delayed EXCEPT ![d] = Handed(x)]
      <3>1. PICK row \in delayed[d].todo :
                LET y == Batch("sending", row.id, delayed[d].todo \ {row}, delayed[d].handed)
                IN  \/ delayed' = [delayed EXCEPT ![d] = y]
                    \/ delayed' = [delayed EXCEPT ![d] = Handed(y)]
        BY <1>8 DEF SendDelayed
      <3> QED
        BY <3>1 DEF Batch
    <2>2. x.todo \subseteq delayed[d].todo /\ Handed(x).todo \subseteq delayed[d].todo
      BY <1>4, <2>1 DEF Batch
    <2> QED
      BY <1>2, <2>1, <2>2
  <1>9. ASSUME NEW d \in Conns, FinishDelayed(d) PROVE Fewer
    <2>1. PICK x : x.todo = {} /\ delayed' = [delayed EXCEPT ![d] = x]
      BY <1>9 DEF FinishDelayed, Delayed, Batch
    <2> QED
      BY <1>2, <2>1
  <1>10. ASSUME DatabaseStep PROVE Fewer \/ (SelectMessages /\ c = Head(statements).conn)
    <2>1. CASE SelectMessages
      BY <1>1, <2>1 DEF SelectMessages
    <2>2. CASE DeleteMessages
      BY <1>1, <1>3, <2>2 DEF DeleteMessages
    <2> QED
      BY <1>10, <2>1, <2>2
      DEF DatabaseStep, InsertUser, SelectUser, InsertMessage, StatementFails, delivery
  <1> QED
    BY <1>5, <1>7, <1>8, <1>9, <1>10 DEF RelayNext, DelayedStep

DelayedAndUnread == GoodDelayed /\ \A c \in Conns : ~Read(c) => delayed[c].todo = {}

LEMMA DelayedMessagesStep ==
    ASSUME DeliveryInv, RelayNext, "aborted_login" \notin anomalies'
    PROVE  DelayedAndUnread'
  <1>1. TypesInv /\ "aborted_login" \notin anomalies /\ Delivery
    BY ContextGrows DEF DeliveryInv
  <1> SUFFICES ASSUME NEW c \in Conns
               PROVE  /\ \A row \in delayed'[c].todo : row.message \in To(key[c])'
                      /\ ~Read(c)' => delayed'[c].todo = {}
    BY DEF DelayedAndUnread, GoodDelayed
  <1>2. CASE delayed'[c].todo \subseteq delayed[c].todo
    <2>1. \A row \in delayed[c].todo : row.message \in To(key[c])'
      BY <1>1, PartsSurvive
    <2>2. ~Read(c)' => delayed[c].todo = {}
      BY <1>1, ContextGrows DEF Delivery, UnreadHoldNothing
    <2> QED
      BY <1>2, <2>1, <2>2
  <1>3. CASE SelectMessages /\ c = Head(statements).conn
    <2>1. PICK s : s = Head(statements)
      OBVIOUS
    <2>2. /\ statements # <<>> /\ s.op = "select" /\ c = s.conn
          /\ delayed' = [delayed EXCEPT ![c] =
                            Batch("ready", 0, {row \in stored : row.key = s.key}, {})]
          /\ sent' = sent /\ key' = key /\ phase' = phase
      BY <1>3, <2>1 DEF SelectMessages, Executes, registryVars, vars
    <2>3. s = statements[1] /\ 1 \in DOMAIN statements
      BY <1>1, <2>1, <2>2 DEF TypesInv, RelayTypeOK
    <2>4. Read(c) /\ s.key \in {NoKey, key[c]}
      BY <1>1, <2>2, <2>3 DEF Delivery, GoodStatements, GoodStatement
    <2>5. delayed'[c].todo = {row \in stored : row.key = s.key}
      BY <1>1, <2>2 DEF TypesInv, RelayTypeOK, Batch
    <2>6. \A row \in stored : row.key # NoKey /\ row.message \in To(row.key)
      BY <1>1, RegistryAssumption DEF TypesInv, RelayTypeOK, Row, Delivery, GoodRows
    <2> QED
      BY <2>2, <2>4, <2>5, <2>6 DEF To, Read
  <1> QED
    BY <1>1, <1>2, <1>3, DelayedChanges DEF TypesInv

\* A statement is appended by its submitter or taken by the database.
LEMMA StatementChanges ==
    ASSUME RelayNext
    PROVE  \/ statements' = statements
           \/ statements # <<>> /\ statements' = Tail(statements)
           \/ \E c \in Conns :
                  \/ \E k \in Keys : LoginWithKey(c, k) \/ StoreMessage(c, k)
                  \/ SelectExistingUser(c) \/ RegisterClient(c) \/ FinishDelayed(c)
  <1>1. ASSUME NEW c \in Conns, PeerStep(c)
        PROVE  statements' = statements \/ \E k \in Keys : LoginWithKey(c, k) \/ StoreMessage(c, k)
    BY <1>1, RelayAssumption
    DEF PeerStep, AcceptConnection, PeerCloses, LoginAborted, RelayMessage, database
  <1>2. ASSUME NEW c \in Conns, ConnectionStep(c)
        PROVE  statements' = statements \/ SelectExistingUser(c) \/ RegisterClient(c)
    BY <1>2 DEF ConnectionStep, End, database
  <1>3. ASSUME NEW c \in Conns, SocketStep(c) \/ DelayedStep(c)
        PROVE  statements' = statements \/ FinishDelayed(c)
    BY <1>3
    DEF SocketStep, DelayedStep, SocketWakes, SocketWrites, SocketFails, ChannelDestroyed,
        SendDelayed, database
  <1>4. ASSUME DatabaseStep
        PROVE  statements' = statements \/ (statements # <<>> /\ statements' = Tail(statements))
    BY <1>4
    DEF DatabaseStep, InsertUser, SelectUser, InsertMessage, SelectMessages, DeleteMessages,
        StatementFails, Executes
  <1> QED
    BY <1>1, <1>2, <1>3, <1>4 DEF RelayNext

LEMMA StatementsStep ==
    ASSUME DeliveryInv, RelayNext, "aborted_login" \notin anomalies'
    PROVE  GoodStatements'
  <1>1. TypesInv /\ "aborted_login" \notin anomalies /\ Delivery
    BY ContextGrows DEF DeliveryInv
  <1>2. statements \in Seq(Statements) /\ TypeOK
    BY <1>1 DEF TypesInv, RelayTypeOK
  <1>3. ASSUME NEW p \in DOMAIN statements, NEW s, s = statements[p] PROVE GoodStatement(s)'
    <2>1. GoodStatement(s) /\ s \in Statements
      BY <1>1, <1>2, <1>3 DEF Delivery, GoodStatements
    <2>2. To(s.key) \subseteq To(s.key)'
      BY <1>1, ContextGrows DEF To
    <2>3. s.op = "select" => s.conn \in Conns
      BY <2>1 DEF Statements
    <2>4. s.conn \in Conns /\ Read(s.conn) => Read(s.conn)' /\ key'[s.conn] = key[s.conn]
      BY <1>1, ContextGrows
    <2> QED
      BY <2>1, <2>2, <2>3, <2>4 DEF GoodStatement
  <1>4. ASSUME NEW s, GoodStatement(s)', statements' = Append(statements, s)
        PROVE  GoodStatements'
    <2> SUFFICES ASSUME NEW p \in DOMAIN statements' PROVE GoodStatement(statements[p])'
      BY DEF GoodStatements
    <2>1. PICK r : r = statements'[p]
      OBVIOUS
    <2>2. r = s \/ (p \in DOMAIN statements /\ r = statements[p])
      BY <1>2, <1>4, <2>1
    <2>3. GoodStatement(r)'
      BY <1>3, <1>4, <2>2
    <2> QED
      BY <2>1, <2>3 DEF GoodStatement, Read, To
  <1>5. ASSUME NEW c \in Conns, NEW k \in Keys, LoginWithKey(c, k) PROVE GoodStatements'
    <2>1. Login(c, k) /\ phase'[c] \in {"adding", "online"}
      BY <1>2, <1>5 DEF LoginWithKey, Login, TypeOK
    <2>2. PICK s : /\ statements' = Append(statements, s)
                   /\ \/ s = Statement("insert_user", c, k, {})
                      \/ s = Statement("select", c, NoKey, {})
      BY <1>5 DEF LoginWithKey, Submit
    <2>3. GoodStatement(s)'
      BY <2>1, <2>2 DEF Statement, GoodStatement, Read
    <2> QED
      BY <1>4, <2>2, <2>3
  <1>6. ASSUME NEW c \in Conns, NEW k \in Keys, StoreMessage(c, k) PROVE GoodStatements'
    <2>1. PICK user, m : /\ user \in {k, NoKey} /\ m = Len(sent) + 1
                         /\ sent' = Append(sent, [from |-> c, to |-> k, via |-> NoClient])
                         /\ statements' =
                               Append(statements, Statement("insert", NoClient, user, {m}))
      BY <1>6 DEF StoreMessage, get_db_index, add_message_to_db, Submit
    <2>2. m \in 1 .. Len(sent') /\ sent'[m].to = k
      BY <1>1, <2>1 DEF TypesInv, RelayTypeOK
    <2>3. PICK s : s = Statement("insert", NoClient, user, {m})
      OBVIOUS
    <2>4. GoodStatement(s)'
      BY <2>1, <2>2, <2>3 DEF Statement, GoodStatement, To
    <2> QED
      BY <1>4, <2>1, <2>3, <2>4
  <1>7. ASSUME NEW c \in Conns, RegisterClient(c) PROVE GoodStatements'
    <2>1. PICK s : s = Statement("select", c, key[c], {}) /\ statements' = Append(statements, s)
      BY <1>7 DEF RegisterClient, Submit
    <2>2. phase'[c] = "online" /\ key' = key
      BY <1>2, <1>7 DEF RegisterClient, Register, TypeOK
    <2>3. GoodStatement(s)'
      BY <2>1, <2>2 DEF Statement, GoodStatement, Read
    <2> QED
      BY <1>4, <2>1, <2>3
  <1>8. ASSUME UNCHANGED statements \/ (statements # <<>> /\ statements' = Tail(statements))
        PROVE  GoodStatements'
    <2> SUFFICES ASSUME NEW p \in DOMAIN statements' PROVE GoodStatement(statements[p])'
      BY DEF GoodStatements
    <2>1. PICK r : r = statements'[p]
      OBVIOUS
    <2>2. \E q \in DOMAIN statements : r = statements[q]
      BY <1>2, <1>8, <2>1
    <2>3. GoodStatement(r)'
      BY <1>3, <2>2
    <2> QED
      BY <2>1, <2>3 DEF GoodStatement, Read, To
  <1>9. ASSUME NEW c \in Conns, SelectExistingUser(c) \/ FinishDelayed(c) PROVE GoodStatements'
    <2>1. \/ statements' = statements
          \/ \E s : s.op \in {"select_user", "delete"} /\ statements' = Append(statements, s)
      BY <1>9 DEF SelectExistingUser, FinishDelayed, Submit, Statement, database
    <2>2. CASE statements' = statements
      BY <1>8, <2>2
    <2>3. ASSUME NEW s, s.op \in {"select_user", "delete"}, statements' = Append(statements, s)
          PROVE  GoodStatements'
      BY <1>4, <2>3 DEF GoodStatement
    <2> QED
      BY <2>1, <2>2, <2>3
  <1> QED
    BY <1>5, <1>6, <1>7, <1>8, <1>9, StatementChanges

-----------------------------------------------------------------------------
(* The invariant, and what it says of what was written                      *)

LEMMA DeliveryStep == DeliveryInv /\ [RelayNext]_relayVars => DeliveryInv'
  <1> SUFFICES ASSUME DeliveryInv, [RelayNext]_relayVars PROVE DeliveryInv'
    OBVIOUS
  <1>1. TypesInv'
    BY TypesStep DEF DeliveryInv
  <1>2. ASSUME RelayNext, "aborted_login" \notin anomalies' PROVE Delivery'
    <2>1. QueuesAndUnread' /\ GoodWriters' /\ GoodRows' /\ DelayedAndUnread' /\ GoodStatements'
      BY <1>2, QueuesStep, WritersStep, RowsStep, DelayedMessagesStep, StatementsStep
    <2> QED
      BY <2>1 DEF Delivery, QueuesAndUnread, DelayedAndUnread, UnreadHoldNothing
  <1>3. ASSUME UNCHANGED relayVars, "aborted_login" \notin anomalies' PROVE Delivery'
    BY <1>3
    DEF DeliveryInv, Delivery, GoodQueues, GoodWriters, GoodRows, GoodDelayed, GoodStatements,
        GoodStatement, UnreadHoldNothing, Read, To, relayVars, registryVars, vars, database,
        delivery
  <1> QED
    BY <1>1, <1>2, <1>3 DEF DeliveryInv

LEMMA InitDelivery == RelayInit => DeliveryInv
  <1> SUFFICES ASSUME RelayInit PROVE DeliveryInv
    OBVIOUS
  <1>1. /\ \A c \in Conns : /\ queue[c] = <<>> /\ inbox[c] = <<>>
                            /\ sock[c].pc = "none" /\ delayed[c].todo = {}
        /\ stored = {} /\ statements = <<>>
    BY DEF RelayInit, At, Delayed, Batch
  <1>2. GoodQueues /\ UnreadHoldNothing
    BY <1>1, EmptySeq DEF GoodQueues, UnreadHoldNothing
  <1>3. GoodWriters /\ GoodRows /\ GoodDelayed /\ GoodStatements
    BY <1>1 DEF GoodWriters, GoodRows, GoodDelayed, GoodStatements
  <1> QED
    BY <1>2, <1>3, InitTypes DEF DeliveryInv, Delivery

\* Unless a login was aborted, whatever is queued for a client or written to its
\* socket was sent to the key it logged in with: however slots are reused, logins
\* and endings interleave, a message waits in the database or two connections share
\* a key (server.cpp:151-166 finds the slot, 222-251 writes the message).
THEOREM OnlyToTheAddressee == RelaySpec => []DeliveredToAddressee
  <1>1. RelayInit => DeliveryInv
    BY InitDelivery
  <1>2. DeliveryInv /\ [RelayNext]_relayVars => DeliveryInv'
    BY DeliveryStep
  <1>3. DeliveryInv => DeliveredToAddressee
    <2> SUFFICES ASSUME DeliveryInv, "aborted_login" \notin anomalies, NEW c \in Conns,
                        NEW m \in ToSet(Given(c))
                 PROVE  sent[m].to = key[c]
      BY DEF DeliveredToAddressee
    <2>1. queue[c] \in Seq(To(key[c])) /\ inbox[c] \in Seq(To(key[c]))
      BY DEF DeliveryInv, Delivery, GoodQueues
    <2>2. Given(c) \in Seq(To(key[c]))
      BY <2>1, ConcatProperties DEF Given
    <2>3. m \in To(key[c])
      BY <2>2 DEF ToSet
    <2> QED
      BY <2>3 DEF To
  <1> QED
    BY <1>1, <1>2, <1>3, PTL DEF RelaySpec

=============================================================================
