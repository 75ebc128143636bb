----------------------------- MODULE RelayProofs -----------------------------
(***************************************************************************)
(* Proofs about the whole message path.  Everything that Relay adds to the *)
(* registry leaves the registry's state to Registry's own actions, so that *)
(* the promises of the registry hold of the composed system.               *)
(***************************************************************************)
EXTENDS Relay, RegistryProofs, SequenceTheorems

\* Outside of logins and endings the registry does not move.
LEMMA QuietSteps ==
    ASSUME NEW c \in Conns,
           \/ PeerCloses(c) \/ SelectExistingUser(c) \/ SocketStep(c) \/ DelayedStep(c)
           \/ DatabaseStep
           \/ \E k \in Recipients[c] : RelayMessage(c, k) \/ StoreMessage(c, k)
    PROVE  UNCHANGED vars
  <1>1. CASE PeerCloses(c) \/ SelectExistingUser(c)
    BY <1>1 DEF PeerCloses, SelectExistingUser, registryVars
  <1>2. CASE SocketStep(c)
    BY <1>2 DEF SocketStep, SocketWakes, SocketWrites, SocketFails, ChannelDestroyed,
                registryVars
  <1>3. CASE DelayedStep(c)
    BY <1>3 DEF DelayedStep, SendDelayed, FinishDelayed, registryVars
  <1>4. CASE DatabaseStep
    BY <1>4 DEF DatabaseStep, InsertUser, SelectUser, InsertMessage, SelectMessages,
                DeleteMessages, StatementFails, Executes, registryVars
  <1>5. CASE \E k \in Recipients[c] : RelayMessage(c, k) \/ StoreMessage(c, k)
    BY <1>5 DEF RelayMessage, StoreMessage, registryVars
  <1> QED
    BY <1>1, <1>2, <1>3, <1>4, <1>5

\* Every step of the message path is a step of the registry or leaves it alone.
LEMMA RegistryStep == [RelayNext]_relayVars => [Next]_vars
  <1>1. ASSUME UNCHANGED relayVars PROVE UNCHANGED vars
    BY <1>1 DEF relayVars, registryVars
  <1>2. ASSUME NEW c \in Conns, PeerStep(c) PROVE [Next]_vars
    <2>1. CASE AcceptConnection(c)
      BY <2>1 DEF AcceptConnection, Next
    <2>2. CASE PeerCloses(c)
      BY <2>2, QuietSteps
    <2>3. ASSUME NEW k \in LoginKeys[c], LoginWithKey(c, k) PROVE Next
      <3>1. k \in Keys /\ Login(c, k)
        BY <2>3, RelayAssumption DEF LoginWithKey
      <3> QED
        BY <3>1 DEF Next
    <2>4. ASSUME NEW k \in LoginKeys[c] \cup {NoKey}, LoginAborted(c, k) PROVE Next
      <3>1. k \in Keys \cup {NoKey} /\ AbortLogin(c, k)
        BY <2>4, RelayAssumption DEF LoginAborted
      <3> QED
        BY <3>1 DEF Next
    <2>5. CASE \E k \in Recipients[c] : RelayMessage(c, k) \/ StoreMessage(c, k)
      BY <2>5, QuietSteps
    <2> QED
      BY <1>2, <2>1, <2>2, <2>3, <2>4, <2>5 DEF PeerStep
  <1>3. ASSUME NEW c \in Conns, ConnectionStep(c) PROVE [Next]_vars
    <2>1. CASE SelectExistingUser(c)
      BY <2>1, QuietSteps
    <2>2. CASE RegisterClient(c)
      BY <2>2 DEF RegisterClient, Next
    <2>3. CASE End(c)
      BY <2>3 DEF End, Next
    <2> QED
      BY <1>3, <2>1, <2>2, <2>3 DEF ConnectionStep
  <1>4. ASSUME NEW c \in Conns, SocketStep(c) \/ DelayedStep(c) PROVE [Next]_vars
    BY <1>4, QuietSteps
  <1>5. ASSUME DatabaseStep PROVE [Next]_vars
    BY <1>5 DEF DatabaseStep, InsertUser, SelectUser, InsertMessage, SelectMessages,
                DeleteMessages, StatementFails, Executes, registryVars
  <1> QED
    BY <1>1, <1>2, <1>3, <1>4, <1>5 DEF RelayNext

\* The message path (server.cpp, connection.cpp, database.cpp together) behaves,
\* as far as the registry can tell, like the registry alone: no handler touches
\* client_indices or clients_slot_vector behind add_client and remove_client.
THEOREM RelayRefinesRegistry == RelaySpec => Spec
  <1>1. RelayInit => Init
    BY DEF RelayInit
  <1> QED
    BY <1>1, RegistryStep, PTL DEF RelaySpec, Spec

\* The generation check of add_message_to_queue (server.cpp:69) holds while
\* messages, signals and statements are under way.
THEOREM RelayRejectsStaleHandles == RelaySpec => []StaleHandleRejected
  BY RelayRefinesRegistry, StaleHandlesAreRejected, PTL

\* While messages are relayed, a key in client_indices leads to a client that
\* logged in with it (server.cpp:151), unless a login was aborted.
THEOREM RelayFindsOnlyTheAddressee == RelaySpec => []AddresseeOnly
  BY RelayRefinesRegistry, OnlyTheAddressee, PTL

-----------------------------------------------------------------------------
(* Types                                                                    *)

\* Whatever a key leads to is a slot that was given out, and a connection with a
\* socket coroutine was given one.
EntriesIssued == \A k \in DOMAIN client_indices : client_indices[k].index \in Indices(sv)
SocketsIssued == \A c \in Conns : sock[c].pc # "none" => Registered(c)

TypesInv == RegistryInv /\ RelayTypeOK /\ EntriesIssued /\ SocketsIssued

\* send_delayed_messages hands its first row to its own client.
LEMMA SendsToOwn ==
    ASSUME RegistryInv, NEW c \in Conns, SendDelayed(c)
    PROVE  /\ delayed[c].pc = "ready"
           /\ Resolves(indices[c])
           /\ \E row \in delayed[c].todo :
                  LET taken == Batch("sending", row.id, delayed[c].todo \ {row},
                                     delayed[c].handed)
                  IN  /\ \A other \in delayed[c].todo : row.id <= other.id
                      /\ add_message_to_queue(c, row.message, DelayedSender)
                      /\ delayed' = [delayed EXCEPT ![c] = IF sock[c].pc = "waiting"
                                                          THEN Handed(taken) ELSE taken]
           /\ UNCHANGED <<registryVars, peer_open, login, sent, database, inbox, crossed>>
  <1>1. Object(clients_slot_vector, indices[c].index) = c
    BY OwnHandle DEF SendDelayed
  <1> QED
    BY <1>1 DEF SendDelayed

\* Slots are never taken away, so an entry of client_indices stays in bounds.
LEMMA EntriesStep == TypeOK /\ KeyRead /\ EntriesIssued /\ [Next]_vars => EntriesIssued'
  <1> SUFFICES ASSUME TypeOK, KeyRead, EntriesIssued, [Next]_vars PROVE EntriesIssued'
    OBVIOUS
  <1>1. ASSUME NEW c \in Conns, Register(c) PROVE EntriesIssued'
    <2> DEFINE n == indices'[c].index
    <2>1. /\ Indices(sv) \subseteq Indices(sv')
          /\ n \in Indices(sv')
          /\ DOMAIN client_indices' = DOMAIN client_indices \cup {key[c]}
          /\ client_indices'[key[c]].index = n
          /\ \A k \in DOMAIN client_indices :
               k # key[c] => client_indices'[k] = client_indices[k]
      BY <1>1, RegisterEffect
    <2> HIDE DEF n
    <2> QED
      BY <2>1 DEF EntriesIssued
  <1>2. ASSUME NEW i \in Int, NEW k, remove_client(i, k) PROVE EntriesIssued'
    BY <1>2, RemoveClient DEF EntriesIssued
  <1>3. ASSUME NEW c \in Conns PROVE indices[c].index \in Int
    BY DEF TypeOK, ClientIndex
  <1>4. ASSUME UNCHANGED <<client_indices, clients_slot_vector>> PROVE EntriesIssued'
    BY <1>4 DEF EntriesIssued, Indices, sv
  <1> QED
    BY <1>1, <1>2, <1>3, <1>4 DEF Next, Accept, Login, EndConnection, AbortLogin, vars

\* What get_client_index finds for a key is a client or an empty slot.
LEMMA RecipientType == TypesInv => \A k \in Keys : Recipient(k) \in Conns \cup {NoClient}
  BY DEF TypesInv, RelayTypeOK, TypeOK, IsSlotVector, EntriesIssued, Recipient, Object,
         Indices, sv

\* The slot of a connection with a socket coroutine is in bounds.
LEMMA SocketClientType ==
    ASSUME TypesInv, NEW c \in Conns, sock[c].pc # "none"
    PROVE  get_client(indices[c].index) \in Conns \cup {NoClient}
  <1>1. indices[c].index \in Indices(sv)
    BY DEF TypesInv, SocketsIssued, RegistryInv, Handles, IssuedBound
  <1> QED
    BY <1>1 DEF TypesInv, RelayTypeOK, TypeOK, IsSlotVector, Object, Indices, sv, get_client

\* Queues, suspended senders and socket coroutines as add_message_to_queue leaves
\* them.
LEMMA AddMessageType ==
    ASSUME RelayTypeOK, NEW o \in Conns, NEW m \in Messages, NEW who \in Senders,
           add_message_to_queue(o, m, who)
    PROVE  /\ queue' \in [Conns -> Seq(Messages)]
           /\ waiters' \in [Conns -> Seq(Senders)]
           /\ sock' \in [Conns -> SocketStates]
           /\ \A c \in Conns : sock'[c].pc = "none" <=> sock[c].pc = "none"
  <1>1. /\ queue \in [Conns -> Seq(Messages)]
        /\ waiters \in [Conns -> Seq(Senders)]
        /\ sock \in [Conns -> SocketStates]
    BY DEF RelayTypeOK
  <1>2. queue' = [queue EXCEPT ![o] = Append(@, m)]
    BY DEF add_message_to_queue, add_message
  <1>3. \/ sock' = [sock EXCEPT ![o] = At("ready")] /\ waiters' = waiters /\ sock[o].pc = "waiting"
        \/ waiters' = [waiters EXCEPT ![o] = Append(@, who)] /\ sock' = sock
    BY DEF add_message_to_queue, async_send
  <1>4. queue' \in [Conns -> Seq(Messages)]
    BY <1>1, <1>2
  <1>5. waiters' \in [Conns -> Seq(Senders)]
    <2>1. waiters[o] \in Seq(Senders)
      BY <1>1
    <2>2. Append(waiters[o], who) \in Seq(Senders)
      BY <2>1
    <2> QED
      BY <1>1, <1>3, <2>2
  <1>6. At("ready") \in SocketStates /\ At("ready").pc = "ready"
    BY DEF At, SocketStates
  <1>7. sock' \in [Conns -> SocketStates]
    BY <1>1, <1>3, <1>6
  <1>8. \A c \in Conns : sock'[c].pc = "none" <=> sock[c].pc = "none"
    BY <1>1, <1>3, <1>6
  <1> QED
    BY <1>4, <1>5, <1>7, <1>8

\* The same of a socket coroutine that is back at async_receive.
LEMMA AwaitSignalType ==
    ASSUME RelayTypeOK, NEW c \in Conns, sock[c].pc # "none", AwaitSignal(c)
    PROVE  /\ waiters' \in [Conns -> Seq(Senders)]
           /\ sock' \in [Conns -> SocketStates]
           /\ delayed' \in [Conns -> DelayedStates]
           /\ \A d \in Conns : sock'[d].pc = "none" <=> sock[d].pc = "none"
  <1>1. /\ waiters \in [Conns -> Seq(Senders)]
        /\ sock \in [Conns -> SocketStates]
        /\ delayed \in [Conns -> DelayedStates]
    BY DEF RelayTypeOK
  <1>2. \/ sock' = [sock EXCEPT ![c] = At("undefined")]
        \/ sock' = [sock EXCEPT ![c] = At("waiting")]
        \/ sock' = [sock EXCEPT ![c] = At("ready")]
    BY DEF AwaitSignal
  <1>3. \/ waiters' = waiters
        \/ waiters[c] # <<>> /\ waiters' = [waiters EXCEPT ![c] = Tail(@)]
    BY DEF AwaitSignal
  <1>4. \/ delayed' = delayed
        \/ delayed' = [delayed EXCEPT ![c] = Handed(@)]
    BY DEF AwaitSignal
  <1>5. waiters' \in [Conns -> Seq(Senders)]
    <2>1. waiters[c] \in Seq(Senders)
      BY <1>1
    <2>2. waiters[c] # <<>> => Tail(waiters[c]) \in Seq(Senders)
      BY <2>1
    <2> QED
      BY <1>1, <1>3, <2>2
  <1>6. \A pc \in {"undefined", "waiting", "ready"} :
           At(pc) \in SocketStates /\ At(pc).pc # "none"
    BY DEF At, SocketStates
  <1>7. sock' \in [Conns -> SocketStates]
    BY <1>1, <1>2, <1>6
  <1>8. \A d \in Conns : sock'[d].pc = "none" <=> sock[d].pc = "none"
    BY <1>1, <1>2, <1>6
  <1>9. Handed(delayed[c]) \in DelayedStates
    <2>1. delayed[c] \in DelayedStates
      BY <1>1
    <2> QED
      BY <2>1 DEF DelayedStates, Handed, Batch
  <1>10. delayed' \in [Conns -> DelayedStates]
    BY <1>1, <1>4, <1>9
  <1> QED
    BY <1>5, <1>7, <1>8, <1>10

\* What the statement at the head of the queue is when the database executes it.
LEMMA ExecutesType ==
    ASSUME RelayTypeOK, NEW op, Executes(op)
    PROVE  /\ Head(statements) \in Statements
           /\ Head(statements).op = op
           /\ statements' \in Seq(Statements)
  <1>1. statements \in Seq(Statements) /\ statements # <<>> /\ statements' = Tail(statements)
        /\ Head(statements).op = op
    BY DEF RelayTypeOK, Executes
  <1> HIDE DEF Executes
  <1> QED
    BY <1>1

\* One step of the message path keeps the types of its own variables.
LEMMA RelayTypeStep == TypesInv /\ RelayNext => RelayTypeOK' /\ SocketsIssued'
  <1> SUFFICES ASSUME TypesInv, RelayNext PROVE RelayTypeOK' /\ SocketsIssued'
    OBVIOUS
  <1>0. /\ RelayTypeOK /\ RegistryInv /\ SocketsIssued
        /\ [Next]_vars
        /\ TypeOK'
    <2>1. RelayTypeOK /\ RegistryInv /\ SocketsIssued
      BY DEF TypesInv
    <2>2. [Next]_vars
      BY RegistryStep
    <2> QED
      BY <2>1, <2>2, TypeStep DEF RegistryInv, Handles
  <1> USE <1>0
  <1> DEFINE Rest ==
        /\ peer_open \in [Conns -> BOOLEAN]
        /\ login \in [Conns -> {"none", "asked", "known", "added"}]
        /\ sent \in Seq([from : Conns, to : Keys, via : Conns \cup {NoClient}])
        /\ Len(sent) <= MaxMessages
        /\ loop_ended \in BOOLEAN
        /\ users \subseteq Keys
        /\ stored \subseteq Row
        /\ last_id \in Nat
        /\ inbox \in [Conns -> Seq(Messages)]
        /\ crossed \in BOOLEAN
        Queues == queue \in [Conns -> Seq(Messages)] /\ waiters \in [Conns -> Seq(Senders)]
        Coroutines == sock \in [Conns -> SocketStates] /\ delayed \in [Conns -> DelayedStates]
        Queued == statements \in Seq(Statements)
  <1>a. Rest /\ Queues /\ Coroutines /\ Queued
    BY DEF RelayTypeOK
  <1>b. Rest' /\ Queues' /\ Coroutines' /\ Queued' => RelayTypeOK'
    BY DEF RelayTypeOK
  <1>c. ASSUME UNCHANGED <<sock, indices>> PROVE SocketsIssued'
    BY <1>c DEF SocketsIssued, Registered
  <1>d. \A pc \in {"none", "query", "ready", "sending", "deleting", "done"} :
           Delayed(pc) \in DelayedStates
    BY DEF Delayed, Batch, DelayedStates
  <1>e. ASSUME NEW s \in Statements, Submit(s)
        PROVE  Queued' /\ UNCHANGED <<loop_ended, users, stored, last_id>>
    BY <1>a, <1>e DEF Submit
  <1>f. \A c \in Conns, k \in Keys : Statement("insert_user", c, k, {}) \in Statements
    BY DEF Statement, Statements
  <1>g. \A c \in Conns, k \in Keys \cup {NoKey}, ids \in SUBSET Nat :
           /\ Statement("select_user", c, k, ids) \in Statements
           /\ Statement("select", c, k, ids) \in Statements
           /\ Statement("delete", c, k, ids) \in Statements
    BY DEF Statement, Statements
  <1>h. \A k \in Keys \cup {NoKey}, m \in Messages :
           Statement("insert", NoClient, k, {m}) \in Statements
    BY DEF Statement, Statements
  <1>1. ASSUME NEW c \in Conns, AcceptConnection(c) PROVE RelayTypeOK' /\ SocketsIssued'
    BY <1>1, <1>a, <1>b, <1>c DEF AcceptConnection, Accept, database, delivery
  <1>2. ASSUME NEW c \in Conns, PeerCloses(c) PROVE RelayTypeOK' /\ SocketsIssued'
    BY <1>2, <1>a, <1>b, <1>c DEF PeerCloses, database, delivery, registryVars, vars
  <1>3. ASSUME NEW c \in Conns, NEW k \in Keys, LoginWithKey(c, k)
        PROVE  RelayTypeOK' /\ SocketsIssued'
    <2>1. SocketsIssued'
      <3>1. phase[c] = "reading_key" /\ UNCHANGED sock
            /\ \A d \in Conns \ {c} : indices'[d] = indices[d]
        BY <1>3 DEF LoginWithKey, Login, TypeOK, RelayTypeOK
      <3>2. ~Registered(c)
        BY <3>1 DEF RegistryInv, Handles, Fresh, Registered, DefaultIndex
      <3> QED
        BY <3>1, <3>2 DEF SocketsIssued, Registered
    <2>2. CASE phase'[c] = "adding"
      <3>1. /\ login' = [login EXCEPT ![c] = "asked"]
            /\ Submit(Statement("insert_user", c, k, {}))
            /\ UNCHANGED <<delayed, peer_open, sent, queue, waiters, sock, inbox, crossed>>
        BY <1>3, <2>2 DEF LoginWithKey
      <3>2. Queued' /\ UNCHANGED <<loop_ended, users, stored, last_id>>
        BY <1>e, <1>f, <3>1
      <3> QED
        BY <1>a, <1>b, <2>1, <3>1, <3>2
    <2>3. CASE phase'[c] # "adding"
      <3>1. /\ delayed' = [delayed EXCEPT ![c] = Delayed("query")]
            /\ Submit(Statement("select", c, NoKey, {}))
            /\ UNCHANGED <<login, peer_open, sent, queue, waiters, sock, inbox, crossed>>
        BY <1>3, <2>3 DEF LoginWithKey
      <3>2. Queued' /\ UNCHANGED <<loop_ended, users, stored, last_id>>
        BY <1>e, <1>g, <3>1
      <3> QED
        BY <1>a, <1>b, <1>d, <2>1, <3>1, <3>2
    <2> QED
      BY <2>2, <2>3
  <1>4. ASSUME NEW c \in Conns, NEW k \in Keys \cup {NoKey}, LoginAborted(c, k)
        PROVE  RelayTypeOK' /\ SocketsIssued'
    BY <1>4, <1>a, <1>b, <1>c DEF LoginAborted, AbortLogin, database, delivery
  <1>5. ASSUME NEW c \in Conns, NEW k \in Keys, RelayMessage(c, k)
        PROVE  RelayTypeOK' /\ SocketsIssued'
    <2> DEFINE o == Recipient(k)
               m == Len(sent) + 1
    <2>1. /\ Len(sent) < MaxMessages
          /\ o # NoClient
          /\ sent' = Append(sent, [from |-> c, to |-> k, via |-> o])
          /\ add_message_to_queue(o, m, c)
          /\ UNCHANGED <<registryVars, peer_open, login, database, delayed, inbox, crossed>>
      BY <1>5 DEF RelayMessage
    <2>2. o \in Conns /\ m \in Messages
      <3>1. o \in Conns
        BY <2>1, RecipientType
      <3>2. m \in Messages
        BY <1>a, <2>1, RelayAssumption DEF Messages
      <3> QED
        BY <3>1, <3>2
    <2> HIDE DEF o, m
    <2>3. Queues' /\ sock' \in [Conns -> SocketStates]
          /\ \A d \in Conns : sock'[d].pc = "none" <=> sock[d].pc = "none"
      BY <2>1, <2>2, AddMessageType DEF Senders
    <2>4. /\ sent' \in Seq([from : Conns, to : Keys, via : Conns \cup {NoClient}])
          /\ Len(sent') <= MaxMessages
      BY <1>a, <2>1, <2>2, RelayAssumption
    <2>5. SocketsIssued'
      BY <2>1, <2>3 DEF SocketsIssued, Registered, registryVars, vars
    <2> QED
      BY <1>a, <1>b, <2>1, <2>3, <2>4, <2>5 DEF database
  <1>6. ASSUME NEW c \in Conns, NEW k \in Keys, StoreMessage(c, k)
        PROVE  RelayTypeOK' /\ SocketsIssued'
    <2> DEFINE m == Len(sent) + 1
    <2>1. /\ Len(sent) < MaxMessages
          /\ sent' = Append(sent, [from |-> c, to |-> k, via |-> NoClient])
          /\ UNCHANGED <<registryVars, peer_open, login, delivery>>
          /\ \E user \in Keys \cup {NoKey} :
                 Submit(Statement("insert", NoClient, user, {m}))
      BY <1>6 DEF StoreMessage, add_message_to_db, get_db_index
    <2>2. m \in Messages
      BY <1>a, <2>1, RelayAssumption DEF Messages
    <2> HIDE DEF m
    <2>3. Queued' /\ UNCHANGED <<loop_ended, users, stored, last_id>>
      BY <1>e, <1>h, <2>1, <2>2
    <2>4. /\ sent' \in Seq([from : Conns, to : Keys, via : Conns \cup {NoClient}])
          /\ Len(sent') <= MaxMessages
      BY <1>a, <2>1, RelayAssumption
    <2>5. UNCHANGED <<indices, queue, waiters, sock, delayed, inbox, crossed>>
      BY <2>1 DEF registryVars, vars, delivery
    <2> QED
      BY <1>a, <1>b, <1>c, <2>1, <2>3, <2>4, <2>5
  <1>7. ASSUME NEW c \in Conns, SelectExistingUser(c) PROVE RelayTypeOK' /\ SocketsIssued'
    <2>1. /\ login' = [login EXCEPT ![c] = "asked"]
          /\ Submit(Statement("select_user", c, key[c], {}))
          /\ UNCHANGED <<registryVars, peer_open, sent, delivery>>
      BY <1>7 DEF SelectExistingUser
    <2>2. key[c] \in Keys \cup {NoKey}
      BY DEF RelayTypeOK, TypeOK
    <2>3. Queued' /\ UNCHANGED <<loop_ended, users, stored, last_id>>
      BY <1>e, <1>g, <2>1, <2>2
    <2>4. UNCHANGED <<indices, queue, waiters, sock, delayed, inbox, crossed>>
      BY <2>1 DEF registryVars, vars, delivery
    <2> QED
      BY <1>a, <1>b, <1>c, <2>1, <2>3, <2>4
  <1>8. ASSUME NEW c \in Conns, RegisterClient(c) PROVE RelayTypeOK' /\ SocketsIssued'
    <2>1. /\ Register(c)
          /\ login' = [login EXCEPT ![c] = "none"]
          /\ sock' = [sock EXCEPT ![c] = At("waiting")]
          /\ delayed' = [delayed EXCEPT ![c] = Delayed("query")]
          /\ Submit(Statement("select", c, key[c], {}))
          /\ UNCHANGED <<peer_open, sent, queue, waiters, inbox, crossed>>
      BY <1>8 DEF RegisterClient
    <2>2. key[c] \in Keys \cup {NoKey}
      BY DEF RelayTypeOK, TypeOK
    <2>3. Queued' /\ UNCHANGED <<loop_ended, users, stored, last_id>>
      BY <1>e, <1>g, <2>1, <2>2
    <2>4. At("waiting") \in SocketStates
      BY DEF At, SocketStates
    <2>5. RelayTypeOK'
      BY <1>a, <1>b, <1>d, <2>1, <2>3, <2>4
    <2>6. SocketsIssued'
      <3>1. indices'[c].generation \in Nat \ {0} /\ \A d \in Conns \ {c} : indices'[d] = indices[d]
        <4> DEFINE n == indices'[c].index
        <4>1. TypeOK
          BY DEF RelayTypeOK
        <4> QED
          BY <2>1, <4>1, RegisterEffect
      <3>2. indices'[c].generation >= 1
        BY <3>1
      <3>3. \A d \in Conns \ {c} : sock'[d] = sock[d]
        BY <1>a, <2>1
      <3> QED
        BY <3>1, <3>2, <3>3 DEF SocketsIssued, Registered
    <2> QED
      BY <2>5, <2>6
  <1>9. ASSUME NEW c \in Conns, End(c) PROVE RelayTypeOK' /\ SocketsIssued'
    BY <1>9, <1>a, <1>b, <1>c DEF End, EndConnection, database, delivery
  <1>10. ASSUME NEW c \in Conns, SocketWakes(c) PROVE RelayTypeOK' /\ SocketsIssued'
    <2> DEFINE o == get_client(indices[c].index)
    <2>1. /\ sock[c].pc = "ready"
          /\ UNCHANGED <<registryVars, peer_open, login, sent, database, queue, inbox>>
          /\ \/ AwaitSignal(c) /\ UNCHANGED crossed
             \/ /\ o # NoClient /\ queue[o] # <<>>
                /\ sock' = [sock EXCEPT ![c] = [pc |-> "writing", target |-> o,
                                                message |-> Head(queue[o])]]
                /\ crossed' = (crossed \/ o # c)
                /\ UNCHANGED <<waiters, delayed>>
      BY <1>10 DEF SocketWakes
    <2>2. o \in Conns \cup {NoClient}
      BY <2>1, SocketClientType
    <2> HIDE DEF o
    <2>3. CASE AwaitSignal(c) /\ UNCHANGED crossed
      <3>1. /\ waiters' \in [Conns -> Seq(Senders)]
            /\ Coroutines'
            /\ \A d \in Conns : sock'[d].pc = "none" <=> sock[d].pc = "none"
        BY <2>1, <2>3, AwaitSignalType
      <3>2. SocketsIssued'
        BY <2>1, <3>1 DEF SocketsIssued, Registered, registryVars, vars
      <3> QED
        BY <1>a, <1>b, <2>1, <2>3, <3>1, <3>2 DEF database
    <2>4. CASE ~(AwaitSignal(c) /\ UNCHANGED crossed)
      <3> DEFINE w == [pc |-> "writing", target |-> o, message |-> Head(queue[o])]
      <3>1. /\ o \in Conns /\ queue[o] # <<>>
            /\ sock' = [sock EXCEPT ![c] = w]
            /\ crossed' = (crossed \/ o # c)
            /\ UNCHANGED <<waiters, delayed>>
        BY <2>1, <2>2, <2>4
      <3>2. queue[o] \in Seq(Messages)
        BY <1>a, <3>1
      <3>3. Head(queue[o]) \in Messages
        BY <3>1, <3>2
      <3>4. w \in SocketStates /\ w.pc # "none"
        BY <3>1, <3>3 DEF SocketStates
      <3> HIDE DEF w
      <3>5. /\ sock' \in [Conns -> SocketStates]
            /\ \A d \in Conns : sock'[d].pc = "none" <=> sock[d].pc = "none"
        BY <1>a, <2>1, <3>1, <3>4
      <3>6. SocketsIssued'
        BY <2>1, <3>5 DEF SocketsIssued, Registered, registryVars, vars
      <3>7. crossed' \in BOOLEAN
        BY <1>a, <3>1
      <3> QED
        BY <1>a, <1>b, <2>1, <3>1, <3>5, <3>6, <3>7 DEF database
    <2> QED
      BY <2>3, <2>4
  <1>11. ASSUME NEW c \in Conns, SocketWrites(c) PROVE RelayTypeOK' /\ SocketsIssued'
    <2> DEFINE o == sock[c].target
               rest == IF queue[o] = <<>> THEN <<>> ELSE Tail(queue[o])
    <2>1. /\ sock[c].pc = "writing"
          /\ inbox' = [inbox EXCEPT ![o] = Append(@, sock[c].message)]
          /\ queue' = [queue EXCEPT ![o] = rest]
          /\ \/ AwaitSignal(c)
             \/ /\ rest # <<>>
                /\ sock' = [sock EXCEPT ![c].message = Head(rest)]
                /\ UNCHANGED <<waiters, delayed>>
          /\ UNCHANGED <<registryVars, peer_open, login, sent, database, crossed>>
      BY <1>11 DEF SocketWrites
    <2>2. o \in Conns /\ sock[c].message \in Messages
      BY <1>a, <2>1 DEF SocketStates
    <2>3. rest \in Seq(Messages)
      <3>1. queue[o] \in Seq(Messages)
        BY <1>a, <2>2
      <3> QED
        BY <3>1
    <2>4. inbox' \in [Conns -> Seq(Messages)]
      <3>1. inbox[o] \in Seq(Messages)
        BY <1>a, <2>2
      <3>2. Append(inbox[o], sock[c].message) \in Seq(Messages)
        BY <2>2, <3>1
      <3> QED
        BY <1>a, <2>1, <2>2, <3>2
    <2>5. queue' \in [Conns -> Seq(Messages)]
      BY <1>a, <2>1, <2>2, <2>3
    <2>6. /\ waiters' \in [Conns -> Seq(Senders)]
          /\ Coroutines'
          /\ \A d \in Conns : sock'[d].pc = "none" <=> sock[d].pc = "none"
      <3>1. CASE AwaitSignal(c)
        BY <2>1, <3>1, AwaitSignalType
      <3>2. CASE ~AwaitSignal(c)
        <4>1. Head(rest) \in Messages
          BY <2>1, <2>3, <3>2
        <4> HIDE DEF rest
        <4>2. sock[c] \in [pc : {"writing"}, target : Conns, message : Messages]
          BY <1>a, <2>1 DEF SocketStates
        <4>3. [sock[c] EXCEPT !.message = Head(rest)] \in SocketStates
              /\ [sock[c] EXCEPT !.message = Head(rest)].pc = "writing"
          BY <4>1, <4>2 DEF SocketStates
        <4>4. sock' = [sock EXCEPT ![c] = [sock[c] EXCEPT !.message = Head(rest)]]
              /\ UNCHANGED <<waiters, delayed>>
          BY <2>1, <3>2
        <4> QED
          BY <1>a, <2>1, <4>3, <4>4
      <3> QED
        BY <3>1, <3>2
    <2>7. SocketsIssued'
      BY <2>1, <2>6 DEF SocketsIssued, Registered, registryVars, vars
    <2> QED
      BY <1>a, <1>b, <2>1, <2>4, <2>5, <2>6, <2>7 DEF database
  <1>12. ASSUME NEW c \in Conns, SocketFails(c) PROVE RelayTypeOK' /\ SocketsIssued'
    <2>1. /\ sock[c].pc = "writing"
          /\ sock' = [sock EXCEPT ![c] = At("done")]
          /\ UNCHANGED <<registryVars, peer_open, login, sent, database, queue, waiters,
                         delayed, inbox, crossed>>
      BY <1>12 DEF SocketFails
    <2>2. At("done") \in SocketStates
      BY DEF At, SocketStates
    <2>3. SocketsIssued'
      BY <1>a, <2>1 DEF SocketsIssued, Registered, registryVars, vars
    <2> QED
      BY <1>a, <1>b, <2>1, <2>2, <2>3 DEF database
  <1>13. ASSUME NEW c \in Conns, ChannelDestroyed(c) PROVE RelayTypeOK' /\ SocketsIssued'
    <2>1. /\ sock' = IF sock[c].pc = "waiting" THEN [sock EXCEPT ![c] = At("done")] ELSE sock
          /\ waiters' = [waiters EXCEPT ![c] = <<>>]
          /\ \/ UNCHANGED delayed
             \/ delayed' = [delayed EXCEPT ![c] = LeftLoop(@)]
          /\ UNCHANGED <<registryVars, peer_open, login, sent, database, queue, inbox, crossed>>
      BY <1>13 DEF ChannelDestroyed
    <2>2. At("done") \in SocketStates
      BY DEF At, SocketStates
    <2>3. LeftLoop(delayed[c]) \in DelayedStates
      <3>1. delayed[c] \in DelayedStates
        BY <1>a
      <3> QED
        BY <3>1 DEF LeftLoop, Batch, DelayedStates
    <2>4. SocketsIssued'
      BY <1>a, <2>1 DEF SocketsIssued, Registered, registryVars, vars
    <2>5. waiters' \in [Conns -> Seq(Senders)]
      BY <1>a, <2>1
    <2>6. delayed' \in [Conns -> DelayedStates]
      BY <1>a, <2>1, <2>3
    <2>7. sock' \in [Conns -> SocketStates]
      BY <1>a, <2>1, <2>2
    <2> QED
      BY <1>a, <1>b, <2>1, <2>4, <2>5, <2>6, <2>7 DEF database
  <1>14. ASSUME NEW c \in Conns, SendDelayed(c) PROVE RelayTypeOK' /\ SocketsIssued'
    <2>1. PICK row \in delayed[c].todo :
              /\ add_message_to_queue(c, row.message, DelayedSender)
              /\ delayed' = [delayed EXCEPT ![c] =
                    IF sock[c].pc = "waiting"
                    THEN Handed(Batch("sending", row.id, delayed[c].todo \ {row}, delayed[c].handed))
                    ELSE Batch("sending", row.id, delayed[c].todo \ {row}, delayed[c].handed)]
      BY <1>14, SendsToOwn
    <2>2. UNCHANGED <<registryVars, peer_open, login, sent, database, inbox, crossed>>
      BY <1>14 DEF SendDelayed
    <2>3. delayed[c] \in DelayedStates
      BY <1>a
    <2>4. row \in Row /\ row.id \in Nat /\ row.message \in Messages
      BY <2>1, <2>3 DEF DelayedStates, Row
    <2>5. Queues' /\ sock' \in [Conns -> SocketStates]
          /\ \A d \in Conns : sock'[d].pc = "none" <=> sock[d].pc = "none"
      BY <2>1, <2>4, AddMessageType DEF Senders
    <2> DEFINE taken == Batch("sending", row.id, delayed[c].todo \ {row}, delayed[c].handed)
    <2>6. taken \in DelayedStates /\ Handed(taken) \in DelayedStates
      BY <2>3, <2>4 DEF Batch, Handed, DelayedStates
    <2>7. \/ delayed' = [delayed EXCEPT ![c] = taken]
          \/ delayed' = [delayed EXCEPT ![c] = Handed(taken)]
      BY <2>1
    <2> HIDE DEF taken
    <2>8. Coroutines'
      BY <1>a, <2>5, <2>6, <2>7, ZenonT(40)
    <2>9. SocketsIssued'
      BY <2>2, <2>5 DEF SocketsIssued, Registered, registryVars, vars
    <2> QED
      BY <1>a, <1>b, <2>2, <2>5, <2>8, <2>9 DEF database
  <1>15. ASSUME NEW c \in Conns, FinishDelayed(c) PROVE RelayTypeOK' /\ SocketsIssued'
    <2> DEFINE d == delayed[c]
    <2>1. UNCHANGED <<registryVars, peer_open, login, sent, queue, waiters, sock, inbox, crossed>>
      BY <1>15 DEF FinishDelayed
    <2>2. \/ delayed' = [delayed EXCEPT ![c] = Delayed("done")] /\ UNCHANGED database
          \/ /\ delayed' = [delayed EXCEPT ![c] = Batch("deleting", d.row, {}, d.handed)]
             /\ Submit(Statement("delete", c, NoKey, d.handed))
      BY <1>15 DEF FinishDelayed
    <2>3. d \in DelayedStates
      BY <1>a
    <2>4. d.handed \in SUBSET Nat /\ Batch("deleting", d.row, {}, d.handed) \in DelayedStates
      BY <2>3 DEF DelayedStates, Batch
    <2> HIDE DEF d
    <2>5. delayed' \in [Conns -> DelayedStates]
      BY <1>a, <1>d, <2>2, <2>4
    <2>6. Queued' /\ UNCHANGED <<loop_ended, users, stored, last_id>>
      BY <1>a, <1>e, <1>g, <2>2, <2>4 DEF database
    <2> QED
      BY <1>a, <1>b, <1>c, <2>1, <2>5, <2>6 DEF registryVars, vars
  <1> DEFINE s == Head(statements)
  <1>i. ASSUME NEW op, Executes(op)
        PROVE  /\ s \in Statements /\ s.op = op
               /\ Queued'
               /\ UNCHANGED <<loop_ended, registryVars, peer_open, sent, queue, waiters, sock,
                              inbox, crossed>>
    BY <1>i, ExecutesType DEF Executes
  <1>j. ASSUME UNCHANGED <<registryVars, sock>> PROVE SocketsIssued' /\ TypeOK'
    BY <1>j, <1>c DEF registryVars, vars
  <1> HIDE DEF s
  <1>16. ASSUME InsertUser PROVE RelayTypeOK' /\ SocketsIssued'
    <2>1. /\ Executes("insert_user")
          /\ login' = [login EXCEPT ![s.conn] = IF s.key \in users THEN "known" ELSE "added"]
          /\ users' = users \cup {s.key}
          /\ UNCHANGED <<stored, last_id, delayed>>
      BY <1>16 DEF InsertUser, s
    <2>2. s.conn \in Conns /\ s.key \in Keys
      <3>1. s \in Statements /\ s.op = "insert_user"
        BY <1>i, <2>1
      <3> QED
        BY <3>1 DEF Statements
    <2> QED
      BY <1>a, <1>b, <1>i, <1>j, <2>1, <2>2
  <1>17. ASSUME SelectUser PROVE RelayTypeOK' /\ SocketsIssued'
    <2>1. /\ Executes("select_user")
          /\ login' = [login EXCEPT ![s.conn] = "added"]
          /\ UNCHANGED <<users, stored, last_id, delayed>>
      BY <1>17 DEF SelectUser, s
    <2> QED
      BY <1>a, <1>b, <1>i, <1>j, <2>1
  <1>18. ASSUME InsertMessage PROVE RelayTypeOK' /\ SocketsIssued'
    <2>1. /\ Executes("insert")
          /\ s.key \in users
          /\ stored' = stored \cup Rows(s)
          /\ last_id' = last_id + 1
          /\ UNCHANGED <<users, login, delayed>>
      BY <1>18 DEF InsertMessage, s
    <2>2. s.args \subseteq Messages
      <3>1. s \in Statements /\ s.op = "insert"
        BY <1>i, <2>1
      <3> QED
        BY <3>1 DEF Statements
    <2>3. Rows(s) \subseteq Row
      BY <1>a, <2>1, <2>2 DEF Rows, Row
    <2> QED
      BY <1>a, <1>b, <1>i, <1>j, <2>1, <2>3
  <1>19. ASSUME SelectMessages PROVE RelayTypeOK' /\ SocketsIssued'
    <2> DEFINE fetched == Batch("ready", 0, {row \in stored : row.key = s.key}, {})
    <2>1. /\ Executes("select")
          /\ delayed' = [delayed EXCEPT ![s.conn] = fetched]
          /\ UNCHANGED <<users, stored, last_id, login>>
      BY <1>19 DEF SelectMessages, s
    <2>2. fetched \in DelayedStates
      BY <1>a DEF Batch, DelayedStates
    <2> HIDE DEF fetched
    <2>3. delayed' \in [Conns -> DelayedStates]
      BY <1>a, <2>1, <2>2
    <2> QED
      BY <1>a, <1>b, <1>i, <1>j, <2>1, <2>3
  <1>20. ASSUME DeleteMessages PROVE RelayTypeOK' /\ SocketsIssued'
    <2>1. /\ Executes("delete")
          /\ stored' = {row \in stored : row.id \notin s.args}
          /\ delayed' = [delayed EXCEPT ![s.conn] = Delayed("done")]
          /\ UNCHANGED <<users, last_id, login>>
      BY <1>20 DEF DeleteMessages, s
    <2>2. delayed' \in [Conns -> DelayedStates]
      BY <1>a, <1>d, <2>1
    <2> QED
      BY <1>a, <1>b, <1>i, <1>j, <2>1, <2>2
  <1>21. ASSUME StatementFails PROVE RelayTypeOK' /\ SocketsIssued'
    <2>1. /\ loop_ended' = TRUE
          /\ UNCHANGED <<registryVars, peer_open, login, sent, statements, users, stored,
                         last_id, delivery>>
      BY <1>21 DEF StatementFails
    <2>2. UNCHANGED <<queue, waiters, sock, delayed, inbox, crossed>>
      BY <2>1 DEF delivery
    <2> QED
      BY <1>a, <1>b, <1>j, <2>1, <2>2
  <1> QED
    BY <1>1, <1>2, <1>3, <1>4, <1>5, <1>6, <1>7, <1>8, <1>9, <1>10, <1>11, <1>12, <1>13,
       <1>14, <1>15, <1>16, <1>17, <1>18, <1>19, <1>20, <1>21, RelayAssumption
    DEF RelayNext, PeerStep, ConnectionStep, SocketStep, DelayedStep, DatabaseStep

\* One step keeps everything the types rest on.
LEMMA TypesStep == TypesInv /\ [RelayNext]_relayVars => TypesInv'
  <1> SUFFICES ASSUME TypesInv, [RelayNext]_relayVars PROVE TypesInv'
    OBVIOUS
  <1>1. RegistryInv /\ [Next]_vars
    BY RegistryStep DEF TypesInv
  <1>2. RegistryInv'
    BY <1>1, TypeStep, HandlesStep, OwnersStep, ReachableStep DEF RegistryInv, Handles
  <1>3. EntriesIssued'
    BY <1>1, EntriesStep DEF TypesInv, RegistryInv, Handles
  <1>4. CASE RelayNext
    BY <1>2, <1>3, <1>4, RelayTypeStep DEF TypesInv
  <1>5. CASE UNCHANGED relayVars
    BY <1>2, <1>3, <1>5
    DEF TypesInv, RelayTypeOK, RegistryInv, SocketsIssued, Registered, relayVars, registryVars,
        vars, database, delivery
  <1> QED
    BY <1>4, <1>5

LEMMA InitTypes == RelayInit => TypesInv
  <1> SUFFICES ASSUME RelayInit PROVE TypesInv
    OBVIOUS
  <1>1. RegistryInv
    BY InitInv DEF RelayInit
  <1>2. EntriesIssued /\ SocketsIssued
    BY DEF RelayInit, Init, EntriesIssued, SocketsIssued, At
  <1>3. At("none") \in SocketStates /\ Delayed("none") \in DelayedStates
    BY DEF At, Delayed, Batch, SocketStates, DelayedStates
  <1>4. RelayTypeOK
    <2>1. sock \in [Conns -> SocketStates] /\ delayed \in [Conns -> DelayedStates]
      BY <1>3 DEF RelayInit
    <2>2. /\ queue \in [Conns -> Seq(Messages)]
          /\ waiters \in [Conns -> Seq(Senders)]
          /\ inbox \in [Conns -> Seq(Messages)]
      BY DEF RelayInit
    <2>3. sent = <<>> /\ Len(sent) <= MaxMessages /\ statements = <<>>
      BY RelayAssumption DEF RelayInit
    <2>4. /\ peer_open \in [Conns -> BOOLEAN]
          /\ login \in [Conns -> {"none", "asked", "known", "added"}]
          /\ loop_ended \in BOOLEAN
          /\ users \subseteq Keys /\ stored \subseteq Row
          /\ last_id \in Nat /\ crossed \in BOOLEAN
      BY DEF RelayInit
    <2> QED
      BY <1>1, <2>1, <2>2, <2>3, <2>4 DEF RelayTypeOK, RegistryInv
  <1> QED
    BY <1>1, <1>2, <1>4 DEF TypesInv

LEMMA TypesHold == RelaySpec => []TypesInv
  BY InitTypes, TypesStep, PTL DEF RelaySpec

\* The state of the message path has its type for any number of connections, keys
\* and messages: a socket coroutine finds a client or an empty slot behind its
\* index (server.cpp:224), never an index out of bounds.
THEOREM RelayTypes == RelaySpec => []RelayTypeOK
  <1>1. TypesInv => RelayTypeOK
    BY DEF TypesInv
  <1> QED
    BY <1>1, TypesHold, PTL

=============================================================================
