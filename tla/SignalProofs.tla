---------------------------- MODULE SignalProofs ----------------------------
(***************************************************************************)
(* That no message waits for a signal that will not come, and that only a  *)
(* coroutine whose own connection has ended serves another's client, both  *)
(* unless a login was aborted.  The invariant adds to the two properties   *)
(* that nothing is queued for a connection before it has a slot.           *)
(***************************************************************************)
EXTENDS DeliveryProofs

\* Nothing is queued for, or suspended on, a connection without a slot.
UnregisteredIdle ==
    \A c \in Conns : ~Registered(c) => queue[c] = <<>> /\ waiters[c] = <<>>

SignalInv == TypesInv /\ UnregisteredIdle /\ OwnQueueWhileOnline /\ NoMissedSignal

-----------------------------------------------------------------------------
(* Slots and the coroutines that use them                                   *)

\* A client that is found behind an index has been given it.
LEMMA OccupantRegistered ==
    ASSUME TypesInv, NEW i \in Indices(sv), Object(sv, i) # NoClient
    PROVE  Object(sv, i) \in Conns /\ Registered(Object(sv, i))
<1>1. TypeOK /\ OccupantsIssued
  BY DEF TypesInv, RegistryInv, Handles
<1>2. Object(sv, i) \in Conns /\ Generation(sv, i) >= 1
  BY <1>1 DEF TypeOK, IsSlotVector, Object, Generation, Indices, sv
<1>3. indices[Object(sv, i)] = [index |-> i, generation |-> Generation(sv, i)]
  BY <1>1 DEF OccupantsIssued, Empty
<1>. QED
  BY <1>2, <1>3 DEF Registered

\* The recipient of a relayed message has a slot.
LEMMA RecipientRegistered ==
    ASSUME TypesInv, NEW k \in Keys, Recipient(k) # NoClient
    PROVE  Recipient(k) \in Conns /\ Registered(Recipient(k))
<1>1. k \in DOMAIN client_indices /\ Recipient(k) = Object(sv, client_indices[k].index)
  BY DEF Recipient, sv
<1>2. client_indices[k].index \in Indices(sv)
  BY <1>1 DEF TypesInv, EntriesIssued
<1>. QED
  BY <1>1, <1>2, OccupantRegistered

\* A connection that a coroutine serves is online in its slot, or has ended.
LEMMA SlotOrEnded ==
    ASSUME TypesInv, NEW c \in Conns, Registered(c), "aborted_login" \notin anomalies
    PROVE  get_client(indices[c].index) = c \/ phase[c] = "ended"
<1>1. TypeOK /\ Fresh /\ IssuedBound /\ OnlineOwns
  BY DEF TypesInv, RegistryInv, Handles, Owners
<1>2. phase[c] \notin {"unused", "reading_key", "adding"}
  BY <1>1 DEF Fresh, DefaultIndex, Registered
<1>3. indices[c].index \in Indices(sv) /\ indices[c].index # invalid_index
  BY <1>1 DEF IssuedBound, Indices, invalid_index
<1>4. CASE phase[c] = "online"
  BY <1>1, <1>3, <1>4 DEF OnlineOwns, get_client, sv
<1>. QED
  BY <1>1, <1>2, <1>4 DEF TypeOK

\* What a step does to phases, slots and irregular logins as seen from one
\* connection: it ends once, and keeps its slot's handle.
LEMMA SessionsAdvance ==
    ASSUME TypesInv, RelayNext
    PROVE  /\ \A c \in Conns : phase[c] = "ended" => phase'[c] = "ended"
           /\ \A c \in Conns : Registered(c) => Registered(c)'
           /\ \A c \in Conns : phase'[c] = "online" =>
                  phase[c] = "online" \/ phase[c] \in {"reading_key", "adding"}
           /\ anomalies \subseteq anomalies'
<1>1. TypeOK /\ Fresh /\ [Next]_vars
  BY RegistryStep DEF TypesInv, RegistryInv, Handles
<1>2. /\ \A c \in Conns : phase[c] = "ended" => phase'[c] = "ended"
      /\ \A c \in Conns : phase'[c] = "online" =>
             phase[c] = "online" \/ phase[c] \in {"reading_key", "adding"}
  BY <1>1 DEF Next, Accept, Login, Register, EndConnection, AbortLogin, vars, TypeOK
<1>3. \A c \in Conns : Registered(c) => Registered(c)'
  <2>1. \A c \in Conns : phase[c] \in {"reading_key", "adding"} => ~Registered(c)
    BY <1>1 DEF Fresh, DefaultIndex, Registered
  <2>. QED
    BY <1>1, <2>1
    DEF Next, Accept, Login, Register, EndConnection, AbortLogin, vars, TypeOK, Registered
<1>4. anomalies \subseteq anomalies'
  BY ContextGrows
<1>. QED
  BY <1>2, <1>3, <1>4

-----------------------------------------------------------------------------
(* The parts in turn                                                        *)

LEMMA OwnQueueStep ==
    ASSUME SignalInv, RelayNext
    PROVE  OwnQueueWhileOnline'
<1>. SUFFICES ASSUME "aborted_login" \notin anomalies', NEW c \in Conns,
                     sock'[c].pc = "writing", sock'[c].target # c
              PROVE  phase'[c] = "ended"
  BY DEF OwnQueueWhileOnline
<1>1. TypesInv /\ RelayTypeOK /\ "aborted_login" \notin anomalies
  BY SessionsAdvance DEF SignalInv, TypesInv
<1>2. sock \in [Conns -> SocketStates]
  BY <1>1 DEF RelayTypeOK
<1>3. phase[c] = "ended" => phase'[c] = "ended"
  BY <1>1, SessionsAdvance
<1>4. CASE sock[c].pc = "writing" /\ sock[c].target # c
  BY <1>1, <1>3, <1>4 DEF SignalInv, OwnQueueWhileOnline
<1>5. CASE SocketWakes(c) /\ ~(sock[c].pc = "writing" /\ sock[c].target # c)
  <2>1. sock[c].pc = "ready" /\ ~AwaitSignal(c)
    <3>1. AwaitSignal(c) => sock'[c].pc # "writing"
      BY <1>2 DEF AwaitSignal, At
    <3>. QED
      BY <1>5, <3>1 DEF SocketWakes
  <2>2. sock'[c].target = get_client(indices[c].index)
    BY <1>2, <1>5, <2>1 DEF SocketWakes
  <2>3. Registered(c)
    BY <1>1, <2>1 DEF TypesInv, SocketsIssued
  <2>. QED
    BY <1>1, <1>3, <2>2, <2>3, SlotOrEnded
<1>6. CASE SocketWrites(c) /\ ~(sock[c].pc = "writing" /\ sock[c].target # c)
  <2>1. ~AwaitSignal(c)
    BY <1>2 DEF AwaitSignal, At
  <2>2. PICK m : sock' = [sock EXCEPT ![c].message = m]
    BY <1>6, <2>1 DEF SocketWrites
  <2>3. sock'[c].target = sock[c].target
    BY <1>2, <2>2 DEF SocketStates
  <2>. QED
    BY <1>6, <2>3 DEF SocketWrites
<1>. QED
  BY <1>1, <1>4, <1>5, <1>6, WriterChanges

\* What a step does to the queue, the channel and the coroutine of one connection.
LEMMA PartChanges ==
    ASSUME TypesInv, RelayNext, NEW c \in Conns
    PROVE  \/ queue'[c] = queue[c] /\ waiters'[c] = waiters[c] /\ sock'[c] = sock[c]
           \/ RegisterClient(c) /\ UNCHANGED <<queue, waiters>> /\ sock'[c] = At("waiting")
           \/ Registered(c) /\ \E m \in Messages, who \in Senders : add_message_to_queue(c, m, who)
           \/ SocketWakes(c)
           \/ \E d \in Conns : SocketWrites(d) /\ (d = c \/ sock[d].target = c)
           \/ SocketFails(c)
           \/ ChannelDestroyed(c)
<1>. DEFINE Same == queue'[c] = queue[c] /\ waiters'[c] = waiters[c] /\ sock'[c] = sock[c]
<1>1. /\ queue \in [Conns -> Seq(Messages)]
      /\ waiters \in [Conns -> Seq(Senders)]
      /\ sock \in [Conns -> SocketStates]
  BY DEF TypesInv, RelayTypeOK
<1>2. ASSUME NEW o \in Conns \ {c}, NEW m, NEW who, add_message_to_queue(o, m, who)
      PROVE  Same
  BY <1>1, <1>2 DEF add_message_to_queue, add_message, async_send
<1>3. ASSUME NEW d \in Conns \ {c}, AwaitSignal(d)
      PROVE  waiters'[c] = waiters[c] /\ sock'[c] = sock[c]
  BY <1>1, <1>3 DEF AwaitSignal
<1>4. ASSUME NEW d \in Conns, PeerStep(d) \/ ConnectionStep(d)
      PROVE  \/ Same
             \/ RegisterClient(c) /\ UNCHANGED <<queue, waiters>> /\ sock'[c] = At("waiting")
             \/ Registered(c)
                /\ \E m \in Messages, who \in Senders : add_message_to_queue(c, m, who)
  <2>1. CASE RegisterClient(d)
    BY <1>1, <2>1 DEF RegisterClient
  <2>2. ASSUME NEW k \in Recipients[d], RelayMessage(d, k)
        PROVE  \/ Same
               \/ Registered(c)
                  /\ \E m \in Messages, who \in Senders : add_message_to_queue(c, m, who)
    <3>1. k \in Keys
      BY RelayAssumption
    <3>2. PICK o \in Conns : o = Recipient(k) /\ Registered(o)
      BY <2>2, <3>1, RecipientRegistered DEF RelayMessage
    <3>3. PICK m : m = Len(sent) + 1
      OBVIOUS
    <3>4. m \in Messages /\ d \in Senders
      BY <2>2, <3>3, RelayAssumption DEF RelayMessage, Messages, Senders, TypesInv, RelayTypeOK
    <3>5. add_message_to_queue(o, m, d)
      BY <2>2, <3>2, <3>3 DEF RelayMessage
    <3>. QED
      BY <1>2, <3>2, <3>4, <3>5
  <2>. QED
    BY <1>4, <2>1, <2>2
    DEF PeerStep, ConnectionStep, AcceptConnection, PeerCloses, LoginWithKey, LoginAborted,
        StoreMessage, SelectExistingUser, End, delivery
<1>5. ASSUME NEW d \in Conns, SocketStep(d)
      PROVE  \/ Same
             \/ SocketWakes(c)
             \/ \E e \in Conns : SocketWrites(e) /\ (e = c \/ sock[e].target = c)
             \/ SocketFails(c)
             \/ ChannelDestroyed(c)
  <2>1. CASE SocketWakes(d) /\ d # c
    BY <1>1, <1>3, <2>1 DEF SocketWakes
  <2>2. CASE SocketWrites(d) /\ d # c /\ sock[d].target # c
    BY <1>1, <1>3, <2>2 DEF SocketWrites
  <2>3. CASE (SocketFails(d) \/ ChannelDestroyed(d)) /\ d # c
    BY <1>1, <2>3 DEF SocketFails, ChannelDestroyed
  <2>. QED
    BY <1>5, <2>1, <2>2, <2>3 DEF SocketStep
<1>6. ASSUME NEW d \in Conns, DelayedStep(d)
      PROVE  \/ Same
             \/ Registered(c)
                /\ \E m \in Messages, who \in Senders : add_message_to_queue(c, m, who)
  <2>1. CASE FinishDelayed(d)
    BY <2>1 DEF FinishDelayed
  <2>2. CASE SendDelayed(d)
    <3>1. PICK row \in delayed[d].todo : add_message_to_queue(d, row.message, DelayedSender)
      BY <2>2, SendsToOwn DEF TypesInv
    <3>2. row.message \in Messages /\ DelayedSender \in Senders
      BY <3>1 DEF TypesInv, RelayTypeOK, DelayedStates, Row, Senders
    <3>3. Registered(d)
      <4>1. indices[d].index \in Indices(sv) /\ indices[d].generation = Generation(sv, indices[d].index)
        BY <2>2 DEF SendDelayed, Resolves, sv
      <4>. QED
        BY <4>1 DEF TypesInv, RegistryInv, TypeOK, IsSlotVector, Generation, Indices, sv, Registered
    <3>. QED
      BY <1>2, <3>1, <3>2, <3>3
  <2>. QED
    BY <1>6, <2>1, <2>2 DEF DelayedStep
<1>7. ASSUME DatabaseStep PROVE Same
  BY <1>7
  DEF DatabaseStep, InsertUser, SelectUser, InsertMessage, SelectMessages, DeleteMessages,
      StatementFails, Executes, delivery
<1>. QED
  BY <1>4, <1>5, <1>6, <1>7 DEF RelayNext

LEMMA UnregisteredStep ==
    ASSUME SignalInv, RelayNext
    PROVE  UnregisteredIdle'
<1>. SUFFICES ASSUME NEW c \in Conns, ~Registered(c)'
              PROVE  queue'[c] = <<>> /\ waiters'[c] = <<>>
  BY DEF UnregisteredIdle
<1>1. TypesInv /\ ~Registered(c) /\ queue[c] = <<>> /\ waiters[c] = <<>>
  BY SessionsAdvance DEF SignalInv, UnregisteredIdle
<1>2. sock[c].pc = "none"
  BY <1>1 DEF TypesInv, SocketsIssued
<1>3. /\ queue \in [Conns -> Seq(Messages)]
      /\ waiters \in [Conns -> Seq(Senders)]
  BY <1>1 DEF TypesInv, RelayTypeOK
<1>4. ASSUME NEW d \in Conns, SocketWrites(d), d = c \/ sock[d].target = c
      PROVE  queue'[c] = <<>> /\ waiters'[c] = <<>>
  <2>1. d # c
    BY <1>2, <1>4 DEF SocketWrites
  <2>2. queue'[c] = <<>>
    BY <1>1, <1>3, <1>4, <2>1 DEF SocketWrites
  <2>3. waiters'[c] = waiters[c]
    BY <1>3, <1>4, <2>1 DEF SocketWrites, AwaitSignal
  <2>. QED
    BY <1>1, <2>2, <2>3
<1>5. CASE ChannelDestroyed(c)
  BY <1>1, <1>2, <1>5 DEF ChannelDestroyed
<1>. QED
  BY <1>1, <1>2, <1>4, <1>5, PartChanges DEF SocketWakes, SocketFails

LEMMA NoMissedSignalStep ==
    ASSUME SignalInv, RelayNext
    PROVE  NoMissedSignal'
<1>. SUFFICES ASSUME "aborted_login" \notin anomalies', NEW c \in Conns,
                     phase'[c] = "online", sock'[c].pc = "waiting"
              PROVE  queue'[c] = <<>> /\ waiters'[c] = <<>>
  BY DEF NoMissedSignal
<1>1. TypesInv /\ "aborted_login" \notin anomalies /\ phase[c] # "ended"
  BY SessionsAdvance DEF SignalInv
<1>2. /\ queue \in [Conns -> Seq(Messages)]
      /\ waiters \in [Conns -> Seq(Senders)]
      /\ sock \in [Conns -> SocketStates]
  BY <1>1 DEF TypesInv, RelayTypeOK
<1>3. phase[c] = "online" \/ ~Registered(c)
  <2>1. phase[c] = "online" \/ phase[c] \in {"reading_key", "adding"}
    BY <1>1, SessionsAdvance
  <2>. QED
    BY <1>1, <2>1 DEF TypesInv, RegistryInv, Handles, Fresh, DefaultIndex, Registered
<1>4. sock[c].pc = "waiting" => queue[c] = <<>> /\ waiters[c] = <<>>
  BY <1>1, <1>3 DEF SignalInv, NoMissedSignal, UnregisteredIdle
<1>5. CASE queue'[c] = queue[c] /\ waiters'[c] = waiters[c] /\ sock'[c] = sock[c]
  BY <1>4, <1>5
<1>6. CASE RegisterClient(c) /\ UNCHANGED <<queue, waiters>>
  <2>1. ~Registered(c)
    BY <1>1, <1>6
    DEF RegisterClient, Register, TypesInv, RegistryInv, Handles, Fresh, DefaultIndex, Registered
  <2>. QED
    BY <1>6, <2>1 DEF SignalInv, UnregisteredIdle
<1>7. ASSUME NEW m, NEW who, add_message_to_queue(c, m, who) PROVE FALSE
  BY <1>2, <1>7 DEF add_message_to_queue, async_send, At
<1>8. ASSUME AwaitSignal(c) PROVE waiters'[c] = <<>>
  BY <1>1, <1>2, <1>8 DEF AwaitSignal, At
<1>9. CASE SocketWakes(c)
  <2>1. get_client(indices[c].index) = c
    <3>1. Registered(c)
      BY <1>1, <1>9 DEF SocketWakes, TypesInv, SocketsIssued
    <3>. QED
      BY <1>1, <3>1, SlotOrEnded
  <2>2. queue[c] = <<>> /\ AwaitSignal(c) /\ queue' = queue
    BY <1>1, <1>2, <1>9, <2>1, RegistryAssumption DEF SocketWakes
  <2>. QED
    BY <1>8, <2>2
<1>10. ASSUME NEW d \in Conns, SocketWrites(d), d = c \/ sock[d].target = c
       PROVE  queue'[c] = <<>> /\ waiters'[c] = <<>>
  <2>1. CASE d # c
    <3>1. waiters'[c] = waiters[c] /\ sock'[c] = sock[c]
      BY <1>2, <1>10, <2>1 DEF SocketWrites, AwaitSignal
    <3>2. queue[c] = <<>> /\ waiters[c] = <<>>
      BY <1>4, <3>1
    <3>3. queue'[c] = <<>>
      BY <1>2, <1>10, <2>1, <3>2 DEF SocketWrites
    <3>. QED
      BY <3>1, <3>2, <3>3
  <2>2. CASE d = c
    <3>1. sock[c].pc = "writing" /\ sock[c].target = c
      BY <1>1, <1>10, <2>2 DEF SocketWrites, SignalInv, OwnQueueWhileOnline
    <3>. DEFINE rest == IF queue[c] = <<>> THEN <<>> ELSE Tail(queue[c])
    <3>2. /\ queue' = [queue EXCEPT ![c] = rest]
          /\ rest = <<>> => AwaitSignal(c)
          /\ rest # <<>> => sock' = [sock EXCEPT ![c].message = Head(rest)]
      BY <1>10, <2>2, <3>1 DEF SocketWrites
    <3>. HIDE DEF rest
    <3>3. rest = <<>>
      <4>1. rest # <<>> => sock'[c] = [sock[c] EXCEPT !.message = Head(rest)]
        BY <1>2, <3>2
      <4>2. rest # <<>> => sock'[c].pc = "writing"
        BY <1>2, <3>1, <4>1 DEF SocketStates
      <4>. QED
        BY <4>2
    <3>. QED
      BY <1>2, <1>8, <3>2, <3>3
  <2>. QED
    BY <2>1, <2>2
<1>11. CASE SocketFails(c)
  BY <1>2, <1>11 DEF SocketFails, At
<1>12. CASE ChannelDestroyed(c)
  BY <1>1, <1>12 DEF ChannelDestroyed
<1>. QED
  BY <1>1, <1>5, <1>6, <1>7, <1>9, <1>10, <1>11, <1>12, PartChanges

-----------------------------------------------------------------------------
(* The invariant                                                            *)

LEMMA SignalsInStep == SignalInv /\ [RelayNext]_relayVars => SignalInv'
<1>. SUFFICES ASSUME SignalInv, [RelayNext]_relayVars PROVE SignalInv'
  OBVIOUS
<1>1. TypesInv'
  BY TypesStep DEF SignalInv
<1>2. CASE RelayNext
  BY <1>1, <1>2, OwnQueueStep, UnregisteredStep, NoMissedSignalStep DEF SignalInv
<1>3. CASE UNCHANGED relayVars
  BY <1>1, <1>3
  DEF SignalInv, UnregisteredIdle, OwnQueueWhileOnline, NoMissedSignal, Registered, relayVars,
      registryVars, vars, delivery
<1>. QED
  BY <1>2, <1>3

LEMMA SignalsAtInit == RelayInit => SignalInv
<1>. SUFFICES ASSUME RelayInit PROVE SignalInv
  OBVIOUS
<1>1. \A c \in Conns : queue[c] = <<>> /\ waiters[c] = <<>> /\ sock[c].pc = "none"
  BY DEF RelayInit, At
<1>. QED
  BY <1>1, InitTypes DEF SignalInv, UnregisteredIdle, OwnQueueWhileOnline, NoMissedSignal

LEMMA SignalsAlways == RelaySpec => []SignalInv
  BY SignalsAtInit, SignalsInStep, PTL DEF RelaySpec

\* Unless a login was aborted, an online client whose coroutine waits for a signal
\* has nothing queued and nobody suspended: for any number of clients and messages
\* no signal is lost (server.cpp:80-85, 220-251).
THEOREM NoSignalIsMissed == RelaySpec => []NoMissedSignal
<1>1. SignalInv => NoMissedSignal
  BY DEF SignalInv
<1>. QED
  BY <1>1, SignalsAlways, PTL

\* Unless a login was aborted, only the coroutine of a connection that has ended
\* writes another client's messages (server.cpp:223-251).
THEOREM OwnQueueIsServed == RelaySpec => []OwnQueueWhileOnline
<1>1. SignalInv => OwnQueueWhileOnline
  BY DEF SignalInv
<1>. QED
  BY <1>1, SignalsAlways, PTL

=============================================================================
