-------------------------------- MODULE Relay --------------------------------
(***************************************************************************)
(* The whole message path: a connection's receive loop, the registry, the  *)
(* queue and signal channel of each client, the socket coroutine that      *)
(* writes to the recipient, the delayed-message coroutine, and the         *)
(* database behind its statement queue (a SerialExecutor, as RequestQueue  *)
(* shows).                                                                 *)
(*                                                                         *)
(* An action is what one coroutine does between two suspensions, or one    *)
(* step of a peer or of the database.  A client object is named by its     *)
(* connection, a row of mydak_users by its key (NoKey: an id of no row), a *)
(* message by its place in sent.                                           *)
(***************************************************************************)
EXTENDS Registry, SequencesExt

CONSTANTS MaxMessages,      \* bound on the messages that peers send
          DelayedSender,    \* a send_delayed_messages coroutine, among senders
          LoginKeys,        \* the keys that a connection may log in with
          Recipients,       \* the keys that it may send messages to
          Faults            \* what may go wrong around the server

ASSUME RelayAssumption ==
    /\ MaxMessages \in Nat
    /\ LoginKeys \in [Conns -> SUBSET Keys] /\ Recipients \in [Conns -> SUBSET Keys]
    /\ DelayedSender \notin Conns \cup {NoClient}
    /\ Faults \subseteq {"aborted_login", "shared_key", "bad_frame", "write_error",
                         "unknown_recipient", "lookup_refused", "statement_error"}

VARIABLES
    peer_open,      \* whether the peer has its end of the socket open
    login,          \* the answer to add_user of a connection in add_client
    sent,           \* history: the messages in the order they were received
    queue,          \* client_data::messages of each client
    waiters,        \* who is suspended in async_send on each signal_channel
    sock,           \* each socket_coroutine
    delayed,        \* each send_delayed_messages
    statements,     \* the statement queue, oldest first
    loop_ended,     \* async_execute_queued_loop is gone
    users,          \* mydak_users
    stored,         \* mydak_messages
    last_id,        \* its AUTO_INCREMENT
    inbox,          \* history: what was written to each socket
    crossed         \* history: a socket coroutine served a client not its own

registryVars == vars
database == <<statements, loop_ended, users, stored, last_id>>
delivery == <<queue, waiters, sock, delayed, inbox, crossed>>
relayVars == <<registryVars, peer_open, login, sent, database, delivery>>

Messages == 1 .. MaxMessages

Row == [id : Nat, key : Keys, message : Messages]

\* A statement with the connection to which its result matters, its user, and
\* the message of an INSERT or the ids of a DELETE.
Statements ==
    [op : {"insert_user"}, conn : Conns, key : Keys, args : {{}}]
    \cup [op : {"select_user", "select", "delete"}, conn : Conns, key : Keys \cup {NoKey},
          args : SUBSET Nat]
    \cup [op : {"insert"}, conn : {NoClient}, key : Keys \cup {NoKey},
          args : {{m} : m \in Messages}]

Senders == Conns \cup {DelayedSender}

\* What a socket_coroutine and a send_delayed_messages are doing.
SocketStates ==
    [pc : {"none", "waiting", "ready", "done", "undefined"},
     target : {NoClient}, message : {0}]
    \cup [pc : {"writing"}, target : Conns, message : Messages]
DelayedStates ==
    [pc : {"none", "query", "ready", "sending", "deleting", "done"},
     row : Nat, todo : SUBSET Row, handed : SUBSET Nat]

RelayTypeOK ==
    /\ TypeOK
    /\ peer_open \in [Conns -> BOOLEAN]
    /\ login \in [Conns -> {"none", "asked", "known", "added"}]
    /\ sent \in Seq([from : Conns, to : Keys, via : Conns \cup {NoClient}])
    /\ Len(sent) <= MaxMessages
    /\ queue \in [Conns -> Seq(Messages)]
    /\ waiters \in [Conns -> Seq(Senders)]
    /\ sock \in [Conns -> SocketStates]
    /\ delayed \in [Conns -> DelayedStates]
    /\ statements \in Seq(Statements)
    /\ loop_ended \in BOOLEAN
    /\ users \subseteq Keys
    /\ stored \subseteq Row
    /\ last_id \in Nat
    /\ inbox \in [Conns -> Seq(Messages)]
    /\ crossed \in BOOLEAN

\* A socket coroutine between two writes; a send_delayed_messages with the row it
\* is sending, the rows still to send and the ids of those sent, or without any.
At(pc) == [pc |-> pc, target |-> NoClient, message |-> 0]
Batch(pc, row, todo, handed) == [pc |-> pc, row |-> row, todo |-> todo, handed |-> handed]
Delayed(pc) == Batch(pc, 0, {}, {})

RelayInit ==
    /\ Init
    /\ peer_open = [c \in Conns |-> TRUE]
    /\ login = [c \in Conns |-> "none"]
    /\ sent = <<>>
    /\ queue = [c \in Conns |-> <<>>]
    /\ waiters = [c \in Conns |-> <<>>]
    /\ sock = [c \in Conns |-> At("none")]
    /\ delayed = [c \in Conns |-> Delayed("none")]
    /\ statements = <<>>
    /\ loop_ended = FALSE
    /\ users = {}
    /\ stored = {}
    /\ last_id = 0
    /\ inbox = [c \in Conns |-> <<>>]
    /\ crossed = FALSE

-----------------------------------------------------------------------------
(* Submitting statements *)

Statement(op, c, k, args) == [op |-> op, conn |-> c, key |-> k, args |-> args]

\* A queue that serves the newest statement first.
SubmitFirst(s) ==
    statements' = <<s>> \o statements /\ UNCHANGED <<loop_ended, users, stored, last_id>>

Submit(s) ==
    statements' = Append(statements, s) /\ UNCHANGED <<loop_ended, users, stored, last_id>>

\* get_db_index: the row of a key, or 0 when there is none or the connection is
\* busy with a statement of the loop.
get_db_index(k) ==
    {IF k \in users THEN k ELSE NoKey}
    \cup (IF "lookup_refused" \in Faults /\ statements # <<>> THEN {NoKey} ELSE {})

-----------------------------------------------------------------------------
(* Connections *)

\* c is suspended in the async_send of add_message_to_queue.
Blocked(c) == \E o \in Conns : c \in ToSet(waiters[o])

AcceptConnection(c) ==
    /\ Accept(c)
    /\ UNCHANGED <<peer_open, login, sent, database, delivery>>

PeerCloses(c) ==
    /\ phase[c] \in {"adding", "online"}
    /\ peer_open[c]
    /\ peer_open' = [peer_open EXCEPT ![c] = FALSE]
    /\ UNCHANGED <<registryVars, login, sent, database, delivery>>

\* The key arrives.  For a new key add_user submits its INSERT IGNORE; for a
\* registered one start() goes straight on to send_delayed_messages, with the
\* db_index of client_index::empty(), which selects no row.
LoginWithKey(c, k) ==
    /\ "shared_key" \in Faults \/ Claims(k) = {}
    /\ Login(c, k)
    /\ IF phase'[c] = "adding"
       THEN /\ login' = [login EXCEPT ![c] = "asked"]
            /\ Submit(Statement("insert_user", c, k, {}))
            /\ UNCHANGED delayed
       ELSE /\ delayed' = [delayed EXCEPT ![c] = Delayed("query")]
            /\ Submit(Statement("select", c, NoKey, {}))
            /\ UNCHANGED login
    /\ UNCHANGED <<peer_open, sent, queue, waiters, sock, inbox, crossed>>

LoginAborted(c, k) ==
    /\ "aborted_login" \in Faults
    /\ AbortLogin(c, k)
    /\ UNCHANGED <<peer_open, login, sent, database, delivery>>

\* add_user finds that no row was inserted and selects the existing one.
SelectExistingUser(c) ==
    /\ login[c] = "known"
    /\ login' = [login EXCEPT ![c] = "asked"]
    /\ Submit(Statement("select_user", c, key[c], {}))
    /\ UNCHANGED <<registryVars, peer_open, sent, delivery>>

\* A login after which nobody fetches what was stored for the client.
RegisterClientWithoutDelayed(c) ==
    /\ login[c] = "added"
    /\ Register(c)
    /\ login' = [login EXCEPT ![c] = "none"]
    /\ sock' = [sock EXCEPT ![c] = At("waiting")]
    /\ UNCHANGED <<peer_open, sent, database, queue, waiters, delayed, inbox, crossed>>

\* add_client registers the client and spawns its socket coroutine, which waits
\* for a signal; start() spawns send_delayed_messages, which submits its SELECT.
RegisterClient(c) ==
    /\ login[c] = "added"
    /\ Register(c)
    /\ login' = [login EXCEPT ![c] = "none"]
    /\ sock' = [sock EXCEPT ![c] = At("waiting")]
    /\ delayed' = [delayed EXCEPT ![c] = Delayed("query")]
    /\ Submit(Statement("select", c, key[c], {}))
    /\ UNCHANGED <<peer_open, sent, queue, waiters, inbox, crossed>>

\* signal_channel->async_send by who on the channel of o: it completes at once
\* if the socket coroutine waits, else who is suspended.
async_send(o, who) ==
    IF sock[o].pc = "waiting"
    THEN sock' = [sock EXCEPT ![o] = At("ready")] /\ UNCHANGED waiters
    ELSE waiters' = [waiters EXCEPT ![o] = Append(@, who)] /\ UNCHANGED sock

\* client::add_message of o, which is active as long as it is in its slot.
add_message(o, m) == queue' = [queue EXCEPT ![o] = Append(@, m)]

\* Enqueueing without a signal, or in front of the older messages.
AddMessageUnsignalled(o, m, who) == add_message(o, m) /\ UNCHANGED <<waiters, sock>>
AddMessageInFront(o, m, who) ==
    queue' = [queue EXCEPT ![o] = <<m>> \o @] /\ async_send(o, who)

\* add_message_to_queue once the slot's checks are passed: the queue, then the
\* signal.
add_message_to_queue(o, m, who) ==
    /\ add_message(o, m)
    /\ async_send(o, who)

\* The client that get_client_index finds for a key: whoever holds the slot now.
Recipient(k) ==
    IF k \in DOMAIN client_indices
    THEN Object(clients_slot_vector, client_indices[k].index) ELSE NoClient

\* A message for a client that is online.
RelayMessage(c, k) ==
    LET o == Recipient(k)
    IN  /\ phase[c] = "online" /\ peer_open[c] /\ ~Blocked(c)
        /\ Len(sent) < MaxMessages
        /\ o # NoClient
        /\ sent' = Append(sent, [from |-> c, to |-> k, via |-> o])
        /\ add_message_to_queue(o, Len(sent) + 1, c)
        /\ UNCHANGED <<registryVars, peer_open, login, database, delayed, inbox, crossed>>

\* database::add_message is spawned with the user id that was found, good or not.
add_message_to_db(user, m) == Submit(Statement("insert", NoClient, user, {m}))

\* A message for a key that is not online, or whose slot is empty.
StoreMessage(c, k) ==
    /\ phase[c] = "online" /\ peer_open[c] /\ ~Blocked(c)
    /\ Len(sent) < MaxMessages
    /\ Recipient(k) = NoClient
    /\ "unknown_recipient" \in Faults \/ k \in users
    /\ sent' = Append(sent, [from |-> c, to |-> k, via |-> NoClient])
    /\ \E user \in IF k \in DOMAIN client_indices THEN {NoKey} ELSE get_db_index(k) :
           add_message_to_db(user, Len(sent) + 1)
    /\ UNCHANGED <<registryVars, peer_open, login, delivery>>

\* A read fails because the peer has closed, or a frame is malformed.
End(c) ==
    /\ ~Blocked(c)
    /\ ~peer_open[c] \/ "bad_frame" \in Faults
    /\ EndConnection(c)
    /\ UNCHANGED <<peer_open, login, sent, database, delivery>>

-----------------------------------------------------------------------------
(* The socket coroutine *)

\* A send_delayed_messages that is resumed: its message was signalled, or the
\* send failed and it leaves its loop.
Handed(d) == Batch("ready", d.row, d.todo, d.handed \cup {d.row})
LeftLoop(d) == Batch("ready", d.row, {}, d.handed)

\* A wait that lets nobody through who is suspended already.
AwaitSignalForgetsWaiters(c) ==
    sock' = [sock EXCEPT ![c] = At("waiting")] /\ UNCHANGED <<waiters, delayed>>

\* Back at async_receive: the first suspended sender is let through, if any.
\* The reference to the channel dangles once the connection is destroyed: the
\* coroutine does nothing the model could describe from there on.
AwaitSignal(c) ==
    IF phase[c] = "ended"
    THEN sock' = [sock EXCEPT ![c] = At("undefined")] /\ UNCHANGED <<waiters, delayed>>
    ELSE IF waiters[c] = <<>>
    THEN sock' = [sock EXCEPT ![c] = At("waiting")] /\ UNCHANGED <<waiters, delayed>>
    ELSE /\ sock' = [sock EXCEPT ![c] = At("ready")]
         /\ waiters' = [waiters EXCEPT ![c] = Tail(@)]
         /\ delayed' = IF Head(waiters[c]) = DelayedSender
                       THEN [delayed EXCEPT ![c] = Handed(@)] ELSE delayed

\* The client in a slot, whoever that is now.
get_client(index) == Object(clients_slot_vector, index)

\* After a signal: the client in the slot now, and the first message of its
\* queue.
SocketWakes(c) ==
    LET o == get_client(indices[c].index)
        idle == IF o = NoClient THEN TRUE ELSE queue[o] = <<>>
    IN  /\ sock[c].pc = "ready"
        /\ IF idle
           THEN AwaitSignal(c) /\ UNCHANGED crossed
           ELSE /\ sock' = [sock EXCEPT ![c] = [pc |-> "writing", target |-> o,
                                                message |-> Head(queue[o])]]
                /\ crossed' = (crossed \/ o # c)
                /\ UNCHANGED <<waiters, delayed>>
        /\ UNCHANGED <<registryVars, peer_open, login, sent, database, queue, inbox>>

\* A write after which the message stays at the front.
SocketWritesWithoutPop(c) ==
    /\ sock[c].pc = "writing"
    /\ inbox' = [inbox EXCEPT ![sock[c].target] = Append(@, sock[c].message)]
    /\ AwaitSignal(c)
    /\ UNCHANGED <<registryVars, peer_open, login, sent, database, queue, crossed>>

\* async_write is through: pop, and the next message or the next signal.  Popping
\* the queue of another coroutine's client may find it empty, which is undefined;
\* crossed tells of it.
SocketWrites(c) ==
    LET o == sock[c].target
        rest == IF queue[o] = <<>> THEN <<>> ELSE Tail(queue[o])
    IN  /\ sock[c].pc = "writing"
        /\ inbox' = [inbox EXCEPT ![o] = Append(@, sock[c].message)]
        /\ queue' = [queue EXCEPT ![o] = rest]
        /\ IF rest = <<>>
           THEN AwaitSignal(c)
           ELSE /\ sock' = [sock EXCEPT ![c].message = Head(rest)]
                /\ UNCHANGED <<waiters, delayed>>
        /\ UNCHANGED <<registryVars, peer_open, login, sent, database, crossed>>

\* A socket coroutine that pops before it knows that the write went through.
SocketFailsAfterPop(c) ==
    LET o == sock[c].target
    IN  /\ "write_error" \in Faults
        /\ sock[c].pc = "writing" /\ queue[o] # <<>>
        /\ ~peer_open[o]
        /\ sock' = [sock EXCEPT ![c] = At("done")]
        /\ queue' = [queue EXCEPT ![o] = Tail(@)]
        /\ UNCHANGED <<registryVars, peer_open, login, sent, database, waiters, delayed,
                       inbox, crossed>>

\* async_write throws: the coroutine is over, the message still in the queue.
SocketFails(c) ==
    /\ "write_error" \in Faults
    /\ sock[c].pc = "writing"
    /\ ~peer_open[sock[c].target]
    /\ sock' = [sock EXCEPT ![c] = At("done")]
    /\ UNCHANGED <<registryVars, peer_open, login, sent, database, queue, waiters,
                   delayed, inbox, crossed>>

\* A socket coroutine that writes holds a copy of the client's data, with the
\* channel in it.
HeldByWriter(o) == \E d \in Conns : sock[d].pc = "writing" /\ sock[d].target = o

\* The last reference to a channel is gone, with the connection, its client and
\* the writers of its queue: what is suspended on the channel fails.
ChannelDestroyed(o) ==
    /\ phase[o] = "ended"
    /\ ~HeldByWriter(o)
    /\ sock[o].pc = "waiting" \/ waiters[o] # <<>>
    /\ sock' = IF sock[o].pc = "waiting" THEN [sock EXCEPT ![o] = At("done")] ELSE sock
    /\ waiters' = [waiters EXCEPT ![o] = <<>>]
    /\ delayed' = IF DelayedSender \in ToSet(waiters[o])
                  THEN [delayed EXCEPT ![o] = LeftLoop(@)] ELSE delayed
    /\ UNCHANGED <<registryVars, peer_open, login, sent, database, queue, inbox, crossed>>

-----------------------------------------------------------------------------
(* send_delayed_messages *)

\* The next row, in the order of the ids, goes to whoever is in the slot, if index
\* and generation still resolve.  DelayedSender does not say whose coroutine waits
\* on a channel: it can only be the channel's own client's, by StaleHandleRejected.
SendDelayed(c) ==
    LET d == delayed[c]
        o == Object(clients_slot_vector, indices[c].index)
    IN  /\ d.pc = "ready"
        /\ Resolves(indices[c])
        /\ \E row \in d.todo :
               LET taken == Batch("sending", row.id, d.todo \ {row}, d.handed)
               IN  /\ \A other \in d.todo : row.id <= other.id
                   /\ add_message_to_queue(o, row.message, DelayedSender)
                   /\ delayed' = [delayed EXCEPT ![c] = IF sock[o].pc = "waiting"
                                                       THEN Handed(taken) ELSE taken]
        /\ UNCHANGED <<registryVars, peer_open, login, sent, database, inbox, crossed>>

\* Deletes every row it has fetched, handed over or not.
FinishDelayedDeletesAll(c) ==
    LET d == delayed[c]
    IN  /\ d.pc = "ready"
        /\ d.todo # {} => ~Resolves(indices[c])
        /\ delayed' = [delayed EXCEPT ![c] = Batch("deleting", d.row, {}, d.handed)]
        /\ Submit(Statement("delete", c, NoKey, d.handed \cup {row.id : row \in d.todo}))
        /\ UNCHANGED <<registryVars, peer_open, login, sent, queue, waiters, sock, inbox,
                       crossed>>

\* The rows are exhausted, or the recipient is gone: what was handed over is
\* deleted.
FinishDelayed(c) ==
    LET d == delayed[c]
    IN  /\ d.pc = "ready"
        /\ d.todo # {} => ~Resolves(indices[c])
        /\ IF d.handed = {}
           THEN delayed' = [delayed EXCEPT ![c] = Delayed("done")]
                /\ UNCHANGED database
           ELSE delayed' = [delayed EXCEPT ![c] = Batch("deleting", d.row, {}, d.handed)]
                /\ Submit(Statement("delete", c, NoKey, d.handed))
        /\ UNCHANGED <<registryVars, peer_open, login, sent, queue, waiters, sock, inbox,
                       crossed>>

-----------------------------------------------------------------------------
(* The database executes the oldest statement and its caller becomes ready *)

Executes(op) ==
    /\ ~loop_ended
    /\ statements # <<>>
    /\ Head(statements).op = op
    /\ statements' = Tail(statements)
    /\ UNCHANGED <<loop_ended, registryVars, peer_open, sent, queue, waiters, sock, inbox,
                   crossed>>

\* INSERT IGNORE INTO mydak_users
InsertUser ==
    LET s == Head(statements)
    IN  /\ Executes("insert_user")
        /\ login' = [login EXCEPT ![s.conn] = IF s.key \in users THEN "known" ELSE "added"]
        /\ users' = users \cup {s.key}
        /\ UNCHANGED <<stored, last_id, delayed>>

\* SELECT id FROM mydak_users
SelectUser ==
    /\ Executes("select_user")
    /\ login' = [login EXCEPT ![Head(statements).conn] = "added"]
    /\ UNCHANGED <<users, stored, last_id, delayed>>

Rows(s) == {[id |-> last_id + 1, key |-> s.key, message |-> m] : m \in s.args}

\* A table without its foreign key.
InsertMessageUnchecked ==
    /\ Executes("insert")
    /\ stored' = stored \cup Rows(Head(statements))
    /\ last_id' = last_id + 1
    /\ UNCHANGED <<users, login, delayed>>

\* INSERT INTO mydak_messages, for a user that exists
InsertMessage ==
    /\ Executes("insert")
    /\ Head(statements).key \in users
    /\ stored' = stored \cup Rows(Head(statements))
    /\ last_id' = last_id + 1
    /\ UNCHANGED <<users, login, delayed>>

\* SELECT data, id FROM mydak_messages WHERE user_id = ...
SelectMessages ==
    LET s == Head(statements)
    IN  /\ Executes("select")
        /\ delayed' = [delayed EXCEPT ![s.conn] =
                          Batch("ready", 0, {row \in stored : row.key = s.key}, {})]
        /\ UNCHANGED <<users, stored, last_id, login>>

\* DELETE from mydak_messages WHERE id IN ...
DeleteMessages ==
    LET s == Head(statements)
    IN  /\ Executes("delete")
        /\ stored' = {row \in stored : row.id \notin s.args}
        /\ delayed' = [delayed EXCEPT ![s.conn] = Delayed("done")]
        /\ UNCHANGED <<users, last_id, login>>

\* async_execute throws, for a message to no user or any other reason: the loop
\* is over and nobody is answered any more.
StatementFails ==
    /\ ~loop_ended
    /\ statements # <<>>
    /\ \/ "statement_error" \in Faults
       \/ Head(statements).op = "insert" /\ Head(statements).key \notin users
    /\ loop_ended' = TRUE
    /\ UNCHANGED <<registryVars, peer_open, login, sent, statements, users, stored, last_id,
                   delivery>>

-----------------------------------------------------------------------------

\* Steps of the peers, which nothing obliges them to take.
PeerStep(c) ==
    \/ AcceptConnection(c)
    \/ PeerCloses(c)
    \/ \E k \in LoginKeys[c] : LoginWithKey(c, k)
    \/ \E k \in LoginKeys[c] \cup {NoKey} : LoginAborted(c, k)
    \/ \E k \in Recipients[c] : RelayMessage(c, k) \/ StoreMessage(c, k)

ConnectionStep(c) == SelectExistingUser(c) \/ RegisterClient(c) \/ End(c)

SocketStep(c) == SocketWakes(c) \/ SocketWrites(c) \/ SocketFails(c) \/ ChannelDestroyed(c)

DelayedStep(c) == SendDelayed(c) \/ FinishDelayed(c)

DatabaseStep ==
    \/ InsertUser \/ SelectUser \/ InsertMessage \/ SelectMessages \/ DeleteMessages
    \/ StatementFails

RelayNext ==
    \/ \E c \in Conns : PeerStep(c) \/ ConnectionStep(c) \/ SocketStep(c) \/ DelayedStep(c)
    \/ DatabaseStep

RelaySpec == RelayInit /\ [][RelayNext]_relayVars

\* The io_context runs every coroutine that can go on; the database answers; a
\* peer takes what is written to it.
RelayFairness ==
    /\ \A c \in Conns : /\ WF_relayVars(SelectExistingUser(c) \/ RegisterClient(c))
                        /\ WF_relayVars(End(c) /\ ~peer_open[c])
                        /\ WF_relayVars(SocketStep(c))
                        /\ WF_relayVars(DelayedStep(c))
    /\ WF_relayVars(DatabaseStep)

FairRelay == RelaySpec /\ RelayFairness

-----------------------------------------------------------------------------
(* What the relay promises.                                                 *)

\* Everything ever given to the client of c, in order.
Given(c) == inbox[c] \o queue[c]

\* Unless a login was aborted: whatever is queued for a client or written to its
\* socket was sent to the key it logged in with, although get_client_index takes
\* the generation of the slot as it is now (server.cpp:156).
DeliveredToAddressee ==
    "aborted_login" \notin anomalies =>
        \A c \in Conns : \A m \in ToSet(Given(c)) : sent[m].to = key[c]

\* Messages that reach a connection the same way (directly, or through the
\* database) from one sender are given to it once and in the order they were
\* sent, across all suspensions of the sender, of send_delayed_messages and of the
\* socket coroutine (server.cpp:80-85, 205-210, 247-249).
OnceAndInOrder ==
    ~crossed =>
        \A c \in Conns : \A p, q \in DOMAIN Given(c) :
            LET m == Given(c)[p]
                n == Given(c)[q]
            IN  /\ p < q => m # n
                /\ /\ p < q
                   /\ sent[m].from = sent[n].from
                   /\ (sent[m].via = NoClient) = (sent[n].via = NoClient)
                   => m < n

\* Unless a login was aborted: a socket coroutine that waits for a signal
\* (server.cpp:220) has no message left and no sender suspended, so that nothing
\* stays behind for want of a signal.
NoMissedSignal ==
    "aborted_login" \notin anomalies =>
        \A c \in Conns :
            phase[c] = "online" /\ sock[c].pc = "waiting"
                => queue[c] = <<>> /\ waiters[c] = <<>>

\* No row is deleted and no message popped before it is given to a client
\* (server.cpp:208, 247): a stored message is on its way to the database, in it,
\* or was given to a client that logged in with the key; a relayed one is in the
\* queue it went to until it is written.
Accounted ==
    ~crossed =>
        \A m \in DOMAIN sent :
            IF sent[m].via # NoClient
            THEN m \in ToSet(Given(sent[m].via))
            ELSE \/ \E p \in DOMAIN statements :
                        statements[p].op = "insert" /\ m \in statements[p].args
                 \/ \E row \in stored : row.message = m
                 \/ \E c \in Conns : key[c] = sent[m].to /\ m \in ToSet(Given(c))

\* Without irregular logins: a message that was stored because its recipient was
\* not registered (connection.cpp:127) is found by the recipient's next
\* send_delayed_messages, however the login and the INSERT interleave.
NothingStranded ==
    anomalies = {} =>
        \A c \in Conns :
            LET select == Statement("select", c, key[c], {})
                d == delayed[c]
            IN  phase[c] = "online" =>
                    /\ \A row \in stored :
                           row.key = key[c] => \/ select \in ToSet(statements)
                                               \/ row \in d.todo
                                               \/ row.id \in {d.row} \cup d.handed
                    /\ \A p \in DOMAIN statements :
                           statements[p].op = "insert" /\ statements[p].key = key[c] =>
                               \E q \in DOMAIN statements : q > p /\ statements[q] = select

\* Unless a login was aborted: a socket coroutine writes the messages of a client
\* that took its slot over (server.cpp:223) only after its own connection has ended,
\* so that an online client's messages are always its own coroutine's.
OwnQueueWhileOnline ==
    "aborted_login" \notin anomalies =>
        \A c \in Conns :
            sock[c].pc = "writing" /\ sock[c].target # c => phase[c] = "ended"

\* The message path is a mailbox: whatever the coroutines do, in whatever order, a
\* message is kept, given and written as Mailbox says, up to an aborted login or a
\* coroutine that serves another's client.
Addressees == [m \in DOMAIN sent |-> sent[m].to]
Sessions ==
    [c \in Conns |-> CASE phase[c] = "online" -> "in" [] phase[c] = "ended" -> "gone"
                       [] OTHER -> "out"]
Inserted == UNION {s.args : s \in {t \in ToSet(statements) : t.op = "insert"}}
Kept == {row.message : row \in stored} \cup Inserted
EverKept == {m \in DOMAIN sent : sent[m].via = NoClient}
GivenToAll == [c \in Conns |-> Given(c)]
Written == [c \in Conns |-> Len(inbox[c])]
Irregular == crossed \/ "aborted_login" \in anomalies

Mail == INSTANCE Mailbox
          WITH Clients <- Conns, to <- Addressees, owner <- key, session <- Sessions,
               kept <- Kept, ever_kept <- EverKept, given <- GivenToAll,
               written <- Written, irregular <- Irregular

ImplementsMailbox == Mail!Spec

\* A queued message is written, unless its recipient goes away.
QueuedIsWritten ==
    \A c \in Conns, m \in Messages :
        m \in ToSet(queue[c]) ~> (m \in ToSet(inbox[c]) \/ ~peer_open[c])

\* A stored message is written to a recipient that logs in and stays.
StoredIsWritten ==
    \A c \in Conns, m \in Messages :
        (/\ phase[c] = "online"
         /\ \E row \in stored : row.key = key[c] /\ row.message = m)
            ~> (m \in ToSet(inbox[c]) \/ ~peer_open[c])

\* Nobody stays suspended in async_send (server.cpp:85): as long as no write to
\* a socket fails, two clients that send to each other, or one to itself, go on.
SendersGoOn == \A c \in Conns : Blocked(c) ~> ~Blocked(c)

-----------------------------------------------------------------------------
(* Claims of the repository that the program does not keep                  *)

\* README.md:3: the server "sends messages from one client to another", the one
\* that was named as recipient.
ReachesOnlyAddressee ==
    \A c \in Conns : \A m \in ToSet(inbox[c]) : sent[m].to = key[c]

\* README.md:3-4: the server "stores it in db until client is online again".
StoredUntilDelivered ==
    \A m \in DOMAIN sent :
        \/ \E p \in DOMAIN statements :
               statements[p].op = "insert" /\ m \in statements[p].args
        \/ \E row \in stored : row.message = m
        \/ \E c \in Conns : \/ m \in ToSet(inbox[c])
                            \/ m \in ToSet(queue[c]) /\ phase[c] = "online"

\* connection.cpp:125: a client that is not "currently online" gets its messages
\* through the database, so a connection whose peer is gone must not stay
\* registered.
ClosedConnectionsEnd ==
    \A c \in Conns : (phase[c] = "online" /\ ~peer_open[c]) ~> phase[c] = "ended"

=============================================================================
