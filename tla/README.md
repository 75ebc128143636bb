# mydak-server in TLA+

mydak-server relays messages between the clients of a messenger: a client logs
in with a 32-byte public key, sends frames that name a recipient's key, and the
server either hands the message to the recipient's socket or stores it in
MariaDB until the recipient logs in. This directory models the part of the
server in which things happen concurrently (who is online, the statement queue
in front of the database, the way of a message through the server) and its two
readers of input: the frames of a connection and the command line.

## The system

The server has one thread, one `io_context` (`coh::io()`) and several kinds of
coroutines that suspend at their `co_await`s. Between two suspensions nothing
else runs, so that is the grain of every action here. `co_spawn` starts a
coroutine at once (dispatch), so a spawned coroutine's first stretch belongs to
the action that spawns it.

| Component | State | Operations | Talks to |
|---|---|---|---|
| slot vector (`util/slot.hpp`, `util/slot_vector.hpp`, `util/indices.hpp`) | `clients`, `empty_slots`, `global_index`; a generation per slot | `emplace_back`, `pop`, `operator[]` | called by the server |
| registry (`main/server.cpp`, `main/connection.cpp`) | `client_indices`, `clients_slot_vector`, `connection::indices`, `connection::public_key` | `start_accepting_connections`, `add_client`, `remove_client`, `get_client_index` | the database in `add_client` |
| statement queue (`database/database.cpp`) | `lock_channels`, `request_add_channel`, the loop's place | `async_execute_queued`, `add_request`, `wait_until_non_empty`, the loop; `get_db_index` goes past it | MariaDB |
| message path (`main/server.cpp`, `main/connection.cpp`, `main/client.*`) | each client's `messages` and `signal_channel`, the tables | receive loop, `add_message_to_queue`, `socket_coroutine`, `send_delayed_messages`, `add_message`, `delete_delayed_messages` | all of the above |
| frame format (`connection.cpp:59-115`, `util/proto.hpp`) | none | check prefix and size, build the queued message | message path |
| parameters (`core/parameters`, `static_map` in `util/tools.hpp`) | `immortal_strings`, the parameters, `options_indices` | `process_args`, `static_map::at`, `try_set_val` | constructor of `server` |
| logger, `coh`, `optional_ref`, `main` | none that is read back | | |

What makes it hard:

* *checked before an await, used after it*: `add_client` checks the key before
  `add_user` and registers after it; an index and generation outlive the slot
  they were given for; `socket_coroutine` finds its client by index alone.
* *ends that take something with them*: `end_connection` pops the index and
  erases the key whoever they belong to now, and drops the queue of the client.
* *channels of capacity zero*: `async_send` suspends senders until the
  recipient's socket coroutine is back at `async_receive`; `try_send` on the
  loop's channel is lost when nobody waits.
* *the database answers later*: an INSERT of a sender races the SELECT of the
  recipient's login; rows are deleted after the messages are queued, not after
  they are written.
* *coroutines that die alone*: a write error ends a socket coroutine and not its
  connection; one failing statement ends the loop for everybody.
* *boundaries*: a receive loop that is one byte off relays the middle of a message
  as a frame; sizes cross two byte orders; options are views into a table of fixed
  size that is indexed unchecked.

What makes each component correct is the list of properties below; the hazards
in `PROJECT.json` name the line where each bites.

## Modules

| Module | Models | Extends / instantiates |
|---|---|---|
| `SlotVector` | `slot<T>` and `slot_vector<T>` as operators on a value | |
| `Registry` | who is online, from `accept` to `end_connection` | `SlotVector` |
| `RegistryProofs` | its proofs | `Registry` |
| `SerialExecutor` | what a statement queue promises its callers (abstract) | |
| `RequestQueue` | the statement queue of `database.cpp` | instantiates `SerialExecutor` |
| `RequestQueueProofs` | its proofs | `RequestQueue` |
| `Mailbox` | what the message path promises the users (abstract) | |
| `Relay` | the whole message path | `Registry`; instantiates `Mailbox` |
| `RelayProofs` | its proofs: the registry's promises and the types | `Relay`, `RegistryProofs` |
| `DeliveryProofs` | its proofs: nobody but the addressee | `RelayProofs` |
| `SignalProofs` | its proofs: no signal is missed | `DeliveryProofs` |
| `MailboxProofs` | its proofs: the requests of `send_delayed_messages`, the order of ids | `SignalProofs` |
| `Framing` | the bytes of a connection and of its recipients | |
| `FramingProofs` | its proofs | `Framing` |
| `Parameters` | the command line | |
| `ParametersProofs` | its proofs | `Parameters` |
| `MCRegistry`, `MCRequestQueue`, `MCRelay`, `MCFraming`, `MCParameters` | instances for TLC | |

### SlotVector and Registry

A slot vector is a record with the fields of the code; an object in a slot is
the connection it was made for. `invalid_index` is the all-ones `size_t`,
written -1: as in the code it fails every bounds check. `clear`, `set_value`,
`emplace_back` and `pop` are the code's, including that `pop` looks only at the
bounds and may list an empty slot as free again.

| Action | Code |
|---|---|
| `Accept` | `handle_connection`, `start()` up to its first read |
| `Login` | the key is read; `add_client` up to `add_user`, or back at once with `client_index::empty()` for a registered key |
| `Register` | `add_client` after `add_user`. The placeholder that `add_client_to_db` enters for the key (`server.cpp:169`) is overwritten before anything else runs |
| `EndConnection` | the receive loop is left, `end_connection` |
| `AbortLogin` | the key's read or `remote_endpoint()` throws: `end_connection` with a default `client_index`, index 0 |

A connection is accepted once (`Conns` bounds how many there are). `anomalies`
is a history variable that remembers whether a login was aborted or two
connections claimed one key: each promise says up to which of these it holds,
because the code does not keep it beyond (see the findings).

### RequestQueue and SerialExecutor

`lock_channels` is written oldest first: the code's `emplace_front` appends and
its `back()` is the head. A call of `async_execute_queued` goes idle, waiting,
ready, done; the loop goes started, waiting, woken, executing, answered. A
signal makes its receiver ready and the receiver runs in a step of its own.
`try_send`, `Receive` and `RequestAddCapacity` model a Boost.Asio channel with a
buffer, so that the capacity chosen in `database.cpp:15` and its comment can be
examined. `GetDbIndex` is the synchronous lookup that uses the same connection;
Boost.MySQL rejects an operation while another is under way. `Init` allows for a
loop that was never spawned because a statement in `start()` threw.

`SerialExecutor` is the abstract specification: pending statements are answered
one at a time, in the order of submission, until the executor stops.
`RequestQueue` implements it under the mapping *pending = statements in the
deque that are not yet answered*. `Relay` builds on that: its `statements` are
such a serial executor, the database executes the head.

### Relay

`Relay` adds to the registry the client queues (`queue`), the senders suspended
on each `signal_channel` (`waiters`), each `socket_coroutine` (`sock`), each
`send_delayed_messages` (`delayed`), the statement queue and the two tables.

| Action | Code |
|---|---|
| `LoginWithKey`, `SelectExistingUser`, `RegisterClient` | `start()`, `add_client`, the two statements of `add_user`; the socket coroutine and `send_delayed_messages` are spawned with the registration |
| `LoginAborted`, `End` | the ways into `end_connection` |
| `RelayMessage` | a frame for an online recipient: `get_client_index`, `add_message_to_queue` up to `async_send` |
| `StoreMessage` | a frame for any other recipient: `get_db_index`, `add_message` up to its suspension |
| `SocketWakes`, `SocketWrites`, `SocketFails` | the three places where `socket_coroutine` is resumed |
| `ChannelDestroyed` | the last `shared_ptr` to a channel goes: what is suspended on it fails |
| `SendDelayed`, `FinishDelayed` | the loop of `send_delayed_messages` and its DELETE |
| `InsertUser`, `SelectUser`, `InsertMessage`, `SelectMessages`, `DeleteMessages`, `StatementFails` | the statements, and the end of the loop |
| `PeerCloses` | the other end of the socket |

A sender that is suspended in `async_send` (`Blocked`) neither reads its socket
nor ends. `get_client_index` and `add_message_to_queue` run in one stretch for an
online recipient, because `get_client_index` then does not suspend: the codes
`NO_CLIENT` and `EXPIRED_CLIENT` cannot reach the receive loop, and the retry
by `goto` (`connection.cpp:147-151`) never happens. `send_delayed_messages` meets
both codes, through `Resolves`.

Three things are abstracted on purpose:

* Handlers that are ready run in any order. The `io_context` runs them first in,
  first out, so the model has more behaviours than the program.
* Once a connection is destroyed, `socket_coroutine` holds a dangling reference
  to the `shared_ptr` of its channel (`server.cpp:216`). Its next use is
  undefined; the model stops the coroutine in the state `undefined`.
* Two socket coroutines may serve one queue: after an aborted login, or when the
  coroutine of an ended connection is resumed and finds in its slot the client
  that took it over (`server.cpp:223`). Both then write the same message and pop
  twice, which may hit an empty `std::queue`. `crossed` remembers that a
  coroutine served a client not its own, and the properties about order and
  custody stop there. `OwnQueueWhileOnline` says that the second way needs the
  coroutine's own connection to have ended.

`Faults` says what the environment may do: abort a login, share a key, send a
malformed frame, break a write, name an unknown recipient, have a lookup refused
because the connection is busy, make a statement fail.

### Mailbox

The abstract specification of `Relay`: messages are taken for keys, given to a
client that is in, or kept and handed later, once to each client and behind the
older ones that were kept; they are forgotten only after a client with their key
was given them; what is given is written in that order. It knows no slots, queues,
signals or statements.

| Mailbox | In `Relay` |
|---|---|
| `to` | `Addressees`, from `sent` |
| `session` | `Sessions`, from `phase`: online is in, ended is gone |
| `kept` | `Kept`: the rows of the table and the INSERTs under way |
| `ever_kept` | `EverKept`: the messages that were not relayed directly |
| `given`, `written` | `Given`: what was written to the socket and what is queued behind it; the length of the first part |
| `irregular` | `Irregular`: a login was aborted, or a coroutine served another's client; from then on nothing is promised |

Two sessions of one user may both be handed a kept message, because its row is
deleted only after a batch; the mailbox allows it. A message for an unknown user,
whose INSERT fails, stays kept for ever.

### Framing

The peer's stream is one sequence of bytes of which a read takes a prefix as soon
as enough have arrived. `Base` is the number of values of a byte, so that numbers
of four digits have the code's shape at any base; `native` is the host's byte
order, and `memcpy`, `byteswap` and `bit_cast` do what they do on it.

| Action | Code |
|---|---|
| `PeerSends`, `PeerCloses` | the other end |
| `ReadKey` | the first read of `start()` |
| `ReadGreetings` | prefix, size and recipient of a frame, its two checks (`connection.cpp:59-93`) |
| `ReadMessage` | the message is read and `queued_message` made (`connection.cpp:95-115`) |
| `ReadFails` | `async_read` throws at the end of the stream |
| `RecipientReads` | a client that reads its stream (external) |

What happens to a queued message on its way (online or not, which recipient) is
`Relay`'s business: here it goes to the recipient's stream at once, and as one
sender has one stream per recipient only the bytes are at stake. `relayed` and
`mail` are history: the messages that were queued, in the order of the sender's
stream and in that of each recipient's, with the places where they start.

### Parameters

Options are naturals in the order of their names, since `static_map` only compares
names. `array` is the sorted array as positions in the order of declaration, which
is what `options_indices` maps names to. A view into `immortal_strings` is the
index it points at, 0 the default's literal. A text is a model value with a size;
`Addresses` are those that `is_an_ip` accepts. `Bare` is any argument without an
equals sign, `--help` among them: all of them end the program.

| Action | Code |
|---|---|
| `RejectBare` | `help()` and the exit without an equals sign |
| `ReadArgument` | the text is kept in `immortal_strings[i]`; an empty one exits; beyond the table the behaviour is undefined |
| `Probe` | one comparison of `std::lower_bound` in `static_map::at` |
| `SetParameter` | the option that was found, `try_set_val` with its limits, or the exit |
| `Return` | the loop ends and the constructor of the server reads the views |

## Properties and runs

TLC runs, all exhaustive:

| Run | Instance | Properties |
|---|---|---|
| `registry` | 4 connections, 2 keys | `TypeOK`, `StaleHandleRejected`, `FreeListExact`, `AddresseeOnly`, `OnlineClientsReachable` |
| `request_queue` | 4 statements, 1 lookup | `TypeOK`, `WaitersQueued`, `LoopWokenForWork`, `EveryCallerResumes`, `ImplementsSerialExecutor` |
| `relay_sessions` | 3 connections (2 sessions of the recipient), 2 messages, shared keys and broken writes | `OnceAndInOrder`, `NoMissedSignal`, `Accounted`, `NothingStranded`, `OwnQueueWhileOnline`, `ImplementsMailbox` |
| `relay_faults` | 3 connections, two of which log in as either user, 1 message, every fault but a malformed frame | `RelayTypeOK`, `DeliveredToAddressee`, `Accounted`, `NothingStranded` |
| `relay_liveness` | 2 connections, 2 messages in any direction or 2 each way, no faults | `OnceAndInOrder`, `NoMissedSignal`, `QueuedIsWritten`, `StoredIsWritten`, `SendersGoOn` |
| `framing` | every stream of a key and two frames, both byte orders | `TypeOK`, `RelayedAsSent`, `EndsOnlyAtMalformed`, `RecipientsSeeWhatWasSent` |
| `parameters` | 3 options, up to 3 arguments, a table with place for 2 | `TypeOK`, `SearchExact`, `ViewsIntact`, `ExitsOnlyOnInvalid`, `Terminates` |

What they show:

* A handle (index and generation) never resolves to another client, whatever
  logins there were. The free list is exact and a key leads to a client that
  logged in with it as long as no login is aborted.
* No wakeup of the statement loop is lost or stale, and each caller is answered
  once, in order. With a capacity of one, which the comment in
  `database.cpp:12-14` warns of, the loop does wake to an empty deque.
* Messages that take the same way from one sender arrive once and in order, a
  socket coroutine never sleeps on a message or on a suspended sender, and no row
  is deleted and no message popped before it has been handed on.
* The race of an INSERT with the recipient's login loses nothing: the row is
  always found by the recipient's SELECT, thanks to the order of the queue.
* For its users the message path is a mailbox, whatever its coroutines do in
  whatever order, as long as no login is aborted and no coroutine serves another's
  client.
* The receive loop relays exactly the frames that were sent, from the first byte
  behind the key on, and ends a connection only where no well-formed frame
  follows. The two conditional byte swaps agree: a recipient finds the same
  messages on hosts of either order.
* The binary search finds an option exactly if it was declared, also when an
  unknown name lies between two others; the last text given for an option is the
  one the server reads; the server starts exactly if every argument is valid. Nothing
  in the code keeps argument number 128 out of a table of 128 entries of which the
  first is unused: the model goes to `undefined` there.
* Without write errors everything queued or stored for a client that stays is
  written. A client that is suspended in a send to itself is let through, and so
  are two that are suspended in sends to each other, although neither reads its
  socket meanwhile: the socket coroutines are not the ones that wait.
* `send_delayed_messages` sends to whoever is in its slot, under a handle that may
  be older than the slot's client: `DeliveredToAddressee` holds because of the
  generation check, and fails without it.

Five runs are expected to find a violation, each of a sentence in the
repository:

| Run | Property | Sentence |
|---|---|---|
| `registry_reconnect` | `LoginReceives` | `connection.cpp:45`, a logged-in key receives messages: a second connection with the key goes on with `client_index::empty()`, and the key leads to the first. Aborted logins are left out: no fault is needed |
| `queue_lookup` | `NoConcurrentAccess` | `database.cpp:268-275`, no concurrent access to the connection: `get_db_index` goes past the loop |
| `relay_misdelivery` | `ReachesOnlyAddressee` | `README.md:3`, messages go from one client to another: an aborted login frees slot 0 under its owner |
| `relay_loss` | `StoredUntilDelivered` | `README.md:3-4`, stored until the client is online again: what is queued when a client leaves is lost |
| `relay_lockout` | `ClosedConnectionsEnd` | `connection.cpp:125`, only clients that are online are sent to directly: one that is suspended in a send to itself when its socket breaks stays registered for ever |

### Bounds

`Conns` bounds the connections accepted, `Keys` the keys, `MaxMessages` the
messages received, `Requests` and `Lookups` the calls. Four connections are what
it takes to free a slot, reuse it, and free and reuse it again while another slot
is taken. Four statements are one that executes, two that wait and one that comes
when the loop sleeps. In `Relay` two sessions of one user let one end while the
other takes over its slot and its rows; two messages are needed for order, for a
sender suspended behind another message, and for a lockout; one message is enough
for the fate of a message under faults. In `relay_faults` the two sessions may be
of either user, so that a slot that is freed under a stale handle goes to a client
with another key. A malformed frame is left out there: it ends a connection like a
peer that closes and a read that fails, and as an ended connection's `peer_open`
only lets a write fail, it adds nothing that these invariants could tell; the
theorems hold with it. Two clients are suspended in sends to each other only with four
messages. `relay_liveness` gets there by `EachOther`, a constraint on its steps: two
messages are sent in any direction, and a third and a fourth only from `c2` to `c1`,
relayed directly, after two such from `c1` to `c2`. It restricts nothing but frames
of peers, of which no fairness is assumed, so that it hides no behaviour in which the
server stops; and the state with `c1` among the waiters of `c2` and `c2` among
those of `c1` is reached, after twelve steps. Which of the two sends first makes no
difference but for the order of the logins, which the run leaves open. The next
larger instances (every fault with two messages, four messages in any direction)
leave what TLC explores in minutes. Connections with the same role are symmetric; symmetry is used only in runs without liveness.
`framing` has bytes of two values, keys of one byte and sizes from 1 to 2:
17 bytes are a key and two of the largest frames, and four digits of base 2 count
far enough for sizes below and above both limits. `parameters` has the server's
three options, with unknown names before, between and behind them, texts of sizes
at the limits and on both sides of them, and one argument more than its table can take.
`CHECK_DEADLOCK FALSE` is set because the bounded models do stop: every
connection is used up, every message sent.

### Fairness

Peers never have to do anything: no fairness on `Accept`, logins, frames or
closing. `RequestQueue` and `Relay` assume weak fairness of each coroutine that
can go on, because `io.run()` (`main.cpp:22`) runs every ready handler, and of the
database, which answers or fails each statement. A socket coroutine that writes
is assumed to finish or fail: a peer takes what is written to it. A connection
whose peer is gone ends when its read fails, if it reads. `Parameters` assumes weak
fairness of its next step: one thread that runs. `Framing` has no liveness
properties and no fairness.

## Proofs

TLAPS checks, for any sets of connections, keys and requests, any options and
texts, and any byte base, key size and size limits below four digits:

* `RegistryProofs`: `TypeCorrect`, `StaleHandlesAreRejected`, `FreeListIsExact`,
  `OnlyTheAddressee`, `OnlineMeansReachable`, all from the inductive invariant
  `RegistryInv`. None of the promises is inductive alone. `StaleHandleRejected`
  needs `Handles`: a handle's generation is at most its slot's (`IssuedBound`),
  no two connections have one handle (`HandlesUnique`), and whoever is in a slot
  has the handle of its present generation (`OccupantsIssued`). `FreeListExact`
  and `AddresseeOnly` need `Owners`, which an aborted login destroys: an online
  connection owns the slot of its handle, so `end_connection` pops its own and an
  occupied one. `OnlineClientsReachable` needs `ClaimsUnique`. The lemmas
  `EmplaceBack`, `EmplaceBackFree`, `Pop` and `PopFree` say what the slot vector
  does and are all the registry knows of it.
* `RequestQueueProofs`: `QueueTypes`; `WaitersAreQueued` and `WakeupsAreExact` from
  `QueueInv`, and `RefinesSerialExecutor`, that every step is a step or a stutter of
  `SerialExecutor`.
* `RelayProofs`: `RelayRefinesRegistry`, that the composed system implements the
  registry, and by it `RelayRejectsStaleHandles` and
  `RelayFindsOnlyTheAddressee`; by the same invariant `SendsToOwn`, that what
  `send_delayed_messages` sends to the slot reaches its own client; and `RelayTypes`, that the message path keeps
  `RelayTypeOK`. The types are inductive only with `TypesInv`: that what a key
  leads to is a slot (`EntriesIssued`), and that a connection with a socket
  coroutine was given one (`SocketsIssued`), so that `clients[index]` exists.
* `DeliveryProofs`: `OnlyToTheAddressee`, that unless a login was aborted whatever
  is queued for a client or written to it was sent to its key. The invariant
  `DeliveryInv` follows a message through all that may hold it: an INSERT, a row, the
  rows of a `send_delayed_messages`, a queue, the write of a socket coroutine. Two
  facts carry it: the key of a connection may change only while nothing is held for
  it (`UnreadHoldNothing`), and what has been sent is never taken back
  (`ContextGrows`). Each holder then has a lemma on what changes it
  (`QueueChanges`, `WriterChanges`, ...) and one that its part survives. The
  registry's `AddresseeOnly` gives the case of a relayed message.
* `SignalProofs`: `OwnQueueIsServed` and, on top of it, `NoSignalIsMissed`: a socket
  coroutine that goes back to wait has found a queue empty, which says something
  about its own client only if the queue was its own. `UnregisteredIdle` adds that
  nothing is queued or suspended for a connection that is not registered yet.
* `MailboxProofs`, in four layers, each inductive on top of those before it:
  * `Plumbing` (`OneRequestEach`) ties each SELECT, each DELETE and each suspended
    send to the one `send_delayed_messages` it belongs to and the place where that
    is.
  * `Tables` (`IdsAreInOrder`): ids grow with the messages, an INSERT under way is
    newer than every row and than the INSERTs before it, and the rows a
    `send_delayed_messages` holds are its own client's.
  * `Giving`, for as long as no coroutine has served another's client (`crossed`),
    which an aborted login need not cause: what a client was given was relayed to it
    or stored for its key (`GivenItsOwn`); each of the two ways is in order, and what is still
    in `todo` is newer than what came out of it (`GivenInOrder`); a socket coroutine
    writes the head of its own queue (`WritesHead`); what is counted as sent, and
    what a DELETE names, was given (`HandedGiven`); and `Accounted` itself. None of
    them is inductive without the others: `Accounted` survives a DELETE by
    `HandedGiven`, a write by `WritesHead`. The theorems are
    `EveryMessageIsAccountedFor`, `GivenOnceAndInOrder`, and `RelayIsAMailbox`: the
    composed message path implements `Mailbox`. A login maps to `LogIn` and `Enter`,
    the end of a connection to `Leave`, a frame to `Relay` or `Keep`,
    `SendDelayed` to `Hand`, `DeleteMessages` to `Forget`, a finished write to
    `Write`, everything else to a stutter.
  * `Custody` (`NothingStaysBehind`): `Fetching` says that a connection that is
    online has a SELECT behind every INSERT for its key, and that each of its rows is
    still to be selected, in `todo`, or in `row` or `handed` until it is deleted.
    It is kept only because a round that is over starts with nothing and a batch
    that is deleted has nothing left (`Rounds`), and because a DELETE names exactly
    what was handed over (`DeletesHanded`).
* `FramingProofs`: `SizeFieldIsLittleEndian`, that on either host the size read from
  four bytes is their little-endian value and the field made of a size are its
  digits, lowest first; from it and an invariant that places the reader behind the
  last relayed frame, `RelayedAreFrames` and `NoFrameIsRefused`; `FramingTypes`; and
  `RecipientsFindTheirMail`, from `MailInv`: the stream to a recipient is its queued
  messages one behind the other, the recipient stands behind the last it has found,
  and nothing is queued before the sender's key is known. `RelayedAsSent` and it
  together are the way of a message from the sender's bytes to the recipient's.
* `ParametersProofs`: `SearchIsExact`, from the invariant of the binary search (what
  lies before the range is smaller, what lies behind it is not); `ViewsAreIntact`
  and `ExitsAtTheFirstInvalid`, from an invariant about the arguments already read;
  `ParametersTypes`.

The assumptions are `RegistryAssumption` (`NoClient` is no connection, `NoKey` no
key), `RelayAssumption` (the types of the other constants), `FramingAssumption` (a
size limit that fits in four digits) and `ParametersAssumption` (no option is
declared twice, the types of the others); TLC evaluates them all.

Every invariant of a passing run is proved. Only model-checked are the liveness
properties (`EveryCallerResumes`, `QueuedIsWritten`, `StoredIsWritten`,
`SendersGoOn`, `Terminates`, and the fairness part of `ImplementsSerialExecutor`):
they need fairness and `ENABLED`, which are beyond the prover.

## Plan

Done: all components with concurrency, the frame format, the command line, their
runs, and the proofs above. Next, in this order:

1. What the users of `Mailbox` and `SerialExecutor` rely on, stated and proved of
   these small specifications and carried over to `Relay` and `RequestQueue` by the
   refinements.
2. The action properties behind the liveness runs: which steps can undo progress.
3. A server whose database was never reachable. Logins then register without
   suspending, which needs an action of its own in `Registry` and in every proof
   about it.

## Not modelled

The logger, `coh`, `optional_ref` and `main` have no behaviour of their own
beyond what is said above. Hashing, hex conversion and the other compile-time parts
of `util/tools.hpp` carry no state. The parameter type for numbers is not modelled:
no option has it. `client::add_client_data` and `client::remove_client` are called by
nothing. Memory is not a resource here: allocation does not fail. A `start()` that
fails once it is connected is modelled in `RequestQueue`, as a loop that was never
spawned. A database that was never reachable is not: without a connection
`format_opts().value()` throws in every request, and logins succeed without a row.
