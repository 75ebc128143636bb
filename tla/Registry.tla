------------------------------ MODULE Registry ------------------------------
(***************************************************************************)
(* Who is online: server::client_indices (public key -> client_index), the *)
(* slot vector it points into, and the life of a connection up to          *)
(* server::add_client and from server::remove_client.  Everything else the *)
(* server does leaves this state alone; Relay refines this module.         *)
(*                                                                         *)
(* The server has one thread.  An action is what a coroutine does between  *)
(* two of its suspensions; add_client suspends once, in add_client_to_db.  *)
(***************************************************************************)
EXTENDS SlotVector

CONSTANTS Conns,        \* connections, each accepted at most once
          Keys,         \* public keys
          NoKey         \* public_key before it has been read

ASSUME RegistryAssumption == NoClient \notin Conns /\ NoKey \notin Keys

VARIABLES
    phase,                  \* how far connection::start has come
    key,                    \* connection::public_key
    indices,                \* connection::indices, without its db_index
    client_indices,         \* server::client_indices
    clients_slot_vector,    \* server::clients_slot_vector; an object is its connection
    anomalies               \* history: which irregular logins there have been

vars == <<phase, key, indices, client_indices, clients_slot_vector, anomalies>>

Anomalies == {"aborted_login", "shared_key"}

\* client_index{} and client_index::empty()
DefaultIndex == [index |-> 0, generation |-> 0]
EmptyIndex == [index |-> invalid_index, generation |-> invalid_index]

ClientIndex == [index : Int, generation : Int]

TypeOK ==
    /\ phase \in [Conns -> {"unused", "reading_key", "adding", "online", "ended"}]
    /\ key \in [Conns -> Keys \cup {NoKey}]
    /\ indices \in [Conns -> ClientIndex]
    /\ DOMAIN client_indices \subseteq Keys
    /\ client_indices \in [DOMAIN client_indices -> ClientIndex]
    /\ IsSlotVector(clients_slot_vector, Conns)
    /\ anomalies \subseteq Anomalies

Init ==
    /\ phase = [c \in Conns |-> "unused"]
    /\ key = [c \in Conns |-> NoKey]
    /\ indices = [c \in Conns |-> DefaultIndex]
    /\ client_indices = [k \in {} |-> DefaultIndex]
    /\ clients_slot_vector = NoSlots
    /\ anomalies = {}

-----------------------------------------------------------------------------

\* client_indices[k] = v and client_indices.erase(k)
Put(map, k, v) == [j \in DOMAIN map \cup {k} |-> IF j = k THEN v ELSE map[j]]
Erase(map, k) == [j \in DOMAIN map \ {k} |-> map[j]]

\* server::start_accepting_connections, handle_connection: start() runs up to
\* its first read.
Accept(c) ==
    /\ phase[c] = "unused"
    /\ phase' = [phase EXCEPT ![c] = "reading_key"]
    /\ UNCHANGED <<key, indices, client_indices, clients_slot_vector, anomalies>>

\* Connections that the server treats as logged in with key k, or is logging in.
Claims(k) == {c \in Conns : phase[c] \in {"adding", "online"} /\ key[c] = k}

\* The key has been read; add_client runs up to its suspension, or returns
\* client_index::empty() at once for a registered key.  start() does not look
\* at what it got and goes on in both cases.
Login(c, k) ==
    /\ phase[c] = "reading_key"
    /\ key' = [key EXCEPT ![c] = k]
    /\ IF k \in DOMAIN client_indices
       THEN /\ phase' = [phase EXCEPT ![c] = "online"]
            /\ indices' = [indices EXCEPT ![c] = EmptyIndex]
       ELSE /\ phase' = [phase EXCEPT ![c] = "adding"]
            /\ UNCHANGED indices
    /\ anomalies' = IF Claims(k) # {} THEN anomalies \cup {"shared_key"} ELSE anomalies
    /\ UNCHANGED <<client_indices, clients_slot_vector>>

\* add_client resumes with a slot taken but never enters the key in the map.
RegisterUnmapped(c) ==
    LET handle == [index |-> NextIndex(clients_slot_vector),
                   generation |-> NextGeneration(clients_slot_vector)]
    IN  /\ phase[c] = "adding"
        /\ phase' = [phase EXCEPT ![c] = "online"]
        /\ clients_slot_vector' = emplace_back(clients_slot_vector, c)
        /\ indices' = [indices EXCEPT ![c] = handle]
        /\ UNCHANGED <<key, client_indices, anomalies>>

\* add_client resumes with the database's answer: it does not look the key up
\* again before it takes a slot and overwrites the key's entry.
Register(c) ==
    LET handle == [index |-> NextIndex(clients_slot_vector),
                   generation |-> NextGeneration(clients_slot_vector)]
    IN  /\ phase[c] = "adding"
        /\ phase' = [phase EXCEPT ![c] = "online"]
        /\ clients_slot_vector' = emplace_back(clients_slot_vector, c)
        /\ client_indices' = Put(client_indices, key[c], handle)
        /\ indices' = [indices EXCEPT ![c] = handle]
        /\ UNCHANGED <<key, anomalies>>

\* A remove_client that frees the slot and leaves the key's entry behind.
RemoveClientKeepsEntry(index, k) ==
    /\ clients_slot_vector' = pop(clients_slot_vector, index)
    /\ UNCHANGED client_indices

\* server::remove_client, with what end_connection passes: the entry of the key
\* goes, whichever connection it names.
remove_client(index, k) ==
    /\ clients_slot_vector' = pop(clients_slot_vector, index)
    /\ client_indices' = Erase(client_indices, k)

\* The receive loop is left, by an exception or a break: end_connection.
EndConnection(c) ==
    /\ phase[c] = "online"
    /\ phase' = [phase EXCEPT ![c] = "ended"]
    /\ remove_client(indices[c].index, key[c])
    /\ UNCHANGED <<key, indices, anomalies>>

\* start() throws before add_client: the key's read fails (the key is not
\* complete), or remote_endpoint() does (it is).  end_connection then passes
\* the index of a default client_index, 0, which is somebody's slot.
AbortLogin(c, k) ==
    /\ phase[c] = "reading_key"
    /\ phase' = [phase EXCEPT ![c] = "ended"]
    /\ key' = [key EXCEPT ![c] = k]
    /\ remove_client(indices[c].index, k)
    /\ anomalies' = anomalies \cup {"aborted_login"}
    /\ UNCHANGED indices

Next ==
    \E c \in Conns :
        \/ Accept(c)
        \/ \E k \in Keys : Login(c, k)
        \/ Register(c)
        \/ EndConnection(c)
        \/ \E k \in Keys \cup {NoKey} : AbortLogin(c, k)

Spec == Init /\ [][Next]_vars

-----------------------------------------------------------------------------
(* What the registry promises.  Each promise says up to which irregular     *)
(* logins it holds: an aborted login, or two connections claiming one key.  *)

\* A test that looks at the slot but not at its generation.
ResolvesAnyGeneration(handle) ==
    /\ handle.index \in Indices(clients_slot_vector)
    /\ ~Empty(clients_slot_vector, handle.index)

\* slot.empty() and get_slot_generation() as add_message_to_queue tests them.
Resolves(handle) ==
    /\ handle.index \in Indices(clients_slot_vector)
    /\ ~Empty(clients_slot_vector, handle.index)
    /\ Generation(clients_slot_vector, handle.index) = handle.generation

\* The generation check of add_message_to_queue (server.cpp:69) does its job
\* whatever happened before: an index and generation that add_client gave to a
\* connection never pass it once the slot holds another client.
StaleHandleRejected ==
    \A c \in Conns :
        (indices[c].generation >= 1 /\ Resolves(indices[c]))
            => Object(clients_slot_vector, indices[c].index) = c

\* Unless a login was aborted: the free list of slot_vector holds exactly the
\* empty slots, each once, so that no slot is given to two clients
\* (slot.hpp:43 logs that as an error) and none is leaked.
FreeListExact ==
    "aborted_login" \notin anomalies =>
        LET free == clients_slot_vector.empty_slots
        IN  /\ \A p, q \in DOMAIN free : free[p] = free[q] => p = q
            /\ \A i \in Indices(clients_slot_vector) :
                   Empty(clients_slot_vector, i) <=> \E p \in DOMAIN free : free[p] = i

\* Unless a login was aborted: what client_indices says of a key leads to a
\* client that logged in with that key, so get_client_index never sends a
\* message to somebody else's slot, nor finds the slot empty (server.cpp:151).
AddresseeOnly ==
    "aborted_login" \notin anomalies =>
        \A k \in DOMAIN client_indices :
            LET i == client_indices[k].index
            IN  /\ i \in Indices(clients_slot_vector)
                /\ Object(clients_slot_vector, i) \in Claims(k)

\* Without irregular logins: every connection that finished its login is the
\* one its key leads to, so messages for it are not stored as for an absent
\* client (connection.cpp:125).
OnlineClientsReachable ==
    anomalies = {} =>
        \A c \in Conns :
            phase[c] = "online" =>
                /\ key[c] \in DOMAIN client_indices
                /\ client_indices[key[c]] = indices[c]
                /\ Resolves(indices[c])

-----------------------------------------------------------------------------
(* A claim of the repository that the program does not keep                 *)

\* connection.cpp:45: with the key that logs a connection in "we can receive
\* messages from other people", so that, even if no login was aborted, the key of
\* a connection that is through its login leads to that connection.
LoginReceives ==
    "aborted_login" \notin anomalies =>
        \A c \in Conns :
            phase[c] = "online" => \E k \in DOMAIN client_indices :
                                       k = key[c] /\ client_indices[k] = indices[c]

=============================================================================
