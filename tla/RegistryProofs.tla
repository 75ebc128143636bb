--------------------------- MODULE RegistryProofs ---------------------------
(***************************************************************************)
(* Proofs that the registry keeps its promises for any number of           *)
(* connections and keys.  RegistryInv is the inductive invariant.          *)
(***************************************************************************)
EXTENDS Registry, TLAPS

sv == clients_slot_vector

\* A free list that names every empty slot once and nothing else.
FreeExact(v) ==
    /\ \A p, q \in DOMAIN v.empty_slots : v.empty_slots[p] = v.empty_slots[q] => p = q
    /\ \A i \in Indices(v) : Empty(v, i) <=> \E p \in DOMAIN v.empty_slots : v.empty_slots[p] = i

-----------------------------------------------------------------------------
(* Lemmas about slot_vector *)

\* emplace_back puts the object at NextIndex with NextGeneration, leaves every
\* other slot alone and never loses a slot.
LEMMA EmplaceBack ==
    ASSUME NEW v, NEW Objects, NEW x \in Objects, IsSlotVector(v, Objects)
    PROVE  LET w == emplace_back(v, x)
               n == NextIndex(v)
           IN  /\ IsSlotVector(w, Objects)
               /\ Indices(v) \subseteq Indices(w)
               /\ n \in Indices(w)
               /\ NextGeneration(v) \in Nat \ {0}
               /\ n \in Indices(v) => NextGeneration(v) = Generation(v, n) + 1
               /\ Object(w, n) = x /\ Generation(w, n) = NextGeneration(v)
               /\ \A i \in Indices(w) \ {n} :
                    i \in Indices(v) /\ w.clients[i] = v.clients[i]
  <1> DEFINE w == emplace_back(v, x)
             n == NextIndex(v)
  <1>1. CASE v.empty_slots # <<>>
    <2>1. n \in Indices(v)
      BY <1>1 DEF NextIndex, IsSlotVector, Indices
    <2>2. /\ w.clients = [v.clients EXCEPT ![n] = set_value(@, x)]
          /\ w.empty_slots = Tail(v.empty_slots)
          /\ w.global_index = v.global_index
          /\ DOMAIN w = DOMAIN v
      BY <1>1 DEF emplace_back, IsSlotVector
    <2>3. w.empty_slots \in Seq(0 .. v.global_index - 1)
      BY <1>1, <2>2 DEF IsSlotVector
    <2>4. IsSlotVector(w, Objects)
      BY <2>1, <2>2, <2>3 DEF IsSlotVector, Indices, set_value
    <2> QED
      BY <1>1, <2>1, <2>2, <2>4
      DEF IsSlotVector, Indices, Object, Generation, set_value, NextGeneration
  <1>2. CASE v.empty_slots = <<>>
    <2>1. n = v.global_index /\ NextGeneration(v) = 1
      BY <1>2 DEF NextIndex, NextGeneration
    <2>2. /\ w.clients = [i \in 0 .. v.global_index |->
                             IF i = v.global_index THEN NewSlot(x) ELSE v.clients[i]]
          /\ w.empty_slots = <<>>
          /\ w.global_index = v.global_index + 1
          /\ DOMAIN w = DOMAIN v
      BY <1>2 DEF emplace_back, IsSlotVector
    <2>3. IsSlotVector(w, Objects)
      BY <2>2 DEF IsSlotVector, NewSlot
    <2> QED
      BY <2>1, <2>2, <2>3 DEF IsSlotVector, Indices, Object, Generation, NewSlot
  <1> QED
    BY <1>1, <1>2

\* From an exact free list, emplace_back takes a slot that holds nobody and
\* leaves an exact free list.
LEMMA EmplaceBackFree ==
    ASSUME NEW v, NEW Objects, NEW x \in Objects, NoClient \notin Objects,
           IsSlotVector(v, Objects), FreeExact(v)
    PROVE  /\ NextIndex(v) \in Indices(v) => Empty(v, NextIndex(v))
           /\ FreeExact(emplace_back(v, x))
  <1> DEFINE w == emplace_back(v, x)
             n == NextIndex(v)
             f == v.empty_slots
  <1>0. /\ n \in Indices(w) /\ Object(w, n) = x
        /\ \A i \in Indices(w) \ {n} : i \in Indices(v) /\ w.clients[i] = v.clients[i]
    BY EmplaceBack
  <1>1. CASE f # <<>>
    <2>1. /\ f \in Seq(0 .. v.global_index - 1)
          /\ n = f[1] /\ 1 \in DOMAIN f /\ n \in Indices(v)
      BY <1>1 DEF NextIndex, IsSlotVector, Indices
    <2>2. Empty(v, n)
      BY <2>1 DEF FreeExact
    <2>3. /\ w.empty_slots = Tail(f)
          /\ Indices(w) = Indices(v)
      BY <1>1 DEF emplace_back, IsSlotVector, Indices
    <2>4. /\ DOMAIN Tail(f) = 1 .. Len(f) - 1
          /\ DOMAIN f = 1 .. Len(f) /\ Len(f) \in Nat
          /\ \A p \in 1 .. Len(f) - 1 : Tail(f)[p] = f[p + 1]
      BY <1>1, <2>1
    <2>5. \A p, q \in DOMAIN w.empty_slots :
             w.empty_slots[p] = w.empty_slots[q] => p = q
      BY <2>3, <2>4 DEF FreeExact
    <2>6. ASSUME NEW i \in Indices(w)
          PROVE  Empty(w, i) <=> \E p \in DOMAIN w.empty_slots : w.empty_slots[p] = i
      <3>1. CASE i = n
        <4>1. ~Empty(w, i)
          BY <1>0, <3>1 DEF Empty
        <4>2. \A p \in 1 .. Len(f) - 1 : f[p + 1] # n
          BY <2>1, <2>4 DEF FreeExact
        <4> QED
          BY <2>3, <2>4, <3>1, <4>1, <4>2
      <3>2. CASE i # n
        <4>1. Empty(w, i) <=> Empty(v, i)
          BY <1>0, <3>2 DEF Empty, Object
        <4>2. Empty(v, i) <=> \E p \in 1 .. Len(f) : f[p] = i
          BY <2>3, <2>4 DEF FreeExact
        <4>3. (\E p \in 1 .. Len(f) : f[p] = i) <=> (\E p \in 1 .. Len(f) - 1 : f[p + 1] = i)
          <5>1. ASSUME NEW p \in 1 .. Len(f), f[p] = i
                PROVE  p - 1 \in 1 .. Len(f) - 1 /\ f[(p - 1) + 1] = i
            BY <5>1, <2>1, <2>4, <3>2
          <5>2. \A p \in 1 .. Len(f) - 1 : p + 1 \in 1 .. Len(f)
            BY <2>4
          <5> QED
            BY <5>1, <5>2
        <4> QED
          BY <2>3, <2>4, <4>1, <4>2, <4>3
      <3> QED
        BY <3>1, <3>2
    <2> QED
      BY <2>2, <2>5, <2>6 DEF FreeExact
  <1>2. CASE f = <<>>
    <2>1. /\ w.empty_slots = f /\ DOMAIN f = {}
          /\ n = v.global_index /\ n \notin Indices(v)
      BY <1>2 DEF emplace_back, IsSlotVector, NextIndex, Indices
    <2>2. \A i \in Indices(w) : ~Empty(w, i)
      BY <1>0, <2>1 DEF FreeExact, Empty, Object
    <2> QED
      BY <2>1, <2>2 DEF FreeExact
  <1> QED
    BY <1>1, <1>2

\* pop empties the slot it is given, if there is one, and leaves the rest alone.
LEMMA Pop ==
    ASSUME NEW v, NEW Objects, NEW i \in Int, IsSlotVector(v, Objects)
    PROVE  LET w == pop(v, i)
           IN  /\ IsSlotVector(w, Objects)
               /\ Indices(w) = Indices(v)
               /\ \A j \in Indices(v) : Generation(w, j) = Generation(v, j)
               /\ \A j \in Indices(v) \ {i} : Object(w, j) = Object(v, j)
               /\ i \in Indices(v) => Empty(w, i)
  <1> DEFINE w == pop(v, i)
  <1>1. CASE i \notin Indices(v)
    BY <1>1 DEF pop
  <1>2. CASE i \in Indices(v)
    <2>1. /\ w.clients = [v.clients EXCEPT ![i] = clear(@)]
          /\ w.empty_slots = Append(v.empty_slots, i)
          /\ w.global_index = v.global_index
          /\ DOMAIN w = DOMAIN v
      BY <1>2 DEF pop, IsSlotVector
    <2>2. w.empty_slots \in Seq(0 .. v.global_index - 1)
      BY <1>2, <2>1 DEF IsSlotVector, Indices
    <2>3. \A j \in Indices(v) :
             w.clients[j] = IF j = i THEN [v.clients[i] EXCEPT !.object = NoClient]
                            ELSE v.clients[j]
      BY <1>2, <2>1 DEF IsSlotVector, Indices, clear
    <2>4. \A j \in Indices(v) :
             w.clients[j] \in [object : Objects \cup {NoClient}, generation : Nat \ {0}]
      BY <2>3 DEF IsSlotVector, Indices
    <2>5. DOMAIN w.clients = 0 .. v.global_index - 1
          /\ w.clients = [j \in DOMAIN w.clients |-> w.clients[j]]
      BY <2>1 DEF IsSlotVector
    <2>6. IsSlotVector(w, Objects)
      BY <2>1, <2>2, <2>4, <2>5 DEF IsSlotVector, Indices
    <2> QED
      BY <1>2, <2>1, <2>3, <2>6 DEF IsSlotVector, Indices, Object, Generation, Empty
  <1> QED
    BY <1>1, <1>2

\* Popping an occupied slot keeps the free list exact.
LEMMA PopFree ==
    ASSUME NEW v, NEW Objects, NEW i \in Indices(v),
           IsSlotVector(v, Objects), FreeExact(v), ~Empty(v, i)
    PROVE  FreeExact(pop(v, i))
  <1> DEFINE w == pop(v, i)
             f == v.empty_slots
  <1>0. i \in Int
    BY DEF Indices, IsSlotVector
  <1>1. /\ Indices(w) = Indices(v)
        /\ \A j \in Indices(v) \ {i} : Object(w, j) = Object(v, j)
        /\ Empty(w, i)
    BY <1>0, Pop
  <1>2. /\ f \in Seq(0 .. v.global_index - 1)
        /\ w.empty_slots = Append(f, i)
    BY DEF pop, IsSlotVector
  <1>3. /\ DOMAIN f = 1 .. Len(f) /\ Len(f) \in Nat
        /\ DOMAIN Append(f, i) = 1 .. Len(f) + 1
        /\ \A p \in 1 .. Len(f) : Append(f, i)[p] = f[p]
        /\ Append(f, i)[Len(f) + 1] = i
    BY <1>2
  <1>4. \A p \in 1 .. Len(f) : f[p] # i
    BY <1>3 DEF FreeExact
  <1>5. \A p, q \in DOMAIN w.empty_slots : w.empty_slots[p] = w.empty_slots[q] => p = q
    <2> SUFFICES ASSUME NEW p \in 1 .. Len(f) + 1, NEW q \in 1 .. Len(f) + 1,
                        Append(f, i)[p] = Append(f, i)[q]
                 PROVE  p = q
      BY <1>2, <1>3
    <2>1. CASE p \in 1 .. Len(f) /\ q \in 1 .. Len(f)
      BY <1>3, <2>1 DEF FreeExact
    <2>2. CASE p = Len(f) + 1 \/ q = Len(f) + 1
      BY <1>3, <1>4, <2>2
    <2> QED
      BY <1>3, <2>1, <2>2
  <1>6. \A j \in Indices(w) :
           Empty(w, j) <=> \E p \in DOMAIN w.empty_slots : w.empty_slots[p] = j
    <2> SUFFICES ASSUME NEW j \in Indices(v)
                 PROVE  Empty(w, j) <=> \E p \in 1 .. Len(f) + 1 : Append(f, i)[p] = j
      BY <1>1, <1>2, <1>3
    <2>1. CASE j = i
      BY <1>1, <1>3, <2>1
    <2>2. CASE j # i
      <3>1. Empty(w, j) <=> \E p \in 1 .. Len(f) : f[p] = j
        BY <1>1, <1>3, <2>2 DEF FreeExact, Empty
      <3> QED
        BY <1>3, <2>2, <3>1
    <2> QED
      BY <2>1, <2>2
  <1> QED
    BY <1>5, <1>6 DEF FreeExact

-----------------------------------------------------------------------------
(* The inductive invariant, in three layers: what holds whatever happens,   *)
(* what holds until a login is aborted, and what holds while no two         *)
(* connections claim one key either.                                        *)

Registered(c) == indices[c].generation >= 1

\* A connection in add_client has a handle only once it is through.
Fresh ==
    \A c \in Conns : phase[c] \in {"unused", "reading_key", "adding"} => indices[c] = DefaultIndex

KeyRead == \A c \in Conns : phase[c] \in {"adding", "online"} => key[c] \in Keys

\* A handle names a slot that has counted at least up to it.
IssuedBound ==
    \A c \in Conns :
        Registered(c) => /\ indices[c].index \in Indices(sv)
                         /\ indices[c].generation <= Generation(sv, indices[c].index)

HandlesUnique ==
    \A c, d \in Conns : Registered(c) /\ indices[c] = indices[d] => c = d

\* Whoever holds a slot holds the handle of its present generation.
OccupantsIssued ==
    \A i \in Indices(sv) :
        ~Empty(sv, i) =>
            indices[Object(sv, i)] = [index |-> i, generation |-> Generation(sv, i)]

Handles == Fresh /\ KeyRead /\ IssuedBound /\ HandlesUnique /\ OccupantsIssued

OccupantsOnline ==
    \A i \in Indices(sv) : ~Empty(sv, i) => phase[Object(sv, i)] = "online"

\* An online connection holds the slot of its handle, if add_client gave it one.
OnlineOwns ==
    \A c \in Conns :
        phase[c] = "online" /\ indices[c].index # invalid_index =>
            /\ indices[c].index \in Indices(sv)
            /\ Object(sv, indices[c].index) = c

Owners ==
    "aborted_login" \notin anomalies => OccupantsOnline /\ OnlineOwns

ClaimsUnique ==
    anomalies = {} =>
        \A c, d \in Conns :
            /\ phase[c] \in {"adding", "online"}
            /\ phase[d] \in {"adding", "online"}
            /\ key[c] = key[d]
            => c = d

RegistryInv ==
    /\ TypeOK
    /\ Handles
    /\ Owners
    /\ FreeListExact
    /\ AddresseeOnly
    /\ ClaimsUnique
    /\ OnlineClientsReachable

-----------------------------------------------------------------------------
(* The invariant is inductive *)

LEMMA InitInv == Init => RegistryInv
  <1> SUFFICES ASSUME Init PROVE RegistryInv
    OBVIOUS
  <1>1. Indices(sv) = {} /\ IsSlotVector(sv, Conns)
    BY DEF Init, NoSlots, Indices, IsSlotVector, sv
  <1>2. TypeOK
    <2>1. client_indices \in [DOMAIN client_indices -> ClientIndex] /\ DOMAIN client_indices = {}
      BY DEF Init
    <2> QED
      BY <1>1, <2>1 DEF Init, TypeOK, DefaultIndex, ClientIndex, sv
  <1>3. Handles
    BY <1>1 DEF Init, Handles, Fresh, KeyRead, IssuedBound, HandlesUnique, OccupantsIssued,
                Registered, DefaultIndex
  <1>4. Owners /\ ClaimsUnique /\ OnlineClientsReachable
    BY <1>1 DEF Init, Owners, OccupantsOnline, OnlineOwns, ClaimsUnique, OnlineClientsReachable
  <1>5. FreeListExact
    BY <1>1 DEF Init, NoSlots, FreeListExact, Indices, sv
  <1>6. AddresseeOnly
    BY DEF Init, AddresseeOnly
  <1> QED
    BY <1>2, <1>3, <1>4, <1>5, <1>6 DEF RegistryInv

\* What remove_client does, in terms of the lemmas above.
LEMMA RemoveClient ==
    ASSUME TypeOK, NEW i \in Int, NEW k, remove_client(i, k)
    PROVE  /\ IsSlotVector(sv', Conns)
           /\ Indices(sv') = Indices(sv)
           /\ \A j \in Indices(sv) : Generation(sv', j) = Generation(sv, j)
           /\ \A j \in Indices(sv) \ {i} : Object(sv', j) = Object(sv, j)
           /\ i \in Indices(sv) => Empty(sv', i)
           /\ DOMAIN client_indices' = DOMAIN client_indices \ {k}
           /\ \A j \in DOMAIN client_indices' : client_indices'[j] = client_indices[j]
  <1>1. sv' = pop(sv, i) /\ client_indices' = Erase(client_indices, k)
    BY DEF remove_client, sv
  <1>2. IsSlotVector(sv, Conns)
    BY DEF TypeOK, sv
  <1> QED
    BY <1>1, <1>2, Pop DEF Erase

\* What Register does, in terms of the lemmas above.
LEMMA RegisterEffect ==
    ASSUME TypeOK, NEW c \in Conns, Register(c)
    PROVE  LET n == indices'[c].index
           IN  /\ n = NextIndex(sv)
               /\ n \in Nat
               /\ sv' = emplace_back(sv, c)
               /\ indices'[c] = [index |-> n, generation |-> Generation(sv', n)]
               /\ indices'[c].generation \in Nat \ {0}
               /\ \A d \in Conns \ {c} : indices'[d] = indices[d]
               /\ indices' \in [Conns -> ClientIndex]
               /\ IsSlotVector(sv', Conns)
               /\ Indices(sv) \subseteq Indices(sv')
               /\ n \in Indices(sv')
               /\ n \in Indices(sv) => Generation(sv', n) = Generation(sv, n) + 1
               /\ Object(sv', n) = c
               /\ \A i \in Indices(sv') \ {n} :
                    i \in Indices(sv) /\ sv'.clients[i] = sv.clients[i]
               /\ DOMAIN client_indices' = DOMAIN client_indices \cup {key[c]}
               /\ client_indices'[key[c]] = indices'[c]
               /\ \A k \in DOMAIN client_indices :
                    k # key[c] => client_indices'[k] = client_indices[k]
  <1> DEFINE h == [index |-> NextIndex(sv), generation |-> NextGeneration(sv)]
  <1>1. IsSlotVector(sv, Conns) /\ indices \in [Conns -> ClientIndex]
    BY DEF TypeOK, sv
  <1>2. /\ sv' = emplace_back(sv, c)
        /\ indices' = [indices EXCEPT ![c] = h]
        /\ client_indices' = Put(client_indices, key[c], h)
    BY DEF Register, sv
  <1>3. indices'[c] = h
    BY <1>1, <1>2
  <1>4. /\ IsSlotVector(sv', Conns)
        /\ Indices(sv) \subseteq Indices(sv')
        /\ h.index \in Indices(sv')
        /\ h.generation \in Nat \ {0}
        /\ h.index \in Indices(sv) => h.generation = Generation(sv, h.index) + 1
        /\ Object(sv', h.index) = c /\ Generation(sv', h.index) = h.generation
        /\ \A i \in Indices(sv') \ {h.index} :
             i \in Indices(sv) /\ sv'.clients[i] = sv.clients[i]
    <2> DEFINE w == emplace_back(sv, c)
               n == NextIndex(sv)
    <2>1. /\ IsSlotVector(w, Conns)
          /\ Indices(sv) \subseteq Indices(w)
          /\ n \in Indices(w)
          /\ NextGeneration(sv) \in Nat \ {0}
          /\ n \in Indices(sv) => NextGeneration(sv) = Generation(sv, n) + 1
          /\ Object(w, n) = c /\ Generation(w, n) = NextGeneration(sv)
          /\ \A i \in Indices(w) \ {n} :
               i \in Indices(sv) /\ w.clients[i] = sv.clients[i]
      BY <1>1, EmplaceBack
    <2>2. sv' = w /\ h.index = n /\ h.generation = NextGeneration(sv)
      BY <1>2
    <2> HIDE DEF w, n, h
    <2> QED
      BY <2>1, <2>2
  <1>5. h.index \in Nat
    BY <1>4 DEF Indices, IsSlotVector
  <1>6. indices' \in [Conns -> ClientIndex]
    BY <1>1, <1>2, <1>4, <1>5 DEF ClientIndex
  <1>7. /\ DOMAIN client_indices' = DOMAIN client_indices \cup {key[c]}
        /\ client_indices'[key[c]] = h
        /\ \A k \in DOMAIN client_indices :
             k # key[c] => client_indices'[k] = client_indices[k]
    BY <1>2 DEF Put
  <1>8. \A d \in Conns \ {c} : indices'[d] = indices[d]
    BY <1>1, <1>2
  <1> HIDE DEF h
  <1>9. h = [index |-> h.index, generation |-> Generation(sv', h.index)] /\ h.index = NextIndex(sv)
    BY <1>4 DEF h
  <1> QED
    BY <1>2, <1>3, <1>4, <1>5, <1>6, <1>7, <1>8, <1>9

LEMMA TypeStep == TypeOK /\ KeyRead /\ [Next]_vars => TypeOK'
  <1> SUFFICES ASSUME TypeOK, KeyRead, [Next]_vars PROVE TypeOK'
    OBVIOUS
  <1>1. ASSUME NEW c \in Conns, Accept(c) PROVE TypeOK'
    BY <1>1 DEF Accept, TypeOK
  <1>2. ASSUME NEW c \in Conns, NEW k \in Keys, Login(c, k) PROVE TypeOK'
    <2>1. EmptyIndex \in ClientIndex
      BY DEF EmptyIndex, ClientIndex, invalid_index
    <2>2. indices' \in [Conns -> ClientIndex]
      BY <1>2, <2>1 DEF Login, TypeOK
    <2>3. anomalies' \subseteq Anomalies
      BY <1>2 DEF Login, TypeOK, Anomalies
    <2> QED
      BY <1>2, <2>2, <2>3 DEF Login, TypeOK
  <1>3. ASSUME NEW c \in Conns, Register(c) PROVE TypeOK'
    <2>1. /\ IsSlotVector(sv', Conns) /\ indices' \in [Conns -> ClientIndex]
          /\ DOMAIN client_indices' = DOMAIN client_indices \cup {key[c]}
          /\ client_indices'[key[c]] = indices'[c]
          /\ \A k \in DOMAIN client_indices : k # key[c] => client_indices'[k] = client_indices[k]
      BY <1>3, RegisterEffect
    <2>2. client_indices' = [k \in DOMAIN client_indices' |-> client_indices'[k]]
      BY <1>3 DEF Register, Put
    <2>3. key[c] \in Keys
      BY <1>3 DEF Register, KeyRead
    <2>4. indices'[c] \in ClientIndex
      BY <2>1
    <2>5. client_indices' \in [DOMAIN client_indices' -> ClientIndex]
      BY <2>1, <2>2, <2>4 DEF TypeOK
    <2> QED
      BY <1>3, <2>1, <2>3, <2>5 DEF Register, TypeOK, sv
  <1>4. ASSUME NEW i \in Int, NEW k, remove_client(i, k)
        PROVE  /\ DOMAIN client_indices' \subseteq Keys
               /\ client_indices' \in [DOMAIN client_indices' -> ClientIndex]
               /\ IsSlotVector(clients_slot_vector', Conns)
    <2>1. IsSlotVector(sv', Conns)
      BY <1>4, RemoveClient
    <2>2. client_indices' = [j \in DOMAIN client_indices \ {k} |-> client_indices[j]]
      BY <1>4 DEF remove_client, Erase
    <2> QED
      BY <2>1, <2>2 DEF TypeOK, sv
  <1>5. \A c \in Conns : indices[c].index \in Int
    BY DEF TypeOK, ClientIndex
  <1>6. ASSUME NEW c \in Conns, EndConnection(c) PROVE TypeOK'
    <2>1. remove_client(indices[c].index, key[c])
      BY <1>6 DEF EndConnection
    <2> QED
      BY <1>4, <1>5, <1>6, <2>1 DEF EndConnection, TypeOK
  <1>7. ASSUME NEW c \in Conns, NEW k \in Keys \cup {NoKey}, AbortLogin(c, k) PROVE TypeOK'
    <2>1. remove_client(indices[c].index, k)
      BY <1>7 DEF AbortLogin
    <2> QED
      BY <1>4, <1>5, <1>7, <2>1 DEF AbortLogin, TypeOK, Anomalies
  <1>8. CASE UNCHANGED vars
    BY <1>8 DEF vars, TypeOK
  <1> QED
    BY <1>1, <1>2, <1>3, <1>6, <1>7, <1>8 DEF Next

\* A step that clears at most one slot and gives nobody a handle.
LEMMA HandlesRemove ==
    ASSUME TypeOK, Handles, NEW i \in Int, NEW k, remove_client(i, k),
           UNCHANGED indices
    PROVE  IssuedBound' /\ HandlesUnique' /\ OccupantsIssued'
  <1>1. /\ Indices(sv') = Indices(sv)
        /\ \A j \in Indices(sv) : Generation(sv', j) = Generation(sv, j)
        /\ \A j \in Indices(sv) \ {i} : Object(sv', j) = Object(sv, j)
        /\ i \in Indices(sv) => Empty(sv', i)
    BY RemoveClient
  <1>2. IssuedBound' /\ HandlesUnique'
    BY <1>1 DEF Handles, IssuedBound, HandlesUnique, Registered
  <1>3. OccupantsIssued'
    BY <1>1 DEF Handles, OccupantsIssued, Empty
  <1> QED
    BY <1>2, <1>3

LEMMA HandlesStep == TypeOK /\ Handles /\ [Next]_vars => Handles'
  <1> SUFFICES ASSUME TypeOK, Handles, [Next]_vars PROVE Handles'
    OBVIOUS
  <1> USE DEF Handles
  <1>0. \A i \in Indices(sv) :
           /\ Generation(sv, i) \in Nat \ {0}
           /\ ~Empty(sv, i) => Object(sv, i) \in Conns
    BY DEF TypeOK, IsSlotVector, Indices, Generation, Empty, Object, sv
  <1>1. ASSUME NEW c \in Conns, Accept(c) PROVE Handles'
    <2>1. Fresh' /\ KeyRead'
      BY <1>1 DEF Accept, TypeOK, Fresh, KeyRead
    <2> QED
      BY <1>1, <2>1 DEF Accept, IssuedBound, HandlesUnique, OccupantsIssued, Registered, sv
  <1>2. ASSUME NEW c \in Conns, NEW k \in Keys, Login(c, k) PROVE Handles'
    <2>1. /\ phase[c] = "reading_key" /\ indices[c] = DefaultIndex
          /\ indices'[c] \in {DefaultIndex, EmptyIndex}
          /\ \A d \in Conns \ {c} : indices'[d] = indices[d]
          /\ sv' = sv
      BY <1>2 DEF Login, TypeOK, Fresh, sv
    <2>2. ~Registered(c) /\ ~Registered(c)'
      BY <2>1 DEF Registered, DefaultIndex, EmptyIndex, invalid_index
    <2>3. Fresh'
      BY <1>2, <2>1 DEF Login, TypeOK, Fresh
    <2>4. KeyRead'
      BY <1>2 DEF Login, TypeOK, KeyRead
    <2>5. IssuedBound' /\ HandlesUnique'
      BY <2>1, <2>2 DEF IssuedBound, HandlesUnique, Registered
    <2>6. OccupantsIssued'
      <3>1. ASSUME NEW i \in Indices(sv), ~Empty(sv, i) PROVE Object(sv, i) \in Conns \ {c}
        <4>0. indices[Object(sv, i)] = [index |-> i, generation |-> Generation(sv, i)]
          BY <3>1 DEF OccupantsIssued
        <4>1. indices[Object(sv, i)].generation \in Nat \ {0}
          BY <1>0, <4>0
        <4>2. indices[c].generation = 0
          BY <2>1 DEF DefaultIndex
        <4> QED
          BY <1>0, <3>1, <4>1, <4>2
      <3> QED
        BY <2>1, <3>1 DEF OccupantsIssued
    <2> QED
      BY <2>3, <2>4, <2>5, <2>6
  <1>3. ASSUME NEW c \in Conns, Register(c) PROVE Handles'
    <2> DEFINE n == indices'[c].index
    <2>1. /\ indices'[c] = [index |-> n, generation |-> Generation(sv', n)]
          /\ indices'[c].generation \in Nat \ {0}
          /\ \A d \in Conns \ {c} : indices'[d] = indices[d]
          /\ Indices(sv) \subseteq Indices(sv')
          /\ n \in Indices(sv')
          /\ n \in Indices(sv) => Generation(sv', n) = Generation(sv, n) + 1
          /\ Object(sv', n) = c
          /\ \A i \in Indices(sv') \ {n} :
               i \in Indices(sv) /\ sv'.clients[i] = sv.clients[i]
      BY <1>3, RegisterEffect
    <2> HIDE DEF n
    <2>2. phase[c] = "adding" /\ indices[c] = DefaultIndex /\ ~Registered(c)
      BY <1>3 DEF Register, Fresh, Registered, DefaultIndex
    <2>3. Generation(sv', n) = indices'[c].generation /\ n = indices'[c].index
      BY <2>1
    <2>4. \A d \in Conns : indices[d].generation \in Int
      BY DEF TypeOK, ClientIndex
    <2>5. Fresh' /\ KeyRead'
      BY <1>3, <2>1 DEF Register, TypeOK, Fresh, KeyRead
    <2>6. \A i \in Indices(sv) \ {n} :
             Generation(sv', i) = Generation(sv, i) /\ Object(sv', i) = Object(sv, i)
      BY <2>1 DEF Generation, Object
    <2>7. IssuedBound'
      <3> SUFFICES ASSUME NEW d \in Conns, Registered(d)'
                   PROVE  /\ indices'[d].index \in Indices(sv')
                          /\ indices'[d].generation <= Generation(sv', indices'[d].index)
        BY DEF IssuedBound
      <3>1. CASE d = c
        BY <2>1, <2>3, <3>1
      <3>2. CASE d # c
        <4>1. /\ indices'[d] = indices[d]
              /\ indices[d].index \in Indices(sv)
              /\ indices[d].generation <= Generation(sv, indices[d].index)
          BY <2>1, <3>2 DEF IssuedBound, Registered
        <4>2. Generation(sv, indices[d].index) <= Generation(sv', indices[d].index)
          BY <1>0, <2>1, <2>6, <4>1
        <4>3. Generation(sv', indices[d].index) \in Int
          BY <1>0, <2>1, <2>6, <4>1
        <4> QED
          BY <1>0, <2>1, <2>4, <4>1, <4>2, <4>3
      <3> QED
        BY <3>1, <3>2
    <2>8. \A d \in Conns \ {c} : indices'[d] # indices'[c]
      <3> SUFFICES ASSUME NEW d \in Conns \ {c}, indices[d] = indices'[c] PROVE FALSE
        BY <2>1
      <3>1. Registered(d) /\ indices[d].index = n
        BY <2>1, <2>3 DEF Registered
      <3>2. n \in Indices(sv) /\ indices[d].generation <= Generation(sv, n)
        BY <3>1 DEF IssuedBound
      <3> QED
        BY <1>0, <2>1, <2>3, <2>4, <3>2
    <2>9. HandlesUnique'
      BY <2>1, <2>8 DEF HandlesUnique, Registered
    <2>10. OccupantsIssued'
      <3> SUFFICES ASSUME NEW i \in Indices(sv'), ~Empty(sv', i)
                   PROVE  indices'[Object(sv', i)] =
                             [index |-> i, generation |-> Generation(sv', i)]
        BY DEF OccupantsIssued
      <3>1. CASE i = n
        BY <2>1, <3>1
      <3>2. CASE i # n
        <4>1. /\ i \in Indices(sv) /\ ~Empty(sv, i)
              /\ Object(sv', i) = Object(sv, i) /\ Generation(sv', i) = Generation(sv, i)
          BY <2>1, <2>6, <3>2 DEF Empty
        <4>2. /\ Object(sv, i) \in Conns
              /\ indices[Object(sv, i)] = [index |-> i, generation |-> Generation(sv, i)]
          BY <1>0, <4>1 DEF OccupantsIssued
        <4>3. Object(sv, i) # c
          BY <1>0, <2>2, <4>1, <4>2 DEF Registered
        <4> QED
          BY <2>1, <4>1, <4>2, <4>3
      <3> QED
        BY <3>1, <3>2
    <2> QED
      BY <2>5, <2>7, <2>9, <2>10
  <1>4. \A c \in Conns : indices[c].index \in Int
    BY DEF TypeOK, ClientIndex
  <1>5. ASSUME NEW c \in Conns, EndConnection(c) PROVE Handles'
    <2>1. remove_client(indices[c].index, key[c]) /\ UNCHANGED indices
      BY <1>5 DEF EndConnection
    <2>2. Fresh' /\ KeyRead'
      BY <1>5 DEF EndConnection, TypeOK, Fresh, KeyRead
    <2> QED
      BY <1>4, <2>1, <2>2, HandlesRemove
  <1>6. ASSUME NEW c \in Conns, NEW k \in Keys \cup {NoKey}, AbortLogin(c, k) PROVE Handles'
    <2>1. remove_client(indices[c].index, k) /\ UNCHANGED indices
      BY <1>6 DEF AbortLogin
    <2>2. Fresh' /\ KeyRead'
      BY <1>6 DEF AbortLogin, TypeOK, Fresh, KeyRead
    <2> QED
      BY <1>4, <2>1, <2>2, HandlesRemove
  <1>7. CASE UNCHANGED vars
    BY <1>7 DEF vars, Fresh, KeyRead, IssuedBound, HandlesUnique, OccupantsIssued, Registered, sv
  <1> QED
    BY <1>1, <1>2, <1>3, <1>5, <1>6, <1>7 DEF Next

\* AddresseeOnly without its condition.
Addressee ==
    \A k \in DOMAIN client_indices :
        LET i == client_indices[k].index
        IN  i \in Indices(sv) /\ Object(sv, i) \in Claims(k)

LEMMA OwnersStep ==
    TypeOK /\ Handles /\ Owners /\ FreeListExact /\ AddresseeOnly /\ [Next]_vars
        => Owners' /\ FreeListExact' /\ AddresseeOnly'
  <1> SUFFICES ASSUME TypeOK, Handles, Owners, FreeListExact, AddresseeOnly, [Next]_vars,
                      "aborted_login" \notin anomalies'
               PROVE  OccupantsOnline' /\ OnlineOwns' /\ FreeExact(sv') /\ Addressee'
    BY DEF Owners, FreeListExact, AddresseeOnly, FreeExact, Addressee, sv
  <1>0. /\ OccupantsOnline /\ OnlineOwns /\ FreeExact(sv) /\ Addressee
        /\ NoClient \notin Conns
        /\ IsSlotVector(sv, Conns)
        /\ \A i \in Indices(sv) : ~Empty(sv, i) => Object(sv, i) \in Conns
    <2>1. "aborted_login" \notin anomalies
      BY DEF Next, Accept, Login, Register, EndConnection, AbortLogin, vars
    <2>2. \A i \in Indices(sv) : ~Empty(sv, i) => Object(sv, i) \in Conns
      BY DEF TypeOK, IsSlotVector, Indices, Empty, Object, sv
    <2> QED
      BY <2>1, <2>2, RegistryAssumption
      DEF Owners, FreeListExact, AddresseeOnly, FreeExact, Addressee, TypeOK, sv
  <1>1. ASSUME NEW c \in Conns, Accept(c)
        PROVE  OccupantsOnline' /\ OnlineOwns' /\ FreeExact(sv') /\ Addressee'
    <2>1. /\ sv' = sv /\ indices' = indices /\ client_indices' = client_indices /\ key' = key
          /\ phase[c] = "unused" /\ phase'[c] = "reading_key"
          /\ \A d \in Conns \ {c} : phase'[d] = phase[d]
      BY <1>1 DEF Accept, TypeOK, sv
    <2>2. \A k : Claims(k)' = Claims(k)
      BY <2>1 DEF Claims
    <2>3. OccupantsOnline'
      BY <1>0, <2>1 DEF OccupantsOnline
    <2>4. OnlineOwns'
      BY <1>0, <2>1 DEF OnlineOwns
    <2>5. Addressee'
      BY <1>0, <2>1, <2>2 DEF Addressee
    <2> QED
      BY <1>0, <2>1, <2>3, <2>4, <2>5
  <1>2. ASSUME NEW c \in Conns, NEW k \in Keys, Login(c, k)
        PROVE  OccupantsOnline' /\ OnlineOwns' /\ FreeExact(sv') /\ Addressee'
    <2>1. /\ sv' = sv /\ client_indices' = client_indices
          /\ phase[c] = "reading_key"
          /\ \A d \in Conns \ {c} :
               phase'[d] = phase[d] /\ key'[d] = key[d] /\ indices'[d] = indices[d]
          /\ phase'[c] = "online" => indices'[c] = EmptyIndex
      BY <1>2 DEF Login, TypeOK, sv
    <2>2. \A j : Claims(j) \subseteq Claims(j)'
      BY <2>1 DEF Claims
    <2>3. OccupantsOnline'
      BY <1>0, <2>1 DEF OccupantsOnline
    <2>4. OnlineOwns'
      BY <1>0, <2>1 DEF OnlineOwns, EmptyIndex
    <2>5. Addressee'
      BY <1>0, <2>1, <2>2 DEF Addressee
    <2> QED
      BY <1>0, <2>1, <2>3, <2>4, <2>5
  <1>3. ASSUME NEW c \in Conns, Register(c)
        PROVE  OccupantsOnline' /\ OnlineOwns' /\ FreeExact(sv') /\ Addressee'
    <2> DEFINE n == indices'[c].index
    <2>1. /\ n = NextIndex(sv)
          /\ sv' = emplace_back(sv, c)
          /\ \A d \in Conns \ {c} : indices'[d] = indices[d]
          /\ Indices(sv) \subseteq Indices(sv')
          /\ n \in Indices(sv')
          /\ Object(sv', n) = c
          /\ \A i \in Indices(sv') \ {n} :
               i \in Indices(sv) /\ sv'.clients[i] = sv.clients[i]
          /\ DOMAIN client_indices' = DOMAIN client_indices \cup {key[c]}
          /\ client_indices'[key[c]].index = n
          /\ \A k \in DOMAIN client_indices :
               k # key[c] => client_indices'[k] = client_indices[k]
      BY <1>3, RegisterEffect
    <2> HIDE DEF n
    <2>2. /\ phase[c] = "adding" /\ phase'[c] = "online" /\ key' = key
          /\ \A d \in Conns \ {c} : phase'[d] = phase[d]
      BY <1>3 DEF Register, TypeOK
    <2>3. FreeExact(sv') /\ (n \in Indices(sv) => Empty(sv, n))
      BY <1>0, <2>1, EmplaceBackFree
    <2>4. \A i \in Indices(sv) : ~Empty(sv, i) => i # n /\ Object(sv', i) = Object(sv, i)
      BY <2>1, <2>3 DEF Object
    <2>5. \A i \in Indices(sv') \ {n} : i \in Indices(sv) /\ Object(sv', i) = Object(sv, i)
      BY <2>1 DEF Object
    <2>6. OccupantsOnline'
      <3> SUFFICES ASSUME NEW i \in Indices(sv'), ~Empty(sv', i)
                   PROVE  phase'[Object(sv', i)] = "online"
        BY DEF OccupantsOnline
      <3>1. CASE i = n
        BY <2>1, <2>2, <3>1
      <3>2. CASE i # n
        BY <1>0, <2>2, <2>5, <3>2 DEF OccupantsOnline, Empty
      <3> QED
        BY <3>1, <3>2
    <2>7. OnlineOwns'
      <3> SUFFICES ASSUME NEW d \in Conns, phase'[d] = "online",
                          indices'[d].index # invalid_index
                   PROVE  /\ indices'[d].index \in Indices(sv')
                          /\ Object(sv', indices'[d].index) = d
        BY DEF OnlineOwns, invalid_index
      <3>1. CASE d = c
        BY <2>1, <3>1 DEF n
      <3>2. CASE d # c
        <4>1. indices[d].index \in Indices(sv) /\ Object(sv, indices[d].index) = d
          BY <1>0, <2>1, <2>2, <3>2 DEF OnlineOwns
        <4>2. ~Empty(sv, indices[d].index)
          BY <1>0, <4>1 DEF Empty
        <4> QED
          BY <2>1, <2>4, <3>2, <4>1, <4>2
      <3> QED
        BY <3>1, <3>2
    <2>8. \A k : Claims(k)' = Claims(k)
      BY <2>2 DEF Claims
    <2>9. Addressee'
      <3> SUFFICES ASSUME NEW k \in DOMAIN client_indices'
                   PROVE  /\ client_indices'[k].index \in Indices(sv')
                          /\ Object(sv', client_indices'[k].index) \in Claims(k)
        BY <2>8 DEF Addressee
      <3>1. CASE k = key[c]
        BY <2>1, <2>2, <3>1 DEF Claims
      <3>2. CASE k # key[c]
        <4> DEFINE i == client_indices[k].index
        <4>1. client_indices'[k].index = i /\ i \in Indices(sv) /\ Object(sv, i) \in Claims(k)
          BY <1>0, <2>1, <3>2 DEF Addressee
        <4>2. ~Empty(sv, i)
          BY <1>0, <4>1 DEF Empty, Claims
        <4> QED
          BY <2>1, <2>4, <4>1, <4>2
      <3> QED
        BY <3>1, <3>2
    <2> QED
      BY <2>3, <2>6, <2>7, <2>9
  <1>4. ASSUME NEW c \in Conns, EndConnection(c)
        PROVE  OccupantsOnline' /\ OnlineOwns' /\ FreeExact(sv') /\ Addressee'
    <2> DEFINE n == indices[c].index
    <2>1. n \in Int
      BY DEF TypeOK, ClientIndex
    <2>2. /\ Indices(sv') = Indices(sv)
          /\ \A j \in Indices(sv) \ {n} : Object(sv', j) = Object(sv, j)
          /\ n \in Indices(sv) => Empty(sv', n)
          /\ DOMAIN client_indices' = DOMAIN client_indices \ {key[c]}
          /\ \A j \in DOMAIN client_indices' : client_indices'[j] = client_indices[j]
      BY <1>4, <2>1, RemoveClient DEF EndConnection
    <2>3. /\ phase[c] = "online" /\ phase'[c] = "ended" /\ key' = key /\ indices' = indices
          /\ \A d \in Conns \ {c} : phase'[d] = phase[d]
          /\ sv' = pop(sv, n)
      BY <1>4 DEF EndConnection, remove_client, TypeOK, sv
    <2>4. n \in Indices(sv) => Object(sv, n) = c /\ ~Empty(sv, n)
      <3>1. n \in Indices(sv) => n # invalid_index
        BY DEF Indices, invalid_index
      <3> QED
        BY <1>0, <2>3, <3>1 DEF OnlineOwns, Empty
    <2> HIDE DEF n
    <2>5. FreeExact(sv')
      <3>1. CASE n \in Indices(sv)
        BY <1>0, <2>3, <2>4, <3>1, PopFree
      <3>2. CASE n \notin Indices(sv)
        BY <1>0, <2>3, <3>2 DEF pop
      <3> QED
        BY <3>1, <3>2
    <2>6. \A i \in Indices(sv) : Object(sv, i) = c => i = n
      <3> SUFFICES ASSUME NEW i \in Indices(sv), Object(sv, i) = c PROVE i = n
        OBVIOUS
      <3>1. ~Empty(sv, i)
        BY <1>0 DEF Empty
      <3>2. indices[c] = [index |-> i, generation |-> Generation(sv, i)]
        BY <3>1 DEF Handles, OccupantsIssued
      <3> QED
        BY <3>2 DEF n
    <2>7. OccupantsOnline'
      BY <1>0, <2>2, <2>3, <2>6 DEF OccupantsOnline, Empty
    <2>8. OnlineOwns'
      <3> SUFFICES ASSUME NEW d \in Conns, phase'[d] = "online",
                          indices[d].index # invalid_index
                   PROVE  /\ indices[d].index \in Indices(sv')
                          /\ Object(sv', indices[d].index) = d
        BY <2>3 DEF OnlineOwns, invalid_index
      <3>1. d # c /\ indices[d].index \in Indices(sv) /\ Object(sv, indices[d].index) = d
        BY <1>0, <2>3 DEF OnlineOwns
      <3> QED
        BY <2>2, <2>4, <3>1
    <2>9. Addressee'
      <3> SUFFICES ASSUME NEW k \in DOMAIN client_indices \ {key[c]}
                   PROVE  /\ client_indices[k].index \in Indices(sv')
                          /\ Object(sv', client_indices[k].index) \in Claims(k)'
        BY <2>2 DEF Addressee
      <3> DEFINE i == client_indices[k].index
      <3>1. i \in Indices(sv) /\ Object(sv, i) \in Claims(k)
        BY <1>0 DEF Addressee
      <3>2. Object(sv, i) # c
        BY <3>1 DEF Claims
      <3>3. i # n
        BY <2>4, <3>1, <3>2
      <3>4. Object(sv, i) \in Claims(k)'
        BY <2>3, <3>1, <3>2 DEF Claims
      <3> QED
        BY <2>2, <3>1, <3>3, <3>4
    <2> QED
      BY <2>5, <2>7, <2>8, <2>9
  <1>5. ASSUME NEW c \in Conns, NEW k \in Keys \cup {NoKey}, AbortLogin(c, k) PROVE FALSE
    BY <1>5 DEF AbortLogin
  <1>6. ASSUME UNCHANGED vars
        PROVE  OccupantsOnline' /\ OnlineOwns' /\ FreeExact(sv') /\ Addressee'
    BY <1>0, <1>6 DEF vars, OccupantsOnline, OnlineOwns, FreeExact, Addressee, Claims, sv
  <1> QED
    BY <1>1, <1>2, <1>3, <1>4, <1>5, <1>6 DEF Next

LEMMA ReachableStep ==
    RegistryInv /\ [Next]_vars => ClaimsUnique' /\ OnlineClientsReachable'
  <1> DEFINE Reach ==
        \A c \in Conns :
            phase[c] = "online" =>
                /\ key[c] \in DOMAIN client_indices
                /\ client_indices[key[c]] = indices[c]
                /\ Resolves(indices[c])
             Unique ==
        \A c, d \in Conns :
            /\ phase[c] \in {"adding", "online"}
            /\ phase[d] \in {"adding", "online"}
            /\ key[c] = key[d]
            => c = d
  <1> SUFFICES ASSUME RegistryInv, [Next]_vars, anomalies' = {}
               PROVE  Unique' /\ Reach'
    BY DEF ClaimsUnique, OnlineClientsReachable
  <1>0. /\ anomalies = {}
        /\ TypeOK /\ Handles /\ Unique /\ Reach
        /\ OnlineOwns /\ FreeExact(sv) /\ Addressee
        /\ NoClient \notin Conns /\ IsSlotVector(sv, Conns)
    <2>1. anomalies = {}
      BY DEF Next, Accept, Login, Register, EndConnection, AbortLogin, vars
    <2> QED
      BY <2>1, RegistryAssumption
      DEF RegistryInv, ClaimsUnique, OnlineClientsReachable, Owners, FreeListExact,
          AddresseeOnly, FreeExact, Addressee, TypeOK, sv
  <1>1. ASSUME NEW c \in Conns, Accept(c) PROVE Unique' /\ Reach'
    BY <1>0, <1>1 DEF Accept, TypeOK, Resolves
  <1>2. ASSUME NEW c \in Conns, NEW k \in Keys, Login(c, k) PROVE Unique' /\ Reach'
    <2>1. Claims(k) = {}
      BY <1>0, <1>2 DEF Login
    <2>2. k \notin DOMAIN client_indices
      BY <1>0, <2>1 DEF Addressee
    <2>3. /\ clients_slot_vector' = clients_slot_vector /\ client_indices' = client_indices
          /\ indices' = indices
          /\ phase'[c] = "adding" /\ key'[c] = k
          /\ \A d \in Conns \ {c} : phase'[d] = phase[d] /\ key'[d] = key[d]
      BY <1>0, <1>2, <2>2 DEF Login, TypeOK
    <2>4. Unique'
      BY <1>0, <2>1, <2>3 DEF Claims
    <2>5. Reach'
      BY <1>0, <2>3 DEF Resolves
    <2> QED
      BY <2>4, <2>5
  <1>3. ASSUME NEW c \in Conns, Register(c) PROVE Unique' /\ Reach'
    <2> DEFINE n == indices'[c].index
    <2>1. /\ n = NextIndex(sv)
          /\ indices'[c] = [index |-> n, generation |-> Generation(sv', n)]
          /\ \A d \in Conns \ {c} : indices'[d] = indices[d]
          /\ Indices(sv) \subseteq Indices(sv')
          /\ n \in Indices(sv')
          /\ Object(sv', n) = c
          /\ \A i \in Indices(sv') \ {n} :
               i \in Indices(sv) /\ sv'.clients[i] = sv.clients[i]
          /\ DOMAIN client_indices' = DOMAIN client_indices \cup {key[c]}
          /\ client_indices'[key[c]] = indices'[c]
          /\ \A k \in DOMAIN client_indices :
               k # key[c] => client_indices'[k] = client_indices[k]
      BY <1>0, <1>3, RegisterEffect
    <2>2. indices'[c].generation = Generation(sv', n)
      BY <2>1
    <2> HIDE DEF n
    <2>3. /\ phase[c] = "adding" /\ phase'[c] = "online" /\ key' = key
          /\ \A d \in Conns \ {c} : phase'[d] = phase[d]
      BY <1>0, <1>3 DEF Register, TypeOK
    <2>4. Unique'
      BY <1>0, <2>3
    <2>5. n \in Indices(sv) => Empty(sv, n)
      BY <1>0, <2>1, EmplaceBackFree
    <2>6. Reach'
      <3> SUFFICES ASSUME NEW d \in Conns, phase'[d] = "online"
                   PROVE  /\ key[d] \in DOMAIN client_indices'
                          /\ client_indices'[key[d]] = indices'[d]
                          /\ indices'[d].index \in Indices(sv')
                          /\ ~Empty(sv', indices'[d].index)
                          /\ Generation(sv', indices'[d].index) = indices'[d].generation
        BY <2>3 DEF Resolves, sv
      <3>1. CASE d = c
        BY <1>0, <2>1, <2>2, <3>1 DEF Empty, n
      <3>2. CASE d # c
        <4> DEFINE i == indices[d].index
        <4>1. /\ key[d] \in DOMAIN client_indices /\ client_indices[key[d]] = indices[d]
              /\ i \in Indices(sv) /\ ~Empty(sv, i)
              /\ Generation(sv, i) = indices[d].generation
          BY <1>0, <2>3, <3>2 DEF Resolves, sv
        <4>2. key[d] # key[c]
          BY <1>0, <2>3, <3>2
        <4>3. i # n /\ i \in Indices(sv') /\ sv'.clients[i] = sv.clients[i]
          BY <2>1, <2>5, <4>1
        <4> QED
          BY <2>1, <3>2, <4>1, <4>2, <4>3 DEF Empty, Object, Generation
      <3> QED
        BY <3>1, <3>2
    <2> QED
      BY <2>4, <2>6
  <1>4. ASSUME NEW c \in Conns, EndConnection(c) PROVE Unique' /\ Reach'
    <2> DEFINE n == indices[c].index
    <2>1. n \in Int
      BY <1>0 DEF TypeOK, ClientIndex
    <2>2. /\ Indices(sv') = Indices(sv)
          /\ \A j \in Indices(sv) : Generation(sv', j) = Generation(sv, j)
          /\ \A j \in Indices(sv) \ {n} : Object(sv', j) = Object(sv, j)
          /\ DOMAIN client_indices' = DOMAIN client_indices \ {key[c]}
          /\ \A j \in DOMAIN client_indices' : client_indices'[j] = client_indices[j]
      BY <1>0, <1>4, <2>1, RemoveClient DEF EndConnection
    <2>3. /\ phase[c] = "online" /\ phase'[c] = "ended" /\ key' = key /\ indices' = indices
          /\ \A d \in Conns \ {c} : phase'[d] = phase[d]
      BY <1>0, <1>4 DEF EndConnection, TypeOK
    <2>4. Unique'
      BY <1>0, <2>3
    <2>5. Reach'
      <3> SUFFICES ASSUME NEW d \in Conns \ {c}, phase[d] = "online"
                   PROVE  /\ key[d] \in DOMAIN client_indices'
                          /\ client_indices'[key[d]] = indices[d]
                          /\ indices[d].index \in Indices(sv')
                          /\ ~Empty(sv', indices[d].index)
                          /\ Generation(sv', indices[d].index) = indices[d].generation
        BY <2>3 DEF Resolves, sv
      <3> DEFINE i == indices[d].index
      <3>1. /\ key[d] \in DOMAIN client_indices /\ client_indices[key[d]] = indices[d]
            /\ i \in Indices(sv) /\ ~Empty(sv, i)
            /\ Generation(sv, i) = indices[d].generation
        BY <1>0 DEF Resolves, sv
      <3>2. key[d] # key[c]
        BY <1>0, <2>3
      <3>3. i # invalid_index
        BY <3>1 DEF Indices, invalid_index
      <3>4. Object(sv, i) = d
        BY <1>0, <3>3 DEF OnlineOwns
      <3>5. i # n
        <4>1. Object(sv, n) = c \/ n = invalid_index
          BY <1>0, <2>3 DEF OnlineOwns
        <4> QED
          BY <3>3, <3>4, <4>1
      <3> QED
        BY <2>2, <3>1, <3>2, <3>5 DEF Empty
    <2> QED
      BY <2>4, <2>5
  <1>5. ASSUME NEW c \in Conns, NEW k \in Keys \cup {NoKey}, AbortLogin(c, k) PROVE FALSE
    BY <1>5 DEF AbortLogin
  <1>6. ASSUME UNCHANGED vars PROVE Unique' /\ Reach'
    BY <1>0, <1>6 DEF vars, Resolves
  <1> QED
    BY <1>1, <1>2, <1>3, <1>4, <1>5, <1>6 DEF Next

-----------------------------------------------------------------------------
(* Theorems *)

\* RegistryInv is an invariant of the registry.
THEOREM Invariance == Spec => []RegistryInv
  <1>1. Init => RegistryInv
    BY InitInv
  <1>2. RegistryInv /\ [Next]_vars => RegistryInv'
    BY TypeStep, HandlesStep, OwnersStep, ReachableStep DEF RegistryInv, Handles
  <1> QED
    BY <1>1, <1>2, PTL DEF Spec

\* The registry's state has its type: in particular every index on the free list
\* names a slot, and every key in the map was read from a connection.
THEOREM TypeCorrect == Spec => []TypeOK
  <1>1. RegistryInv => TypeOK
    BY DEF RegistryInv
  <1> QED
    BY <1>1, Invariance, PTL

\* A handle that resolves leads to the connection that holds it.
LEMMA OwnHandle ==
    ASSUME RegistryInv, NEW c \in Conns, Resolves(indices[c])
    PROVE  Object(clients_slot_vector, indices[c].index) = c
  <1> DEFINE i == indices[c].index
             o == Object(sv, i)
  <1>1. /\ i \in Indices(sv) /\ ~Empty(sv, i)
        /\ Generation(sv, i) = indices[c].generation
    BY DEF Resolves, sv
  <1>2. o \in Conns /\ Generation(sv, i) \in Nat \ {0}
    BY <1>1 DEF RegistryInv, TypeOK, IsSlotVector, Indices, Empty, Object, Generation, sv
  <1>3. indices[o] = [index |-> i, generation |-> Generation(sv, i)]
    BY <1>1 DEF RegistryInv, Handles, OccupantsIssued
  <1>4. indices[c] = [index |-> i, generation |-> indices[c].generation]
    BY DEF RegistryInv, TypeOK, ClientIndex
  <1>5. indices[o] = indices[c] /\ Registered(c)
    BY <1>1, <1>2, <1>3, <1>4 DEF Registered
  <1>6. o = c
    BY <1>2, <1>5 DEF RegistryInv, Handles, HandlesUnique, Registered
  <1> QED
    BY <1>6 DEF sv

\* A handle that add_client gave out (server.cpp:114) never resolves to another
\* client, however slots were freed and reused in between.
THEOREM StaleHandlesAreRejected == Spec => []StaleHandleRejected
  <1>1. RegistryInv => StaleHandleRejected
    BY OwnHandle DEF StaleHandleRejected
  <1> QED
    BY <1>1, Invariance, PTL

\* Until a login is aborted, the free list is exactly the set of empty slots, so
\* emplace_back never overwrites a client and never grows past a free slot.
THEOREM FreeListIsExact == Spec => []FreeListExact
  <1>1. RegistryInv => FreeListExact
    BY DEF RegistryInv
  <1> QED
    BY <1>1, Invariance, PTL

\* Until a login is aborted, the key map only leads to clients that logged in
\* with the key: a looked-up recipient is the addressee.
THEOREM OnlyTheAddressee == Spec => []AddresseeOnly
  <1>1. RegistryInv => AddresseeOnly
    BY DEF RegistryInv
  <1> QED
    BY <1>1, Invariance, PTL

\* While logins are regular, every connection that is through add_client is found
\* under its key at the slot and generation it was given.
THEOREM OnlineMeansReachable == Spec => []OnlineClientsReachable
  <1>1. RegistryInv => OnlineClientsReachable
    BY DEF RegistryInv
  <1> QED
    BY <1>1, Invariance, PTL

=============================================================================
