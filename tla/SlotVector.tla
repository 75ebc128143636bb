----------------------------- MODULE SlotVector -----------------------------
(***************************************************************************)
(* slot<T> (core/util/slot.hpp) and slot_vector<T>                         *)
(* (core/util/slot_vector.hpp): a growing vector whose cleared slots are   *)
(* reused first in, first out.  A slot counts the objects it has held, so  *)
(* that <<index, generation>> can name an object after the slot was reused.*)
(*                                                                         *)
(* A slot vector is a value: the operators below map one to the next, and  *)
(* the modules that keep one in a variable say when each is called.        *)
(* Indices start at 0, as in the code.                                     *)
(***************************************************************************)
EXTENDS Integers, Sequences

CONSTANT NoClient       \* the disengaged std::optional of an empty slot

\* client_index::invalid_index: the all-ones size_t, which no vector reaches.
\* It is written -1, the value database.cpp converts to it.
invalid_index == -1

\* The values a slot vector of the given objects can take.
IsSlotVector(sv, objects) ==
    /\ DOMAIN sv = {"clients", "empty_slots", "global_index"}
    /\ sv.global_index \in Nat
    /\ sv.clients \in [0 .. sv.global_index - 1 ->
                          [object : objects \cup {NoClient}, generation : Nat \ {0}]]
    /\ sv.empty_slots \in Seq(0 .. sv.global_index - 1)

NoSlots == [clients |-> [i \in {} |-> NoClient], empty_slots |-> <<>>, global_index |-> 0]

\* clients_slot_vector[i]; global_index equals clients.size().
Indices(sv) == 0 .. sv.global_index - 1
Object(sv, i) == sv.clients[i].object
Generation(sv, i) == sv.clients[i].generation
Empty(sv, i) == Object(sv, i) = NoClient

-----------------------------------------------------------------------------
(* slot<T> *)

NewSlot(x) == [object |-> x, generation |-> 1]

\* A reused slot that forgets to count its new object.
SetValueSameGeneration(slot, x) == [object |-> x, generation |-> slot.generation]

set_value(slot, x) == [object |-> x, generation |-> slot.generation + 1]

clear(slot) == [slot EXCEPT !.object = NoClient]

-----------------------------------------------------------------------------
(* slot_vector<T> *)

\* Where the next object goes, and the generation it is given there.
NextIndex(sv) == IF sv.empty_slots # <<>> THEN Head(sv.empty_slots) ELSE sv.global_index
NextGeneration(sv) ==
    IF sv.empty_slots # <<>> THEN sv.clients[NextIndex(sv)].generation + 1 ELSE 1

\* A reuse that leaves the index on the free list, so that it is handed out again.
EmplaceBackKeepsFree(sv, x) ==
    IF sv.empty_slots # <<>>
    THEN [sv EXCEPT !.clients[NextIndex(sv)] = set_value(@, x)]
    ELSE [sv EXCEPT !.clients = [i \in 0 .. sv.global_index |->
                                    IF i = sv.global_index THEN NewSlot(x) ELSE @[i]],
                    !.global_index = @ + 1]

emplace_back(sv, x) ==
    IF sv.empty_slots # <<>>
    THEN [sv EXCEPT !.clients[NextIndex(sv)] = set_value(@, x),
                    !.empty_slots = Tail(@)]
    ELSE [sv EXCEPT !.clients = [i \in 0 .. sv.global_index |->
                                    IF i = sv.global_index THEN NewSlot(x) ELSE @[i]],
                    !.global_index = @ + 1]

\* A pop without the bounds check of its first line.
PopUnchecked(sv, i) ==
    [sv EXCEPT !.clients[i] = clear(@), !.empty_slots = Append(@, i)]

\* Only the index is checked: popping an empty slot lists it as free again.
pop(sv, i) ==
    IF i \notin Indices(sv) THEN sv
    ELSE [sv EXCEPT !.clients[i] = clear(@), !.empty_slots = Append(@, i)]

=============================================================================
