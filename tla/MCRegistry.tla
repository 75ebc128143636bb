----------------------------- MODULE MCRegistry -----------------------------
(* Four connections over two keys: a slot is freed, reused and freed again *)
(* while a third connection is online, and two connections share a key.    *)
EXTENDS Registry, TLC

Symmetry == Permutations(Conns) \cup Permutations(Keys)

=============================================================================
