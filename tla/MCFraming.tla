----------------------------- MODULE MCFraming -----------------------------
(* Bits for bytes and keys of one: every stream of a key and two frames, *)
(* with sizes from below the least to above the largest.                 *)
EXTENDS Framing

=============================================================================
