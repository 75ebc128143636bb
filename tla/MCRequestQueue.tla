--------------------------- MODULE MCRequestQueue ---------------------------
(* Four statements let one be submitted in every state of the loop while     *)
(* others wait, and the loop fall asleep and be woken again.                 *)
EXTENDS RequestQueue

=============================================================================
