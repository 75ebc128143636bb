--------------------------- MODULE SerialExecutor ---------------------------
(***************************************************************************)
(* What the statement queue of database.cpp promises its callers: one      *)
(* statement runs at a time, in the order of submission, and each is       *)
(* answered once.  After a failure nothing is answered any more.           *)
(***************************************************************************)
EXTENDS Sequences

CONSTANT Requests

VARIABLES pending,      \* submitted and not yet answered, oldest first
          answered,     \* the requests with a result
          stopped

vars == <<pending, answered, stopped>>

Init == pending = <<>> /\ answered = {} /\ stopped \in BOOLEAN

Pending == {pending[i] : i \in DOMAIN pending}

Submit(r) ==
    /\ r \notin Pending \cup answered
    /\ pending' = Append(pending, r)
    /\ UNCHANGED <<answered, stopped>>

Answer ==
    /\ ~stopped
    /\ pending # <<>>
    /\ answered' = answered \cup {Head(pending)}
    /\ pending' = Tail(pending)
    /\ UNCHANGED stopped

Stop ==
    /\ ~stopped
    /\ pending # <<>>
    /\ stopped' = TRUE
    /\ UNCHANGED <<pending, answered>>

Next == (\E r \in Requests : Submit(r)) \/ Answer \/ Stop

Spec == Init /\ [][Next]_vars /\ WF_vars(Answer \/ Stop)

=============================================================================
