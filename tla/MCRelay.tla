------------------------------- MODULE MCRelay -------------------------------
(* One user with one session and another with two, so that a session can end *)
(* while messages are on their way to it and the other take over its slot    *)
(* and its stored messages.                                                  *)
EXTENDS Relay

CONSTANTS c1, c2, c3, k1, k2

\* c1 is one user; c2 and c3 are two sessions of another, or of either.
TwoUsers == [c \in Conns |-> IF c = c1 THEN {k1} ELSE {k2}]
EitherUser == [c \in Conns |-> IF c = c1 THEN {k1} ELSE {k1, k2}]

\* c1 writes to the other user; or anybody to anybody, themselves included.
OneWay == [c \in Conns |-> IF c = c1 THEN {k2} ELSE {}]
AnyWay == [c \in Conns |-> Keys]

\* Bounds the liveness run.  Two clients are suspended in a send to each other only
\* with four messages: a third and a fourth come only after two from c1 to c2, both
\* from c2 to c1, and all of them directly.  The peers' frames are all that this
\* restricts, and no fairness is assumed of them.
EachOther ==
    Len(sent') > 2 =>
        \A m \in DOMAIN sent' :
            sent'[m].from = (IF m <= 2 THEN c1 ELSE c2)
            /\ sent'[m].via = (IF m <= 2 THEN c2 ELSE c1)

SessionSymmetry == Permutations({c2, c3})

=============================================================================
