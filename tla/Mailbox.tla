------------------------------- MODULE Mailbox -------------------------------
(***************************************************************************)
(* What the server is for (README.md:3-4): it takes messages for keys and  *)
(* gives them to the clients that log in with those keys, at once or from  *)
(* where it keeps them; Relay implements this.  How a client is found, who *)
(* writes to its socket and what is suspended where is not seen here.      *)
(*                                                                         *)
(* Messages are numbered in the order in which they are taken.             *)
(***************************************************************************)
EXTENDS Naturals, Sequences

CONSTANTS Clients, Keys, NoKey

VARIABLES
    to,         \* the addressee of each message
    owner,      \* the key that a client logged in with
    session,    \* whether it is "out", "in" or "gone"
    kept,       \* the messages that are kept for a key
    ever_kept,  \* those that ever were
    given,      \* what each client has been given, in order
    written,    \* how much of that was written to it
    irregular   \* nothing is promised any more

vars == <<to, owner, session, kept, ever_kept, given, written, irregular>>

clients == <<owner, session>>

Init ==
    /\ to = <<>>
    /\ owner = [c \in Clients |-> NoKey]
    /\ session = [c \in Clients |-> "out"]
    /\ kept = {} /\ ever_kept = {}
    /\ given = [c \in Clients |-> <<>>]
    /\ written = [c \in Clients |-> 0]
    /\ irregular = FALSE

GivenTo(c) == {given[c][p] : p \in DOMAIN given[c]}

LogIn(c, k) ==
    /\ session[c] = "out" /\ owner[c] = NoKey
    /\ owner' = [owner EXCEPT ![c] = k]
    /\ session' \in {session, [session EXCEPT ![c] = "in"]}
    /\ UNCHANGED <<to, kept, ever_kept, given, written, irregular>>

Enter(c) ==
    /\ session[c] = "out" /\ owner[c] # NoKey
    /\ session' = [session EXCEPT ![c] = "in"]
    /\ UNCHANGED <<to, owner, kept, ever_kept, given, written, irregular>>

Leave(c) ==
    /\ session[c] = "in"
    /\ session' = [session EXCEPT ![c] = "gone"]
    /\ UNCHANGED <<to, owner, kept, ever_kept, given, written, irregular>>

\* A message goes straight to a client that is in.
Relay(c) ==
    /\ session[c] = "in"
    /\ to' = Append(to, owner[c])
    /\ given' = [given EXCEPT ![c] = Append(@, Len(to) + 1)]
    /\ UNCHANGED <<clients, kept, ever_kept, written, irregular>>

\* A message is kept.
Keep(k) ==
    /\ to' = Append(to, k)
    /\ kept' = kept \cup {Len(to) + 1}
    /\ ever_kept' = ever_kept \cup {Len(to) + 1}
    /\ UNCHANGED <<clients, given, written, irregular>>

\* A message that was kept is given to a client that is in, once and behind the older
\* ones; another client with the key may have been given it meanwhile.
Hand(c, m) ==
    /\ session[c] = "in"
    /\ m \in ever_kept /\ to[m] = owner[c]
    /\ \A n \in GivenTo(c) \cap ever_kept : n < m
    /\ given' = [given EXCEPT ![c] = Append(@, m)]
    /\ UNCHANGED <<to, clients, kept, ever_kept, written, irregular>>

\* Messages are no longer kept once a client with their key was given them.
Forget ==
    /\ kept' \subseteq kept
    /\ \A m \in kept \ kept' : \E c \in Clients : owner[c] = to[m] /\ m \in GivenTo(c)
    /\ UNCHANGED <<to, clients, ever_kept, given, written, irregular>>

\* The next message is written, perhaps after the client is gone.
Write(c) ==
    /\ written[c] < Len(given[c])
    /\ written' = [written EXCEPT ![c] = @ + 1]
    /\ UNCHANGED <<to, clients, kept, ever_kept, given, irregular>>

Next ==
    \/ irregular'
    \/ Forget
    \/ \E k \in Keys : Keep(k)
    \/ \E c \in Clients :
           \/ \E k \in Keys : LogIn(c, k)
           \/ Enter(c) \/ Leave(c) \/ Relay(c) \/ Write(c)
           \/ \E m \in ever_kept : Hand(c, m)

Spec == Init /\ [][Next]_vars

=============================================================================
