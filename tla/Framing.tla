------------------------------- MODULE Framing -------------------------------
(***************************************************************************)
(* The bytes of a connection: the key, then frames                         *)
(*     [prefix][message size][recipient's key][message]                    *)
(* of which the receive loop makes the queued messages                     *)
(*     [message size][sender's key][message]                               *)
(* that a recipient finds in the stream written to it.  The size is four   *)
(* bytes in little-endian on both streams, whatever the host's order is.   *)
(*                                                                         *)
(* The bytes that have arrived are one sequence, however the network cuts  *)
(* it: a read of n bytes completes when n are there.                       *)
(***************************************************************************)
EXTENDS Integers, Sequences

CONSTANTS Base,                 \* the number of values of a byte, 256
          KeySize,              \* E2E_KEYS_RAW_L
          Prefix,               \* GREETINGS_PREFIX
          MinMessageSize, MaxMessageSize,
          MaxBytes              \* bound on the bytes that the peer sends

Byte == 0 .. Base - 1
Keys == [1 .. KeySize -> Byte]

ASSUME FramingAssumption ==
    /\ Base \in Nat /\ Base > 1 /\ KeySize \in Nat /\ MaxBytes \in Nat
    /\ Prefix \in Byte
    /\ MinMessageSize \in Nat /\ MaxMessageSize \in Nat
    /\ MinMessageSize <= MaxMessageSize
    /\ MaxMessageSize < Base * (Base * (Base * Base))

VARIABLES
    native,         \* std::endian::native
    stream,         \* what the peer has sent
    peer_open,      \* whether it may send more
    read,           \* how many bytes the server has read
    pc,             \* what the receive loop waits for: "key", "greetings", "message"
    public_key,     \* the peer's key
    message_size, recipient,    \* of the frame whose message is read
    out,            \* the bytes queued for each recipient
    taken,          \* how many of them it has read
    seen,           \* the messages it has found there
    relayed,        \* history: the messages that were queued, with their places
    mail            \* history: those for each recipient, with their places in its stream

vars == <<native, stream, peer_open, read, pc, public_key, message_size, recipient,
          out, taken, seen, relayed, mail>>

-----------------------------------------------------------------------------
(* Numbers of four bytes                                                    *)

\* The number that four bytes mean, lowest first, and the bytes of a number.
Value(d) == d[1] + Base * (d[2] + Base * (d[3] + Base * d[4]))
Digits(n) ==
    LET n2 == n \div Base
        n3 == n2 \div Base
        n4 == n3 \div Base
    IN  <<n % Base, n2 % Base, n3 % Base, n4 % Base>>

Swapped(d) == <<d[4], d[3], d[2], d[1]>>

\* std::byteswap
byteswap(n) == Value(Swapped(Digits(n)))

\* memcpy of four bytes into a number, and std::bit_cast of a number to four bytes.
memcpy(d) == IF native = "little" THEN Value(d) ELSE Value(Swapped(d))
bit_cast(n) == IF native = "little" THEN Digits(n) ELSE Swapped(Digits(n))

\* The message size of a frame, and the size field of a queued message.
SizeOf(d) == IF native = "big" THEN byteswap(memcpy(d)) ELSE memcpy(d)
SizeFieldNative(n) == bit_cast(n)
SizeField(n) == IF native # "little" THEN bit_cast(byteswap(n)) ELSE bit_cast(n)

-----------------------------------------------------------------------------

Messages == UNION {[1 .. n -> Byte] : n \in MinMessageSize .. MaxMessageSize}

TypeOK ==
    /\ native \in {"little", "big"}
    /\ stream \in Seq(Byte) /\ Len(stream) <= MaxBytes
    /\ peer_open \in BOOLEAN
    /\ read \in 0 .. Len(stream)
    /\ pc \in {"key", "greetings", "message", "ended"}
    /\ public_key \in Keys /\ recipient \in Keys
    /\ message_size \in Nat
    /\ pc = "message" => message_size \in MinMessageSize .. MaxMessageSize
    /\ out \in [Keys -> Seq(Byte)]
    /\ taken \in [Keys -> Nat] /\ \A k \in Keys : taken[k] <= Len(out[k])
    /\ seen \in [Keys -> Seq([from : Keys, message : Seq(Byte)])]
    /\ relayed \in Seq([at : Nat, to : Keys, message : Messages])
    /\ mail \in [Keys -> Seq([at : Nat, message : Messages])]

NoBytes == [j \in 1 .. KeySize |-> 0]

Init ==
    /\ native \in {"little", "big"}
    /\ stream = <<>> /\ peer_open = TRUE /\ read = 0
    /\ pc = "key"
    /\ public_key = NoBytes /\ recipient = NoBytes /\ message_size = 0
    /\ out = [k \in Keys |-> <<>>]
    /\ taken = [k \in Keys |-> 0]
    /\ seen = [k \in Keys |-> <<>>]
    /\ relayed = <<>>
    /\ mail = [k \in Keys |-> <<>>]

\* n bytes from the place after the first from.
Bytes(s, from, n) == [j \in 1 .. n |-> s[from + j]]

-----------------------------------------------------------------------------
(* The peer                                                                 *)

PeerSends(b) ==
    /\ peer_open /\ pc # "ended"
    /\ Len(stream) < MaxBytes
    /\ stream' = Append(stream, b)
    /\ UNCHANGED <<native, peer_open, read, pc, public_key, message_size, recipient,
                   out, taken, seen, relayed, mail>>

PeerCloses ==
    /\ peer_open
    /\ peer_open' = FALSE
    /\ UNCHANGED <<native, stream, read, pc, public_key, message_size, recipient, out,
                   taken, seen, relayed, mail>>

-----------------------------------------------------------------------------
(* The receive loop                                                         *)

GreetingsSize == 1 + 4 + KeySize

\* The bytes that the read which the loop waits for needs.
Wanted == CASE pc = "key" -> KeySize [] pc = "greetings" -> GreetingsSize
            [] pc = "message" -> message_size [] OTHER -> 0

Arrived(n) == Len(stream) - read >= n

ReadKey ==
    /\ pc = "key"
    /\ Arrived(KeySize)
    /\ public_key' = Bytes(stream, read, KeySize)
    /\ read' = read + KeySize
    /\ pc' = "greetings"
    /\ UNCHANGED <<native, stream, peer_open, message_size, recipient, out, taken, seen,
                   relayed, mail>>

\* A check without its upper bound, or with another one, or of the size alone.
AcceptsAnySize(prefix, n) == prefix = Prefix /\ n >= MinMessageSize
AcceptsBelowMax(prefix, n) == prefix = Prefix /\ n >= MinMessageSize /\ n < MaxMessageSize
AcceptsAnyPrefix(prefix, n) == n >= MinMessageSize /\ n <= MaxMessageSize

\* The prefix and the size are checked before the message is read.
Accepts(prefix, n) == prefix = Prefix /\ n >= MinMessageSize /\ n <= MaxMessageSize

\* The greetings of a frame; a malformed one ends the connection.
ReadGreetings ==
    LET greetings == Bytes(stream, read, GreetingsSize)
        size == SizeOf(Bytes(greetings, 1, 4))
    IN  /\ pc = "greetings"
        /\ Arrived(GreetingsSize)
        /\ read' = read + GreetingsSize
        /\ IF Accepts(greetings[1], size)
           THEN /\ pc' = "message"
                /\ message_size' = size
                /\ recipient' = Bytes(greetings, 5, KeySize)
           ELSE pc' = "ended" /\ UNCHANGED <<message_size, recipient>>
        /\ UNCHANGED <<native, stream, peer_open, public_key, out, taken, seen, relayed, mail>>

\* The queued message is made and goes to the recipient's stream, by way of its
\* queue or of the database.
ReadMessage ==
    LET message == Bytes(stream, read, message_size)
        queued_message == SizeField(message_size) \o public_key \o message
    IN  /\ pc = "message"
        /\ Arrived(message_size)
        /\ read' = read + message_size
        /\ pc' = "greetings"
        /\ out' = [out EXCEPT ![recipient] = @ \o queued_message]
        /\ relayed' = Append(relayed, [at |-> read - GreetingsSize, to |-> recipient,
                                       message |-> message])
        /\ mail' = [mail EXCEPT ![recipient] = Append(@, [at |-> Len(out[recipient]),
                                                           message |-> message])]
        /\ UNCHANGED <<native, stream, peer_open, public_key, message_size, recipient,
                       taken, seen>>

\* The peer has closed before the bytes of a read were there: async_read throws.
ReadFails ==
    /\ pc # "ended"
    /\ ~peer_open /\ ~Arrived(Wanted)
    /\ pc' = "ended"
    /\ UNCHANGED <<native, stream, peer_open, read, public_key, message_size, recipient,
                   out, taken, seen, relayed, mail>>

-----------------------------------------------------------------------------
(* A recipient, which reads its stream as the format says                   *)

\* A whole queued message is there.
HasMessage(k) ==
    LET left == Len(out[k]) - taken[k]
    IN  /\ left >= 4 + KeySize
        /\ left >= 4 + KeySize + Value(Bytes(out[k], taken[k], 4))

RecipientReads(k) ==
    LET size == Value(Bytes(out[k], taken[k], 4))
    IN  /\ HasMessage(k)
        /\ seen' = [seen EXCEPT ![k] =
                       Append(@, [from |-> Bytes(out[k], taken[k] + 4, KeySize),
                                  message |-> Bytes(out[k], taken[k] + 4 + KeySize, size)])]
        /\ taken' = [taken EXCEPT ![k] = @ + 4 + KeySize + size]
        /\ UNCHANGED <<native, stream, peer_open, read, pc, public_key, message_size,
                       recipient, out, relayed, mail>>

-----------------------------------------------------------------------------

Next ==
    \/ \E b \in Byte : PeerSends(b)
    \/ PeerCloses
    \/ ReadKey \/ ReadGreetings \/ ReadMessage \/ ReadFails
    \/ \E k \in Keys : RecipientReads(k)

Spec == Init /\ [][Next]_vars

-----------------------------------------------------------------------------
(* What the format promises.                                                *)

\* A frame as a client makes it.
Frame(to, message) == <<Prefix>> \o Digits(Len(message)) \o to \o message

\* Where the next frame starts, after those that were relayed.
FrameStart(n) ==
    IF n = 0 THEN KeySize
    ELSE relayed[n].at + GreetingsSize + Len(relayed[n].message)

\* The relayed messages are the frames of the peer's stream, one behind the other
\* from the key on, so that the loop never loses the start of a frame and relays no
\* part of one (connection.cpp:60-115).
RelayedAsSent ==
    \A n \in DOMAIN relayed :
        LET frame == Frame(relayed[n].to, relayed[n].message)
        IN  /\ relayed[n].at = FrameStart(n - 1)
            /\ Bytes(stream, relayed[n].at, Len(frame)) = frame

\* The loop ends a connection only where no well-formed frame follows
\* (connection.cpp:64-80): none is refused at a boundary of its size.
EndsOnlyAtMalformed ==
    pc = "ended" =>
        \A to \in Keys, message \in Messages :
            LET frame == Frame(to, message)
                start == FrameStart(Len(relayed))
            IN  start + Len(frame) <= Len(stream) => Bytes(stream, start, Len(frame)) # frame

\* What a recipient finds in its stream is what was relayed to it, from the key
\* that the sender logged in with, and every byte belongs to a whole message: on a
\* big-endian host too (connection.cpp:70-115).
RecipientsSeeWhatWasSent ==
    \A k \in Keys :
        /\ \A n \in DOMAIN seen[k] :
               /\ n <= Len(mail[k])
               /\ seen[k][n] = [from |-> public_key, message |-> mail[k][n].message]
        /\ taken[k] = Len(out[k]) => Len(seen[k]) = Len(mail[k])
        /\ taken[k] < Len(out[k]) => HasMessage(k)

=============================================================================
