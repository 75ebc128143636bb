---------------------------- MODULE RequestQueue ----------------------------
(***************************************************************************)
(* The statement queue of database.cpp: callers enqueue a statement and    *)
(* wait on a channel of their own; one loop executes the statements and    *)
(* signals each caller.  A second channel, request_add_channel, wakes the  *)
(* loop when it waits for work.  get_db_index goes past the queue and uses *)
(* the connection directly.                                                *)
(*                                                                         *)
(* An action is what one coroutine does between two suspensions.  A signal *)
(* on a channel does not run the receiver: it makes it ready, and it runs  *)
(* in a later step of its own.                                             *)
(***************************************************************************)
EXTENDS Integers, Sequences

CONSTANTS Requests,     \* calls of async_execute_queued
          Lookups       \* calls of get_db_index

VARIABLES
    lock_channels,      \* the deque; written oldest first, so back() is its head
    caller,             \* where each call of async_execute_queued is
    loop,               \* where async_execute_queued_loop is
    signals,            \* signals buffered in request_add_channel
    lookup              \* what each call of get_db_index returned

vars == <<lock_channels, caller, loop, signals, lookup>>

\* Capacity of request_add_channel (database.cpp:15), and the one its comment
\* warns of.
RequestAddCapacityOne == 1
RequestAddCapacity == 0

TypeOK ==
    /\ lock_channels \in Seq(Requests)
    /\ caller \in [Requests -> {"idle", "waiting", "ready", "done"}]
    /\ loop \in {"started", "waiting", "woken", "executing", "answered", "ended"}
    /\ signals \in 0 .. RequestAddCapacity
    /\ lookup \in [Lookups -> {"none", "answered", "failed"}]

\* start() spawns the loop, unless a statement before that throws.
Init ==
    /\ lock_channels = <<>>
    /\ caller = [r \in Requests |-> "idle"]
    /\ loop \in {"started", "ended"}
    /\ signals = 0
    /\ lookup = [l \in Lookups |-> "none"]

-----------------------------------------------------------------------------
(* request_add_channel *)

\* A try_send that ignores the capacity of the channel.
TrySendUnbounded ==
    IF loop = "waiting"
    THEN loop' = "woken" /\ UNCHANGED signals
    ELSE signals' = signals + 1 /\ UNCHANGED loop

\* try_send reaches a receiver that waits, else the buffer, else nobody.
try_send ==
    IF loop = "waiting"
    THEN loop' = "woken" /\ UNCHANGED signals
    ELSE /\ signals' = IF signals < RequestAddCapacity THEN signals + 1 ELSE signals
         /\ UNCHANGED loop

\* async_receive by the loop.
Receive ==
    IF signals > 0
    THEN loop' = "woken" /\ signals' = signals - 1
    ELSE loop' = "waiting" /\ UNCHANGED signals

\* wait_until_non_empty for a loop that finds queue: with work in it the loop
\* goes on to back() and async_execute without suspending in between.
wait_until_non_empty(queue) ==
    IF queue = <<>> THEN Receive ELSE loop' = "executing" /\ UNCHANGED signals

-----------------------------------------------------------------------------
(* Callers *)

\* Newest at the back() end, so that the loop takes the statements in reverse.
EnqueueAtBack(r) == <<r>> \o lock_channels

\* lock_channels.emplace_front
emplace_front(r) == Append(lock_channels, r)

\* A call that enqueues its statement without telling the loop.
AddRequestSilently(r) ==
    /\ caller[r] = "idle"
    /\ lock_channels' = emplace_front(r)
    /\ caller' = [caller EXCEPT ![r] = "waiting"]
    /\ UNCHANGED <<loop, signals, lookup>>

\* async_execute_queued up to its suspension: add_request, then async_receive on
\* the new channel.
AsyncExecuteQueued(r) ==
    /\ caller[r] = "idle"
    /\ lock_channels' = emplace_front(r)
    /\ try_send
    /\ caller' = [caller EXCEPT ![r] = "waiting"]
    /\ UNCHANGED lookup

\* The caller runs on with the result.
Resume(r) ==
    /\ caller[r] = "ready"
    /\ caller' = [caller EXCEPT ![r] = "done"]
    /\ UNCHANGED <<lock_channels, loop, signals, lookup>>

\* get_db_index: a synchronous execute on the loop's connection.  While a
\* statement of the loop is under way the connection refuses a second operation,
\* the exception is swallowed and the caller gets index 0.
GetDbIndex(l) ==
    /\ lookup[l] = "none"
    /\ lookup' = [lookup EXCEPT ![l] = IF loop = "executing" THEN "failed" ELSE "answered"]
    /\ UNCHANGED <<lock_channels, caller, loop, signals>>

-----------------------------------------------------------------------------
(* async_execute_queued_loop *)

Start ==
    /\ loop = "started"
    /\ wait_until_non_empty(lock_channels)
    /\ UNCHANGED <<lock_channels, caller, lookup>>

\* The signal arrives: back() of the deque, which must not be empty.
Wake ==
    /\ loop = "woken"
    /\ lock_channels # <<>>
    /\ loop' = "executing"
    /\ UNCHANGED <<lock_channels, caller, signals, lookup>>

\* async_execute is through; the loop sends to the channel on which the caller
\* has waited since it enqueued the statement, which readies both.
Answer ==
    /\ loop = "executing"
    /\ caller[Head(lock_channels)] = "waiting"
    /\ caller' = [caller EXCEPT ![Head(lock_channels)] = "ready"]
    /\ loop' = "answered"
    /\ UNCHANGED <<lock_channels, signals, lookup>>

\* async_execute throws: the exception leaves the for loop as well.
StatementFails ==
    /\ loop = "executing"
    /\ loop' = "ended"
    /\ UNCHANGED <<lock_channels, caller, signals, lookup>>

\* A loop that goes on without pop_back.
PopNextKeepsStatement ==
    /\ loop = "answered"
    /\ wait_until_non_empty(lock_channels)
    /\ UNCHANGED <<lock_channels, caller, lookup>>

\* pop_back and the next round of the loop.
PopNext ==
    /\ loop = "answered"
    /\ lock_channels' = Tail(lock_channels)
    /\ wait_until_non_empty(Tail(lock_channels))
    /\ UNCHANGED <<caller, lookup>>

\* The database answers or fails every statement, and the io_context runs every
\* coroutine that is ready.
LoopStep == Start \/ Wake \/ Answer \/ StatementFails \/ PopNext

Next ==
    \/ \E r \in Requests : AsyncExecuteQueued(r) \/ Resume(r)
    \/ \E l \in Lookups : GetDbIndex(l)
    \/ LoopStep

Fairness ==
    /\ WF_vars(LoopStep)
    /\ \A r \in Requests : WF_vars(Resume(r))

Spec == Init /\ [][Next]_vars /\ Fairness

-----------------------------------------------------------------------------

\* The requests that are in the deque and not yet answered.
Unanswered == IF loop = "answered" THEN Tail(lock_channels) ELSE lock_channels

\* Exactly the callers that wait have their statement in the deque, once each:
\* nobody waits for an answer that cannot come, and the loop never writes to the
\* result of a caller that has gone on (the tuple holds a reference to it,
\* database.hpp:100).
WaitersQueued ==
    /\ \A p, q \in DOMAIN lock_channels : lock_channels[p] = lock_channels[q] => p = q
    /\ \A r \in Requests :
           caller[r] = "waiting" <=> \E p \in DOMAIN Unanswered : Unanswered[p] = r

\* The loop sleeps only when there is nothing to do (no wakeup is lost), and
\* reads back() only of a non-empty deque (no wakeup is stale, which is what the
\* comment at database.cpp:12-14 sets the capacity to zero for).
LoopWokenForWork ==
    /\ loop = "waiting" => lock_channels = <<>>
    /\ loop \in {"woken", "executing", "answered"} => lock_channels # <<>>

\* Unless a statement fails, whoever submits one gets its answer and goes on.
EveryCallerResumes ==
    \A r \in Requests :
        caller[r] = "waiting" ~> (caller[r] = "done" \/ loop = "ended")

\* The queue is a serial executor: one statement at a time, first come first
\* served, each answered once.
Serial == INSTANCE SerialExecutor
            WITH pending <- Unanswered,
                 answered <- {r \in Requests : caller[r] \in {"ready", "done"}},
                 stopped <- loop = "ended"

ImplementsSerialExecutor == Serial!Spec

\* The claim of database.cpp:268-275: requests go through the loop because
\* concurrent access to the connection is something "we cant have".
NoConcurrentAccess == \A l \in Lookups : lookup[l] # "failed"

=============================================================================
