----------------------- MODULE InterThreadConnection -----------------------
(***************************************************************************)
(* snap_inter_thread_message_connection: two FIFOs of messages and, for    *)
(* each, an eventfd in semaphore mode that counts them, on which the       *)
(* reader polls.  Side "A" is the thread that created it.                  *)
(***************************************************************************)
EXTENDS Integers, Sequences

VARIABLES
    fifo,    \* fifo[s]: f_message_a and f_message_b, what side s has to read
    event    \* event[s]: the counters of f_thread_a and f_thread_b

Sides == {"A", "B"}

linkVars == <<fifo, event>>

LinkInit == fifo = [s \in Sides |-> <<>>] /\ event = [s \in Sides |-> 0]

\* A slip: the counter is incremented before the message is there.
SendStepSwapped(half, s, m) ==
    IF half = 1
    THEN event' = [event EXCEPT ![s] = @ + 1] /\ UNCHANGED fifo
    ELSE fifo' = [fifo EXCEPT ![s] = Append(@, m)] /\ UNCHANGED event

\* send_message() to s: push_back(), then the write() to the eventfd.
SendStep(half, s, m) ==
    IF half = 1
    THEN fifo' = [fifo EXCEPT ![s] = Append(@, m)] /\ UNCHANGED event
    ELSE event' = [event EXCEPT ![s] = @ + 1] /\ UNCHANGED fifo

\* poll() says there is something to read.
Readable(s) == event[s] > 0

\* The message that pop_front() finds, or `none`.
Front(s, none) == IF fifo[s] = <<>> THEN none ELSE Head(fifo[s])

\* The first half of process_read(): pop_front(), which does not wait.
Pop(s) ==
    /\ fifo' = [fifo EXCEPT ![s] = IF @ = <<>> THEN @ ELSE Tail(@)]
    /\ UNCHANGED event

\* A slip: without EFD_SEMAPHORE a read() takes the whole counter.
TakenAll(count) == 0

Taken(count) == count - 1

\* The second half: read() of the eventfd.
ReadEvent(s) ==
    /\ event' = [event EXCEPT ![s] = Taken(@)]
    /\ UNCHANGED fifo

\* A slip: the timeout is converted once.
NextTimeoutFixed(timeout) == 60000

\* A slip: less than a millisecond is no time at all.
NextTimeoutZero(timeout) == timeout \div 1000

\* poll(): the loop divides its parameter by 1000 each time round, with 1 as the
\* least: it is in microseconds at the first one only.
NextTimeout(timeout) == IF timeout \div 1000 = 0 THEN 1 ELSE timeout \div 1000

=============================================================================
