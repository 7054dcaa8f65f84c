----------------------------- MODULE SnapThread -----------------------------
(***************************************************************************)
(* snap_thread: a thread that its owner starts and stops, with the mutex   *)
(* and the condition of the object.                                        *)
(*                                                                         *)
(* The owner keeps the mutex from the first line of start() and stop()     *)
(* until it waits, and a critical section without a wait() is one step.    *)
(***************************************************************************)
EXTENDS Naturals

VARIABLES
    owner,      \* what the owner of the thread does
    child,      \* what the thread does; "none" before it is created, "done"
                \* past the last critical section of internal_run(): it may still
                \* be exiting
    waits,      \* the owner is in pthread_cond_wait()
    running,    \* f_running
    started,    \* f_started
    stopping,   \* f_stopping
    exception   \* f_exception

threadVars == <<owner, child, waits, running, started, stopping, exception>>

ThreadInit ==
    /\ owner = "loop"
    /\ child = "none"
    /\ waits = FALSE
    /\ running = FALSE /\ started = FALSE /\ stopping = FALSE
    /\ exception = FALSE

\* A slip: nobody is woken.
SignalNot(w) == w

\* snap_mutex::signal() wakes the owner if it waits; it is not remembered.
Signal(w) == FALSE

\* pthread_cond_wait() may return without a signal.
SpuriousWakeup ==
    /\ waits
    /\ waits' = FALSE
    /\ UNCHANGED <<owner, child, running, started, stopping, exception>>

-----------------------------------------------------------------------------
(* start()                                                                 *)

MayStart == ~running

\* The thread is created, and start() waits for it: it cannot have f_started
\* before, because the owner has the mutex.
start ==
    /\ MayStart
    /\ running' = TRUE /\ started' = FALSE /\ stopping' = FALSE
    /\ child' = "created"
    /\ waits' = TRUE /\ owner' = "start"
    /\ UNCHANGED exception

\* The flags that pthread_create() leaves behind when it fails.
CreateFails ==
    /\ MayStart
    /\ running' = TRUE /\ started' = FALSE /\ stopping' = FALSE
    /\ UNCHANGED <<child, waits, exception>>

\* The loop around wait(): f_started is tested each time the owner wakes up.
StartLoop ==
    /\ owner = "start" /\ ~waits
    /\ owner' = IF started THEN "loop" ELSE "start"
    /\ waits' = ~started
    /\ UNCHANGED <<child, running, started, stopping, exception>>

-----------------------------------------------------------------------------
(* internal_run()                                                          *)

Begin ==
    /\ child = "created"
    /\ started' = TRUE
    /\ waits' = Signal(waits)
    /\ child' = "gather"
    /\ UNCHANGED <<owner, running, stopping, exception>>

\* run() returned.
End ==
    /\ child = "return"
    /\ running' = FALSE
    /\ waits' = Signal(waits)
    /\ child' = "done"
    /\ UNCHANGED <<owner, started, stopping, exception>>

\* run() threw: the exception is kept, and nothing else is done.
Throws ==
    /\ exception' = TRUE
    /\ child' = "done"
    /\ UNCHANGED <<owner, waits, running, started, stopping>>

\* continue_running()
continue_running == ~stopping

-----------------------------------------------------------------------------
(* stop()                                                                  *)

\* The destructor calls it: the object is gone when it returns.
stop ==
    /\ IF running
       THEN stopping' = TRUE /\ waits' = TRUE /\ owner' = "stop"
       ELSE owner' = "exited" /\ UNCHANGED <<stopping, waits>>
    /\ UNCHANGED <<child, running, started, exception>>

\* A slip: `if` where the loop is, a wake up is taken for the end of the thread.
StoppedAtWakeup == TRUE

Stopped == ~running

StopLoop ==
    /\ owner = "stop" /\ ~waits
    /\ owner' = IF Stopped THEN "exited" ELSE "stop"
    /\ waits' = ~Stopped
    /\ UNCHANGED <<child, running, started, stopping, exception>>

\* f_running is set, and there is no thread to reset it.
Stuck == running /\ child \in {"none", "done"}

=============================================================================
