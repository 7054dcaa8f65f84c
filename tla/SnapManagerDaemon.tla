-------------------------- MODULE SnapManagerDaemon --------------------------
(***************************************************************************)
(* snapmanagerdaemon and its status thread: the event loop of the daemon   *)
(* (owner) is side A of the connection, manager_status::run() (child) is   *)
(* side B.                                                                 *)
(*                                                                         *)
(* A status is a number.  No front end is listed in the configuration, so  *)
(* that a status is one message, which is forwarded to snapcommunicator.   *)
(***************************************************************************)
EXTENDS SnapThread, InterThreadConnection

CONSTANTS
    PollTimeout,  \* what run() passes to poll(), in microseconds
    MaxChanges,   \* bound: how often the status of the computer changes
    MaxResends,   \* bound: the MANAGERRESEND messages
    MaxConnects   \* bound: how often the messenger connects

ASSUME PollAssumption   == PollTimeout \in Nat /\ PollTimeout >= 2000
ASSUME BoundsAssumption == MaxChanges \in Nat /\ MaxResends \in Nat /\ MaxConnects \in Nat \ {0}

VARIABLES
    messenger,   \* f_messenger: "down", "up", "done" (marked done), "none"
    connects,    \* how often it connected
    asked,       \* PUBLIC_IP will be answered
    linked,      \* f_status_connection is in the communicator
    stopped,     \* manager_daemon::stop() was called
    resends,     \* the MANAGERRESEND messages that came
    requested,   \* f_resend_status
    kicked,      \* history: a WAKEUP was sent for it
    active,      \* manager_status::f_running
    world,       \* the status of the computer
    status,      \* status of run()
    previous,    \* previous_status
    timeout,     \* the parameter of poll()
    message,     \* what process_read() has taken, by its side
    known        \* the last status that snapcommunicator was sent

daemonVars == <<messenger, connects, asked, linked, stopped, resends>>
runnerVars == <<active, world, status, previous, timeout>>
vars == <<threadVars, linkVars, daemonVars, runnerVars, requested, kicked, message, known>>

Statuses == 1 .. MaxChanges + 1
Commands == {"STOP", "WAKEUP"}

\* What process_read() has when its FIFO is empty.
Nothing == [s \in Sides |-> IF s = "A" THEN 0 ELSE "none"]

Init ==
    /\ ThreadInit /\ LinkInit
    /\ messenger = "down" /\ connects = 0 /\ asked = FALSE
    /\ linked = TRUE /\ stopped = FALSE
    /\ resends = 0 /\ requested = FALSE /\ kicked = FALSE
    /\ active = TRUE
    /\ world = 1 /\ status = 0 /\ previous = 0 /\ known = 0
    /\ timeout = PollTimeout
    /\ message = Nothing

-----------------------------------------------------------------------------
(* The event loop.                                                         *)

\* The messenger connects and registers; READY makes the daemon ask for the
\* public address.
Connect ==
    /\ owner = "loop" /\ messenger = "down" /\ connects < MaxConnects
    /\ messenger' = "up" /\ connects' = connects + 1 /\ asked' = TRUE
    /\ UNCHANGED <<threadVars, linkVars, linked, stopped, resends, runnerVars, requested, kicked, message, known>>

\* snapcommunicator goes, and the permanent connection waits for it.
Disconnect ==
    /\ owner = "loop" /\ messenger = "up" /\ connects < MaxConnects
    /\ messenger' = "down" /\ asked' = FALSE
    /\ UNCHANGED <<threadVars, linkVars, connects, linked, stopped, resends, runnerVars, requested, kicked,
                   message, known>>

\* snapcommunicator closes the connection after UNREGISTER.
HangUp ==
    /\ owner = "loop" /\ messenger = "done"
    /\ messenger' = "none" /\ asked' = FALSE
    /\ UNCHANGED <<threadVars, linkVars, connects, linked, stopped, resends, runnerVars, requested, kicked,
                   message, known>>

\* manager_daemon::stop(), until STOP is in the FIFO of the thread (if f_running
\* says there is one) and its eventfd is to be written.
stop_daemon(quitting, is_running) ==
    /\ messenger' = IF messenger \in {"up", "done"} /\ ~quitting THEN "done" ELSE "none"
    /\ stopped' = TRUE
    /\ IF linked /\ is_running
       THEN owner' = "halt" /\ SendStep(1, "B", "STOP") /\ UNCHANGED linked
       ELSE owner' = "loop" /\ linked' = FALSE /\ UNCHANGED linkVars

\* The rest of it: the connection is removed.
StopSent ==
    /\ owner = "halt"
    /\ SendStep(2, "B", "STOP")
    /\ linked' = FALSE
    /\ owner' = "loop"
    /\ UNCHANGED <<child, waits, running, started, stopping, exception, messenger, connects, asked, stopped,
                   resends, runnerVars, requested, kicked, message, known>>

\* SERVER_PUBLIC_IP: the thread is started, and run() has no status yet.
ThreadStarts ==
    /\ owner = "loop" /\ messenger \in {"up", "done"} /\ asked
    /\ start
    /\ asked' = FALSE
    /\ status' = 0 /\ previous' = 0
    /\ UNCHANGED <<linkVars, messenger, connects, linked, stopped, resends, active, world, timeout, requested,
                   kicked, message, known>>

\* It is running already, or cannot be created: the daemon quits.
ThreadDoesNotStart ==
    /\ owner = "loop" /\ messenger \in {"up", "done"} /\ asked
    /\ \/ CreateFails
       \/ ~MayStart /\ UNCHANGED <<child, waits, running, started, stopping, exception>>
    /\ stop_daemon(FALSE, TRUE)
    /\ asked' = FALSE
    /\ UNCHANGED <<connects, resends, runnerVars, requested, kicked, message, known>>

\* STOP, RELOADCONFIG, QUITTING.
AskedToStop ==
    /\ owner = "loop" /\ messenger \in {"up", "done"}
    /\ \E quitting \in BOOLEAN : stop_daemon(quitting, running)
    /\ UNCHANGED <<child, waits, running, started, stopping, exception, connects, asked, resends, runnerVars,
                   requested, kicked, message, known>>

\* SIGINT; stop() removes f_interrupt.
Interrupted ==
    /\ owner = "loop" /\ ~stopped
    /\ stop_daemon(FALSE, running)
    /\ UNCHANGED <<child, waits, running, started, stopping, exception, connects, asked, resends, runnerVars,
                   requested, kicked, message, known>>

\* MANAGERRESEND, or a setting was changed: resend_status().  The mutex of the
\* runner is kept until the WAKEUP is sent.
Resend(kick) ==
    /\ owner = "loop" /\ messenger \in {"up", "done"} /\ resends < MaxResends
    /\ resends' = resends + 1
    /\ requested' = TRUE
    /\ IF kick THEN owner' = "kick" /\ SendStep(1, "B", "WAKEUP")
               ELSE UNCHANGED <<owner, linkVars>>
    /\ UNCHANGED <<child, waits, running, started, stopping, exception, messenger, connects, asked, linked,
                   stopped, runnerVars, kicked, message, known>>

WakeupSent ==
    /\ owner = "kick"
    /\ SendStep(2, "B", "WAKEUP")
    /\ kicked' = TRUE
    /\ owner' = "loop"
    /\ UNCHANGED <<child, waits, running, started, stopping, exception, daemonVars, runnerVars, requested,
                   message, known>>

\* process_read() of side A, and process_message_a(): a status is forwarded if the
\* messenger is connected.
PopStatus ==
    /\ owner = "loop" /\ linked /\ Readable("A")
    /\ Pop("A")
    /\ message' = [message EXCEPT !["A"] = Front("A", Nothing["A"])]
    /\ owner' = "read"
    /\ UNCHANGED <<child, waits, running, started, stopping, exception, daemonVars, runnerVars, requested,
                   kicked, known>>

ForwardStatus ==
    /\ owner = "read"
    /\ ReadEvent("A")
    /\ known' = IF message["A"] # Nothing["A"] /\ messenger \in {"up", "done"} THEN message["A"] ELSE known
    /\ message' = [message EXCEPT !["A"] = Nothing["A"]]
    /\ owner' = "loop"
    /\ UNCHANGED <<child, waits, running, started, stopping, exception, daemonVars, runnerVars, requested, kicked>>

\* snap_communicator::run() returns when no connection is left; the destructor of
\* the daemon stops the thread.
RunReturns ==
    /\ owner = "loop" /\ stopped /\ ~linked /\ messenger = "none"
    /\ stop
    /\ UNCHANGED <<linkVars, daemonVars, runnerVars, requested, kicked, message, known>>

-----------------------------------------------------------------------------
(* manager_status::run()                                                   *)

ThreadAlone == UNCHANGED <<owner, waits, running, started, stopping, exception>>

\* retrieve_status()
Gather ==
    /\ child = "gather"
    /\ previous' = status /\ status' = world
    /\ child' = "check"
    /\ ThreadAlone
    /\ UNCHANGED <<linkVars, daemonVars, active, world, timeout, requested, kicked, message, known>>

\* continue_running() locks the mutex of the runner.
Check ==
    /\ child = "check" /\ owner # "kick"
    /\ child' = IF continue_running /\ active THEN "flag" ELSE "return"
    /\ ThreadAlone
    /\ UNCHANGED <<linkVars, daemonVars, runnerVars, requested, kicked, message, known>>

\* f_resend_status is read and cleared.
TakeFlag ==
    /\ child = "flag" /\ owner # "kick"
    /\ requested' = FALSE /\ kicked' = FALSE
    /\ child' = IF status # previous \/ requested THEN "push" ELSE "poll"
    /\ timeout' = NextTimeout(PollTimeout)
    /\ ThreadAlone
    /\ UNCHANGED <<linkVars, daemonVars, active, world, status, previous, message, known>>

SendStatus(half) ==
    /\ child = IF half = 1 THEN "push" ELSE "write"
    /\ SendStep(half, "A", status)
    /\ child' = IF half = 1 THEN "write" ELSE "poll"
    /\ ThreadAlone
    /\ UNCHANGED <<daemonVars, runnerVars, requested, kicked, message, known>>

\* The loop of poll(): process_read() of side B, and process_message().
PopCommand ==
    /\ child = "poll" /\ Readable("B")
    /\ Pop("B")
    /\ message' = [message EXCEPT !["B"] = Front("B", Nothing["B"])]
    /\ child' = "popped"
    /\ ThreadAlone
    /\ UNCHANGED <<daemonVars, runnerVars, requested, kicked, known>>

HandleCommand ==
    /\ child = "popped"
    /\ ReadEvent("B")
    /\ active' = (active /\ message["B"] # "STOP")
    /\ message' = [message EXCEPT !["B"] = Nothing["B"]]
    /\ timeout' = NextTimeout(timeout)
    /\ child' = "poll"
    /\ ThreadAlone
    /\ UNCHANGED <<daemonVars, world, status, previous, requested, kicked, known>>

\* poll() timed out.
PollTimesOut ==
    /\ child = "poll" /\ ~Readable("B")
    /\ child' = "gather"
    /\ ThreadAlone
    /\ UNCHANGED <<linkVars, daemonVars, runnerVars, requested, kicked, message, known>>

\* A plugin throws, or poll() is interrupted.
RunThrows ==
    /\ child \in {"gather", "poll"}
    /\ Throws
    /\ UNCHANGED <<linkVars, daemonVars, runnerVars, requested, kicked, message, known>>

\* The environment: something changes on the computer.
StatusChanges ==
    /\ world \in Statuses \ {MaxChanges + 1}
    /\ world' = world + 1
    /\ UNCHANGED <<threadVars, linkVars, daemonVars, active, status, previous, timeout, requested, kicked,
                   message, known>>

-----------------------------------------------------------------------------

InThread(A) == A /\ UNCHANGED <<linkVars, daemonVars, runnerVars, requested, kicked, message, known>>

OwnerStep ==
    \/ InThread(StartLoop) \/ InThread(StopLoop)
    \/ StopSent \/ WakeupSent
    \/ PopStatus \/ ForwardStatus
    \/ RunReturns

ChildStep ==
    \/ InThread(Begin) \/ InThread(End)
    \/ Gather \/ Check \/ TakeFlag \/ SendStatus(1) \/ SendStatus(2)
    \/ PopCommand \/ HandleCommand \/ PollTimesOut

PublicIp == ThreadStarts \/ ThreadDoesNotStart

Next ==
    \/ OwnerStep \/ ChildStep
    \/ Connect \/ Disconnect \/ HangUp
    \/ PublicIp \/ AskedToStop \/ Interrupted
    \/ \E kick \in BOOLEAN : Resend(kick)
    \/ RunThrows \/ StatusChanges
    \/ InThread(SpuriousWakeup)

\* Both threads go on, and poll() times out; the permanent connection connects,
\* and snapcommunicator answers and closes the connections it is asked to.
Fairness ==
    /\ WF_vars(OwnerStep) /\ WF_vars(ChildStep)
    /\ WF_vars(Connect) /\ WF_vars(PublicIp) /\ WF_vars(HangUp)

Spec == Init /\ [][Next]_vars /\ Fairness

-----------------------------------------------------------------------------
(* Properties.                                                             *)

\* The places in the code of the two threads.
PlacesOK ==
    /\ owner \in {"loop", "start", "stop", "halt", "kick", "read", "exited"}
    /\ child \in {"none", "created", "gather", "check", "flag", "push", "write", "poll", "popped", "return", "done"}
    /\ messenger \in {"down", "up", "done", "none"}

FlagsOK ==
    /\ waits \in BOOLEAN /\ running \in BOOLEAN /\ started \in BOOLEAN
    /\ stopping \in BOOLEAN /\ exception \in BOOLEAN /\ asked \in BOOLEAN
    /\ linked \in BOOLEAN /\ stopped \in BOOLEAN /\ requested \in BOOLEAN
    /\ kicked \in BOOLEAN /\ active \in BOOLEAN

\* The statuses go to side A, the commands to side B.
LinkOK ==
    /\ fifo = [s \in Sides |-> fifo[s]]
    /\ fifo["A"] \in Seq(Statuses) /\ fifo["B"] \in Seq(Commands)
    /\ message = [s \in Sides |-> message[s]]
    /\ message["A"] \in Statuses \cup {0} /\ message["B"] \in Commands \cup {"none"}
    /\ event \in [Sides -> Nat]

\* The timeout never is no time at all.
NumbersOK ==
    /\ world \in Statuses
    /\ status \in Statuses \cup {0} /\ previous \in Statuses \cup {0} /\ known \in Statuses \cup {0}
    /\ timeout \in 1 .. PollTimeout
    /\ connects \in 0 .. MaxConnects /\ resends \in 0 .. MaxResends

\* The places, flags, messages and numbers of the daemon and of its thread.
TypeOK == PlacesOK /\ FlagsOK /\ LinkOK /\ NumbersOK

\* process_read(): whoever is told by its eventfd that there is a message finds
\* one ("got_message should always be true, but just in case"), and then still
\* finds the eventfd readable, so that read() does not fail.
AlwaysAMessage ==
    /\ owner = "loop" /\ Readable("A") => fifo["A"] # <<>>
    /\ child = "poll" /\ Readable("B") => fifo["B"] # <<>>
    /\ owner = "read" => Readable("A")
    /\ child = "popped" => Readable("B")

\* resend_status() and stop(): a thread that was sent WAKEUP or has got STOP does
\* not sleep for the minute of its poll() before it sends its status or returns.
WakesUpSoon ==
    [][PollTimesOut => timeout < NextTimeout(PollTimeout) \/ (active /\ ~kicked)]_vars

\* ~snap_thread(): the daemon and its runner are destroyed when the thread is past
\* its last critical section, whatever wakes the owner up; all that may be left to
\* the thread is to exit.
NotDestroyedInUse == owner = "exited" => child \in {"none", "done"}

\* stop(): once it has to stop, the daemon exits, unless run() threw or the thread
\* could not be created: f_running stays set, and ~snap_thread() waits for ever.
StopsInTheEnd == stopped ~> (owner = "exited" \/ Stuck)

\* run() and process_message_a(): snapcommunicator is sent the status the computer
\* has, through both threads, unless the daemon is stopped, or its thread is stuck.
StatusIsKnown == known # world ~> (known = world \/ stopped \/ Stuck)

=============================================================================
