----------------------- MODULE SnapManagerDaemonProofs -----------------------
(***************************************************************************)
(* What is proved of SnapManagerDaemon, for every timeout of poll() and    *)
(* every number of messages, changes and connections:                      *)
(*   TypeCorrect         Spec => []TypeOK                                  *)
(*   MessagesAreCounted  Spec => []AlwaysAMessage                          *)
(*   OutlivesItsThread   Spec => []NotDestroyedInUse                       *)
(*   ThreadWakesUp       Spec => WakesUpSoon                               *)
(***************************************************************************)
EXTENDS SnapManagerDaemon, SequenceTheorems, TLAPS

\* An eventfd counts the messages of its FIFO, but for the one that its writer has
\* pushed and not counted, and the one its reader has popped and not subtracted.
One(b) == IF b THEN 1 ELSE 0

Counted ==
    /\ Len(fifo["A"]) + One(owner = "read") = event["A"] + One(child = "write")
    /\ Len(fifo["B"]) + One(child = "popped") = event["B"] + One(owner \in {"halt", "kick"})
    /\ owner = "read" => event["A"] > 0
    /\ child = "popped" => event["B"] > 0

\* A thread that was created and has not ended keeps f_running.
Alive == child \in {"none", "done"} \/ running = TRUE

\* Where the thread is on its way to the next poll(), or in it.
Polls == {"push", "write", "poll", "popped"}

\* A thread that has got STOP goes on in poll() with a timeout that was divided,
\* and does not come back to it; one that was sent WAKEUP has a timeout that was
\* divided, or the WAKEUP before it.
Woken ==
    /\ child \in Polls => timeout <= NextTimeout(PollTimeout)
    /\ active = FALSE => /\ child \notin {"flag", "push", "write"}
                         /\ child \in Polls => timeout < NextTimeout(PollTimeout)
    /\ kicked = TRUE /\ child \in {"push", "write", "poll"} =>
           timeout < NextTimeout(PollTimeout) \/ event["B"] > 0

\* What the thread sends is a status that it has gathered.
Gathered == child \in {"check", "flag", "push"} => status \in Statuses

Inv == TypeOK /\ Counted /\ Alive /\ NotDestroyedInUse /\ Woken /\ Gathered

\* Each round of poll() has less time than the one before, down to a millisecond.
LEMMA Divided ==
    ASSUME NEW t \in Nat, t >= 1
    PROVE  /\ NextTimeout(t) \in 1 .. t
           /\ t > 1 => NextTimeout(t) < t
BY DEF NextTimeout

\* The first round of poll() has two milliseconds or more.
LEMMA FirstTimeout == NextTimeout(PollTimeout) \in 2 .. PollTimeout
BY PollAssumption DEF NextTimeout

\* The invariant holds when the daemon starts.
LEMMA InitInv == Init => Inv
<1> SUFFICES ASSUME Init PROVE Inv
  OBVIOUS
<1> USE DEF Init, ThreadInit, LinkInit
<1>1. TypeOK
  <2>1. PlacesOK /\ FlagsOK
    BY DEF PlacesOK, FlagsOK
  <2>2. LinkOK
    BY BoundsAssumption DEF LinkOK, Nothing, Sides, Statuses, Commands
  <2>3. NumbersOK
    BY PollAssumption, BoundsAssumption DEF NumbersOK, Statuses
  <2> QED BY <2>1, <2>2, <2>3 DEF TypeOK
<1>2. Counted
  BY DEF Counted, One, Sides
<1>3. Alive /\ NotDestroyedInUse /\ Woken /\ Gathered
  BY DEF Alive, NotDestroyedInUse, Woken, Polls, Gathered
<1> QED
  BY <1>1, <1>2, <1>3 DEF Inv

\* What start(), stop() and internal_run() do with f_running.
LEMMA AliveKept == Alive /\ NotDestroyedInUse /\ Next => Alive' /\ NotDestroyedInUse'
<1> SUFFICES ASSUME Alive, NotDestroyedInUse, Next PROVE Alive' /\ NotDestroyedInUse'
  OBVIOUS
<1> USE DEF Alive, NotDestroyedInUse, threadVars, linkVars, daemonVars, runnerVars
<1>1. CASE OwnerStep
  BY <1>1 DEF OwnerStep, InThread, StartLoop, StopLoop, Stopped, StopSent, WakeupSent, PopStatus,
              ForwardStatus, RunReturns, stop
<1>2. CASE ChildStep
  BY <1>2 DEF ChildStep, InThread, Begin, End, ThreadAlone, Gather, Check, TakeFlag, SendStatus,
              PopCommand, HandleCommand, PollTimesOut
<1>3. CASE Connect \/ Disconnect \/ HangUp \/ StatusChanges
  BY <1>3 DEF Connect, Disconnect, HangUp, StatusChanges
<1>4. CASE PublicIp
  BY <1>4 DEF PublicIp, ThreadStarts, ThreadDoesNotStart, MayStart, start, CreateFails, stop_daemon
<1>5. CASE AskedToStop \/ Interrupted
  BY <1>5 DEF AskedToStop, Interrupted, stop_daemon
<1>6. CASE \E kick \in BOOLEAN : Resend(kick)
  BY <1>6 DEF Resend
<1>7. CASE RunThrows \/ InThread(SpuriousWakeup)
  BY <1>7 DEF RunThrows, Throws, InThread, SpuriousWakeup
<1> QED
  BY <1>1, <1>2, <1>3, <1>4, <1>5, <1>6, <1>7 DEF Next

-----------------------------------------------------------------------------
(* The connection between the threads.                                     *)

\* The places and flags of a step that leaves the connection alone.
Elsewhere ==
    /\ UNCHANGED <<fifo, event, message>>
    /\ (owner = "read") = (owner' = "read")
    /\ (owner \in {"halt", "kick"}) = (owner' \in {"halt", "kick"})
    /\ (child = "write") = (child' = "write")
    /\ (child = "popped") = (child' = "popped")

\* Such a step keeps the types and the counts.
LEMMA ElsewhereKept == LinkOK /\ Counted /\ Elsewhere => LinkOK' /\ Counted'
BY DEF LinkOK, Counted, One, Elsewhere

\* send_message() to side B, which only the owner does.
LEMMA PushCommand ==
    ASSUME LinkOK, Counted, NEW m \in Commands, SendStep(1, "B", m),
           owner = "loop", owner' \in {"halt", "kick"}, UNCHANGED <<child, message>>
    PROVE  LinkOK' /\ Counted'
<1> USE DEF LinkOK, Counted, One, Sides
<1>1. /\ fifo' = [fifo EXCEPT !["B"] = Append(fifo["B"], m)]
      /\ event' = event
  BY DEF SendStep
<1>2. /\ fifo'["A"] = fifo["A"]
      /\ fifo'["B"] = Append(fifo["B"], m)
      /\ fifo' = [s \in Sides |-> fifo'[s]]
  BY <1>1
<1>3. Append(fifo["B"], m) \in Seq(Commands) /\ Len(Append(fifo["B"], m)) = Len(fifo["B"]) + 1
  OBVIOUS
<1> QED
  BY <1>1, <1>2, <1>3, LenProperties

\* The counter follows.
LEMMA CountCommand ==
    ASSUME LinkOK, Counted, NEW m, SendStep(2, "B", m),
           owner \in {"halt", "kick"}, owner' = "loop", UNCHANGED <<child, message>>
    PROVE  LinkOK' /\ Counted'
BY LenProperties DEF LinkOK, Counted, One, Sides, SendStep

\* send_message() to side A, which only the thread does.
LEMMA PushStatus ==
    ASSUME LinkOK, Counted, NEW m \in Statuses, SendStep(1, "A", m),
           child = "push", child' = "write", UNCHANGED <<owner, message>>
    PROVE  LinkOK' /\ Counted'
<1> USE DEF LinkOK, Counted, One, Sides
<1>1. /\ fifo' = [fifo EXCEPT !["A"] = Append(fifo["A"], m)]
      /\ event' = event
  BY DEF SendStep
<1>2. /\ fifo'["B"] = fifo["B"]
      /\ fifo'["A"] = Append(fifo["A"], m)
      /\ fifo' = [s \in Sides |-> fifo'[s]]
  BY <1>1
<1>3. Append(fifo["A"], m) \in Seq(Statuses) /\ Len(Append(fifo["A"], m)) = Len(fifo["A"]) + 1
  OBVIOUS
<1> QED
  BY <1>1, <1>2, <1>3, LenProperties

\* The counter follows.
LEMMA CountStatus ==
    ASSUME LinkOK, Counted, NEW m, SendStep(2, "A", m),
           child = "write", child' = "poll", UNCHANGED <<owner, message>>
    PROVE  LinkOK' /\ Counted'
BY LenProperties DEF LinkOK, Counted, One, Sides, SendStep

\* The first half of process_read(), of the owner and of the thread: a counter that
\* is not zero means that there is a message.
LEMMA PopStatusKept == LinkOK /\ Counted /\ PopStatus => LinkOK' /\ Counted'
<1> SUFFICES ASSUME LinkOK, Counted, PopStatus PROVE LinkOK' /\ Counted'
  OBVIOUS
<1> USE DEF LinkOK, Counted, One, Sides
<1>1. owner = "loop" /\ owner' = "read" /\ event["A"] > 0 /\ event' = event /\ child' = child
  BY DEF PopStatus, Readable, Pop
<1>2. fifo["A"] # <<>>
  BY <1>1
<1>3. /\ Head(fifo["A"]) \in Statuses /\ Tail(fifo["A"]) \in Seq(Statuses)
      /\ Len(Tail(fifo["A"])) = Len(fifo["A"]) - 1
  BY <1>2
<1>4. fifo' = [fifo EXCEPT !["A"] = Tail(fifo["A"])] /\ message' = [message EXCEPT !["A"] = Head(fifo["A"])]
  BY <1>2 DEF PopStatus, Pop, Front
<1>5. /\ fifo'["A"] = Tail(fifo["A"]) /\ fifo'["B"] = fifo["B"] /\ fifo' = [s \in Sides |-> fifo'[s]]
      /\ message'["A"] = Head(fifo["A"]) /\ message'["B"] = message["B"]
      /\ message' = [s \in Sides |-> message'[s]]
  BY <1>4
<1> QED
  BY <1>1, <1>3, <1>5, LenProperties

\* The same for the thread, in poll().
LEMMA PopCommandKept == LinkOK /\ Counted /\ PopCommand => LinkOK' /\ Counted'
<1> SUFFICES ASSUME LinkOK, Counted, PopCommand PROVE LinkOK' /\ Counted'
  OBVIOUS
<1> USE DEF LinkOK, Counted, One, Sides
<1>1. child = "poll" /\ child' = "popped" /\ event["B"] > 0 /\ event' = event /\ owner' = owner
  BY DEF PopCommand, Readable, Pop, ThreadAlone
<1>2. fifo["B"] # <<>>
  BY <1>1
<1>3. /\ Head(fifo["B"]) \in Commands /\ Tail(fifo["B"]) \in Seq(Commands)
      /\ Len(Tail(fifo["B"])) = Len(fifo["B"]) - 1
  BY <1>2
<1>4. fifo' = [fifo EXCEPT !["B"] = Tail(fifo["B"])] /\ message' = [message EXCEPT !["B"] = Head(fifo["B"])]
  BY <1>2 DEF PopCommand, Pop, Front
<1>5. /\ fifo'["B"] = Tail(fifo["B"]) /\ fifo'["A"] = fifo["A"] /\ fifo' = [s \in Sides |-> fifo'[s]]
      /\ message'["B"] = Head(fifo["B"]) /\ message'["A"] = message["A"]
      /\ message' = [s \in Sides |-> message'[s]]
  BY <1>4
<1> QED
  BY <1>1, <1>3, <1>5, LenProperties

\* The second half.
LEMMA ForwardStatusKept == LinkOK /\ Counted /\ ForwardStatus => LinkOK' /\ Counted'
<1> SUFFICES ASSUME LinkOK, Counted, ForwardStatus PROVE LinkOK' /\ Counted'
  OBVIOUS
<1> USE DEF LinkOK, Counted, One, Sides
<1>1. owner = "read" /\ owner' = "loop" /\ event["A"] > 0 /\ fifo' = fifo /\ child' = child
  BY DEF ForwardStatus, ReadEvent
<1>2. event' = [event EXCEPT !["A"] = event["A"] - 1] /\ message' = [message EXCEPT !["A"] = 0]
  BY DEF ForwardStatus, ReadEvent, Taken, Nothing
<1>3. event'["A"] = event["A"] - 1 /\ event'["B"] = event["B"] /\ event' \in [Sides -> Nat]
  BY <1>1, <1>2
<1>4. /\ message'["A"] = 0 /\ message'["B"] = message["B"]
      /\ message' = [s \in Sides |-> message'[s]]
  BY <1>2
<1> QED
  BY <1>1, <1>3, <1>4, LenProperties

\* The same for the thread, before process_message().
LEMMA HandleCommandKept == LinkOK /\ Counted /\ HandleCommand => LinkOK' /\ Counted'
<1> SUFFICES ASSUME LinkOK, Counted, HandleCommand PROVE LinkOK' /\ Counted'
  OBVIOUS
<1> USE DEF LinkOK, Counted, One, Sides
<1>1. child = "popped" /\ child' = "poll" /\ event["B"] > 0 /\ fifo' = fifo /\ owner' = owner
  BY DEF HandleCommand, ReadEvent, ThreadAlone
<1>2. event' = [event EXCEPT !["B"] = event["B"] - 1] /\ message' = [message EXCEPT !["B"] = "none"]
  BY DEF HandleCommand, ReadEvent, Taken, Nothing
<1>3. event'["B"] = event["B"] - 1 /\ event'["A"] = event["A"] /\ event' \in [Sides -> Nat]
  BY <1>1, <1>2
<1>4. /\ message'["B"] = "none" /\ message'["A"] = message["A"]
      /\ message' = [s \in Sides |-> message'[s]]
  BY <1>2
<1> QED
  BY <1>1, <1>3, <1>4, LenProperties


\* Every step keeps the types of the connection and the counts.
LEMMA LinkKept == LinkOK /\ Counted /\ Alive /\ Gathered /\ Next => LinkOK' /\ Counted'
<1> SUFFICES ASSUME LinkOK, Counted, Alive, Gathered, Next PROVE LinkOK' /\ Counted'
  OBVIOUS
<1> USE DEF threadVars, linkVars, daemonVars, runnerVars
<1>1. CASE InThread(StartLoop) \/ InThread(StopLoop) \/ RunReturns
  BY <1>1, ElsewhereKept DEF Elsewhere, InThread, StartLoop, StopLoop, RunReturns, stop
<1>2. CASE StopSent
  BY <1>2, CountCommand DEF StopSent
<1>3. CASE WakeupSent
  BY <1>3, CountCommand DEF WakeupSent
<1>4. CASE PopStatus
  BY <1>4, PopStatusKept
<1>5. CASE ForwardStatus
  BY <1>5, ForwardStatusKept
<1>6. CASE InThread(Begin) \/ InThread(End) \/ Gather \/ Check \/ TakeFlag \/ PollTimesOut
  BY <1>6, ElsewhereKept DEF Elsewhere, InThread, Begin, End, Gather, Check, TakeFlag, PollTimesOut, ThreadAlone
<1>7. CASE SendStatus(1)
  BY <1>7, PushStatus DEF SendStatus, ThreadAlone, Gathered
<1>8. CASE SendStatus(2)
  BY <1>8, CountStatus DEF SendStatus, ThreadAlone
<1>9. CASE PopCommand
  BY <1>9, PopCommandKept
<1>10. CASE HandleCommand
  BY <1>10, HandleCommandKept
<1>11. CASE Connect \/ Disconnect \/ HangUp \/ StatusChanges \/ InThread(SpuriousWakeup)
  BY <1>11, ElsewhereKept DEF Elsewhere, Connect, Disconnect, HangUp, StatusChanges, InThread, SpuriousWakeup
<1>12. CASE ThreadStarts
  BY <1>12, ElsewhereKept DEF Elsewhere, ThreadStarts, start, MayStart, Alive
<1>13. CASE ThreadDoesNotStart \/ AskedToStop \/ Interrupted
  <2>1. owner = "loop" /\ UNCHANGED <<child, message>>
    BY <1>13 DEF ThreadDoesNotStart, AskedToStop, Interrupted, CreateFails
  <2>2. PICK q \in BOOLEAN, r \in {running, TRUE} : stop_daemon(q, r)
    BY <1>13 DEF ThreadDoesNotStart, AskedToStop, Interrupted
  <2>3. CASE linked /\ r
    BY <2>1, <2>2, <2>3, PushCommand DEF stop_daemon, Commands
  <2>4. CASE ~(linked /\ r)
    BY <2>1, <2>2, <2>4, ElsewhereKept DEF stop_daemon, Elsewhere
  <2> QED BY <2>3, <2>4
<1>14. ASSUME NEW kick \in BOOLEAN, Resend(kick) PROVE LinkOK' /\ Counted'
  <2>1. CASE kick
    BY <1>14, <2>1, PushCommand DEF Resend, Commands
  <2>2. CASE ~kick
    BY <1>14, <2>2, ElsewhereKept DEF Resend, Elsewhere
  <2> QED BY <2>1, <2>2
<1>15. CASE RunThrows
  BY <1>15, ElsewhereKept DEF Elsewhere, RunThrows, Throws
<1> QED
  BY <1>1, <1>2, <1>3, <1>4, <1>5, <1>6, <1>7, <1>8, <1>9, <1>10, <1>11, <1>12, <1>13, <1>14, <1>15
     DEF Next, OwnerStep, ChildStep, PublicIp

-----------------------------------------------------------------------------
(* The places, the flags and the numbers.                                  *)

\* Every step leads to one of the places in the code.
LEMMA PlacesKept == PlacesOK /\ Next => PlacesOK'
<1> SUFFICES ASSUME PlacesOK, Next PROVE PlacesOK'
  OBVIOUS
<1> USE DEF PlacesOK, threadVars, linkVars, daemonVars, runnerVars
<1>1. CASE OwnerStep
  BY <1>1 DEF OwnerStep, InThread, StartLoop, StopLoop, Stopped, StopSent, WakeupSent, PopStatus,
              ForwardStatus, RunReturns, stop
<1>2. CASE ChildStep
  BY <1>2 DEF ChildStep, InThread, Begin, End, Signal, ThreadAlone, Gather, Check, TakeFlag, SendStatus,
              PopCommand, HandleCommand, PollTimesOut
<1>3. CASE Connect \/ Disconnect \/ HangUp \/ StatusChanges
  BY <1>3 DEF Connect, Disconnect, HangUp, StatusChanges
<1>4. CASE PublicIp
  BY <1>4 DEF PublicIp, ThreadStarts, ThreadDoesNotStart, start, CreateFails, stop_daemon
<1>5. CASE AskedToStop \/ Interrupted
  BY <1>5 DEF AskedToStop, Interrupted, stop_daemon
<1>6. CASE \E kick \in BOOLEAN : Resend(kick)
  BY <1>6 DEF Resend
<1>7. CASE RunThrows \/ InThread(SpuriousWakeup)
  BY <1>7 DEF RunThrows, Throws, InThread, SpuriousWakeup
<1> QED
  BY <1>1, <1>2, <1>3, <1>4, <1>5, <1>6, <1>7 DEF Next

\* Every step leaves the flags Boolean.
LEMMA FlagsKept == FlagsOK /\ Next => FlagsOK'
<1> SUFFICES ASSUME FlagsOK, Next PROVE FlagsOK'
  OBVIOUS
<1> USE DEF FlagsOK, threadVars, linkVars, daemonVars, runnerVars
<1>1. CASE InThread(StartLoop) \/ InThread(StopLoop)
  <2>1. UNCHANGED <<running, started, stopping, exception, asked, linked, stopped, requested, kicked, active>>
    BY <1>1 DEF InThread, StartLoop, StopLoop
  <2>2. waits' \in BOOLEAN
    BY <1>1 DEF InThread, StartLoop, StopLoop
  <2> QED BY <2>1, <2>2
<1>2. CASE StopSent \/ WakeupSent
  <2>1. CASE StopSent
    BY <2>1 DEF StopSent
  <2>2. CASE WakeupSent
    BY <2>2 DEF WakeupSent
  <2> QED BY <1>2, <2>1, <2>2
<1>3. CASE PopStatus \/ ForwardStatus
  BY <1>3 DEF PopStatus, ForwardStatus
<1>4. CASE RunReturns
  BY <1>4 DEF RunReturns, stop
<1>5. CASE InThread(Begin) \/ InThread(End)
  <2>1. UNCHANGED <<stopping, exception, asked, linked, stopped, requested, kicked, active>>
    BY <1>5 DEF InThread, Begin, End
  <2>2. waits' = FALSE /\ running' \in {running, FALSE} /\ started' \in {started, TRUE}
    BY <1>5 DEF InThread, Begin, End, Signal
  <2> QED BY <2>1, <2>2
<1>6. CASE Gather \/ Check \/ TakeFlag
  <2>1. CASE Gather \/ Check
    BY <2>1 DEF Gather, Check, ThreadAlone
  <2>2. CASE TakeFlag
    BY <2>2 DEF TakeFlag, ThreadAlone
  <2> QED BY <1>6, <2>1, <2>2
<1>7. CASE SendStatus(1) \/ SendStatus(2) \/ PopCommand \/ PollTimesOut
  BY <1>7 DEF SendStatus, PopCommand, PollTimesOut, ThreadAlone
<1>8. CASE HandleCommand
  <2>1. UNCHANGED <<waits, running, started, stopping, exception, asked, linked, stopped, requested, kicked>>
    BY <1>8 DEF HandleCommand, ThreadAlone
  <2>2. active' \in BOOLEAN
    BY <1>8 DEF HandleCommand
  <2> QED BY <2>1, <2>2
<1>9. CASE Connect \/ Disconnect \/ HangUp \/ StatusChanges
  <2>1. CASE Connect
    BY <2>1 DEF Connect
  <2>2. CASE Disconnect \/ HangUp
    BY <2>2 DEF Disconnect, HangUp
  <2>3. CASE StatusChanges
    BY <2>3 DEF StatusChanges
  <2> QED BY <1>9, <2>1, <2>2, <2>3
<1>10. CASE ThreadStarts
  BY <1>10 DEF ThreadStarts, start
<1>11. CASE ThreadDoesNotStart
  BY <1>11 DEF ThreadDoesNotStart, CreateFails, stop_daemon
<1>12. CASE AskedToStop \/ Interrupted
  BY <1>12 DEF AskedToStop, Interrupted, stop_daemon
<1>13. CASE \E kick \in BOOLEAN : Resend(kick)
  BY <1>13 DEF Resend
<1>14. CASE RunThrows \/ InThread(SpuriousWakeup)
  <2>1. UNCHANGED <<running, started, stopping, asked, linked, stopped, requested, kicked, active>>
    BY <1>14 DEF RunThrows, Throws, InThread, SpuriousWakeup
  <2>2. waits' \in {waits, FALSE} /\ exception' \in {exception, TRUE}
    BY <1>14 DEF RunThrows, Throws, InThread, SpuriousWakeup
  <2> QED BY <2>1, <2>2
<1> QED
  BY <1>1, <1>2, <1>3, <1>4, <1>5, <1>6, <1>7, <1>8, <1>9, <1>10, <1>11, <1>12, <1>13, <1>14
     DEF Next, OwnerStep, ChildStep, PublicIp

\* Every step keeps the statuses, the timeout and the bounds.
LEMMA NumbersKept == TypeOK /\ Gathered /\ Next => NumbersOK' /\ Gathered'
<1> SUFFICES ASSUME LinkOK, NumbersOK, Gathered, Next PROVE NumbersOK' /\ Gathered'
  BY DEF TypeOK
<1> USE DEF NumbersOK, Gathered, threadVars, linkVars, daemonVars, runnerVars
<1>1. CASE OwnerStep
  BY <1>1 DEF OwnerStep, InThread, StartLoop, StopLoop, StopSent, WakeupSent, PopStatus, ForwardStatus,
              RunReturns, stop, LinkOK
<1>2. CASE InThread(Begin) \/ InThread(End) \/ Gather \/ Check
  BY <1>2 DEF InThread, Begin, End, ThreadAlone, Gather, Check
<1>3. CASE TakeFlag
  BY <1>3, FirstTimeout, PollAssumption DEF TakeFlag
<1>4. CASE SendStatus(1) \/ SendStatus(2) \/ PopCommand \/ PollTimesOut
  BY <1>4 DEF SendStatus, PopCommand, PollTimesOut
<1>5. CASE HandleCommand
  BY <1>5, PollAssumption, Divided DEF HandleCommand
<1>6. CASE Connect \/ Disconnect \/ HangUp
  BY <1>6, BoundsAssumption DEF Connect, Disconnect, HangUp
<1>7. CASE StatusChanges
  BY <1>7, BoundsAssumption DEF StatusChanges, Statuses
<1>8. CASE PublicIp
  BY <1>8 DEF PublicIp, ThreadStarts, ThreadDoesNotStart, start, CreateFails
<1>9. CASE AskedToStop \/ Interrupted
  BY <1>9 DEF AskedToStop, Interrupted
<1>10. CASE \E kick \in BOOLEAN : Resend(kick)
  BY <1>10, BoundsAssumption DEF Resend
<1>11. CASE RunThrows \/ InThread(SpuriousWakeup)
  BY <1>11 DEF RunThrows, Throws, InThread, SpuriousWakeup
<1> QED
  BY <1>1, <1>2, <1>3, <1>4, <1>5, <1>6, <1>7, <1>8, <1>9, <1>10, <1>11 DEF Next, ChildStep

-----------------------------------------------------------------------------
(* poll()                                                                  *)

\* Every step keeps what makes poll() return soon.
LEMMA WokenKept == Inv /\ Next => Woken'
<1> SUFFICES ASSUME TypeOK, Counted, Alive, Woken, Next PROVE Woken'
  BY DEF Inv
<1> USE DEF Woken, Polls, threadVars, linkVars, daemonVars, runnerVars
<1>1. CASE InThread(StartLoop) \/ InThread(StopLoop) \/ RunReturns \/ PopStatus
  BY <1>1 DEF InThread, StartLoop, StopLoop, RunReturns, stop, PopStatus, Pop
<1>2. CASE StopSent \/ WakeupSent \/ ForwardStatus
  <2>1. event'["B"] >= event["B"] /\ (WakeupSent => event'["B"] > 0) /\ event["B"] \in Nat /\ event'["B"] \in Nat
    BY <1>2 DEF StopSent, WakeupSent, ForwardStatus, SendStep, ReadEvent, TypeOK, LinkOK, Sides
  <2>2. UNCHANGED <<child, active, timeout>> /\ (kicked' = kicked \/ WakeupSent)
    BY <1>2 DEF StopSent, WakeupSent, ForwardStatus
  <2> QED BY <2>1, <2>2
<1>3. CASE InThread(Begin) \/ InThread(End) \/ Gather \/ Check \/ PollTimesOut
  BY <1>3 DEF InThread, Begin, End, ThreadAlone, Gather, Check, PollTimesOut, TypeOK, FlagsOK
<1>4. CASE TakeFlag
  BY <1>4, FirstTimeout DEF TakeFlag
<1>5. CASE SendStatus(1) \/ SendStatus(2)
  BY <1>5 DEF SendStatus, SendStep, TypeOK, LinkOK, Sides
<1>6. CASE PopCommand
  BY <1>6 DEF PopCommand, Pop
<1>7. CASE HandleCommand
  <2>1. timeout \in Nat /\ timeout >= 1 /\ timeout <= NextTimeout(PollTimeout)
    BY <1>7, PollAssumption DEF HandleCommand, TypeOK, NumbersOK
  <2>2. NextTimeout(timeout) < NextTimeout(PollTimeout)
    BY <2>1, Divided, FirstTimeout, PollAssumption
  <2>3. child' = "poll" /\ timeout' = NextTimeout(timeout)
    BY <1>7 DEF HandleCommand
  <2> QED BY <2>2, <2>3, <2>1, Divided, FirstTimeout, PollAssumption
<1>8. CASE Connect \/ Disconnect \/ HangUp \/ StatusChanges \/ InThread(SpuriousWakeup)
  BY <1>8 DEF Connect, Disconnect, HangUp, StatusChanges, InThread, SpuriousWakeup
<1>9. CASE ThreadStarts
  BY <1>9 DEF ThreadStarts, start
<1>10. CASE ThreadDoesNotStart \/ AskedToStop \/ Interrupted
  BY <1>10 DEF ThreadDoesNotStart, CreateFails, AskedToStop, Interrupted, stop_daemon, SendStep
<1>11. CASE \E kick \in BOOLEAN : Resend(kick)
  BY <1>11 DEF Resend, SendStep
<1>12. CASE RunThrows
  BY <1>12 DEF RunThrows, Throws
<1> QED
  BY <1>1, <1>2, <1>3, <1>4, <1>5, <1>6, <1>7, <1>8, <1>9, <1>10, <1>11, <1>12
     DEF Next, OwnerStep, ChildStep, PublicIp

-----------------------------------------------------------------------------

\* Every step keeps the invariant.
LEMMA InvKept == Inv /\ [Next]_vars => Inv'
<1>1. Inv /\ Next => Inv'
  BY AliveKept, LinkKept, PlacesKept, FlagsKept, NumbersKept, WokenKept DEF Inv, TypeOK
<1>2. ASSUME Inv, UNCHANGED vars PROVE Inv'
  <2> USE <1>2 DEF Inv, vars, threadVars, linkVars, daemonVars, runnerVars
  <2>1. PlacesOK' /\ NumbersOK'
    BY DEF TypeOK, PlacesOK, NumbersOK
  <2>2. FlagsOK'
    BY DEF TypeOK, FlagsOK
  <2>3. LinkOK' /\ Counted'
    BY DEF TypeOK, LinkOK, Counted, One
  <2>4. Alive' /\ NotDestroyedInUse' /\ Woken' /\ Gathered'
    BY DEF Alive, NotDestroyedInUse, Woken, Gathered
  <2> QED BY <2>1, <2>2, <2>3, <2>4 DEF TypeOK
<1> QED BY <1>1, <1>2

\* It always holds.
LEMMA InvHolds == Spec => []Inv
  BY InitInv, InvKept, PTL DEF Spec

\* The places, flags, FIFOs and counters of snapmanagerdaemon and of its thread have
\* their types, and poll() always has a timeout of a millisecond or more.
THEOREM TypeCorrect == Spec => []TypeOK
<1>1. Inv => TypeOK
  BY DEF Inv
<1> QED BY <1>1, InvHolds, PTL

\* process_read(): with any number of messages in both directions, a thread whose
\* eventfd is readable finds a message in its FIFO, and read() does not fail.
THEOREM MessagesAreCounted == Spec => []AlwaysAMessage
<1>1. Inv => AlwaysAMessage
  BY LenProperties DEF Inv, Counted, One, AlwaysAMessage, Readable, TypeOK, LinkOK, Sides
<1> QED BY <1>1, InvHolds, PTL

\* ~snap_thread(): whatever wakes it up, stop() returns when the thread is past its
\* last critical section.
THEOREM OutlivesItsThread == Spec => []NotDestroyedInUse
<1>1. Inv => NotDestroyedInUse
  BY DEF Inv
<1> QED BY <1>1, InvHolds, PTL

\* resend_status() and stop(): the poll() of a thread that was sent WAKEUP or has got
\* STOP does not time out after its first timeout, but after one that was divided.
THEOREM ThreadWakesUp == Spec => WakesUpSoon
<1>1. Inv /\ [Next]_vars => [PollTimesOut => timeout < NextTimeout(PollTimeout) \/ (active /\ ~kicked)]_vars
  BY DEF Inv, TypeOK, FlagsOK, Woken, Polls, PollTimesOut, Readable
<1> QED BY <1>1, InvHolds, PTL DEF Spec, WakesUpSoon

=============================================================================
