------------------------------ MODULE SnapLock ------------------------------
(***************************************************************************)
(* The distributed lock of Snap! Websites: the snaplock daemons of a       *)
(* cluster, which run Lamport's bakery algorithm with messages, and the    *)
(* clients (class snap_lock) that lock and unlock one object_name.         *)
(*                                                                         *)
(* Every computer runs one snapcommunicator, and everything that a daemon  *)
(* is sent comes through its connection to that snapcommunicator: the      *)
(* messages of its clients, those of the other computers, and its own      *)
(* broadcasts (service "*"), which snapcommunicator queues on that         *)
(* connection before it sends them to the other computers.                 *)
(*                                                                         *)
(* Here the ring is complete: every daemon has seen the LOCKREADY of every *)
(* other one, and no computer joins or leaves.                             *)
(***************************************************************************)
EXTENDS SnapLockTicket, Sequences

CONSTANTS
    ObtentionTimeout,   \* lock_obtention_timeout of each client, in seconds
    MayStop,            \* the clients that may be told to STOP, or killed
    MaxTime             \* bound: the clock stops at this second

ASSUME ObtentionAssumption == ObtentionTimeout \in [Clients -> Nat \ {0}]
ASSUME MayStopAssumption   == MayStop \subseteq Clients
ASSUME MaxTimeAssumption   == MaxTime \in Nat

VARIABLES
    node,       \* the memory of each daemon (see SnapLockTicket)
    computers,  \* f_computers of each daemon
    alive,      \* FALSE once an exception left process_message(): the
                \* daemon has exited
    inbox,      \* inbox[t]: the connection from snapcommunicator to daemon t
    link,       \* link[s][t]: the connection from the snapcommunicator of
                \* computer s to the one of computer t
    client,     \* the lock_connection of each client
    toClient,   \* the connection from snapcommunicator to the current lock
                \* service of each client
    now         \* time(nullptr)

vars == <<node, computers, alive, inbox, link, client, toClient, now>>

-----------------------------------------------------------------------------
(* Messages.                                                               *)

\* What the clients send, and what the daemons send: `from` is the server a
\* reply goes to, `key` the entering key.
ClientRequest   == [cmd : {"LOCK"}, key : Clients, service : 1 .. MaxLocks, timeout : Nat]
                   \cup [cmd : {"UNLOCK"}, key : Clients]
EnteringMessage == [cmd : {"LOCKENTERING"}, from : Servers, key : Clients,
                    service : 1 .. MaxLocks, timeout : Nat]
KeyMessage      == [cmd : {"LOCKENTERED", "GETMAXTICKET", "LOCKEXITING"},
                    from : Servers, key : Clients]
TicketMessage   == [cmd : {"MAXTICKET", "ADDTICKET", "TICKETADDED", "DROPTICKET"},
                    from : Servers, key : Clients, id : Nat]
DaemonMessage   == EnteringMessage \cup KeyMessage \cup TicketMessage
Message         == ClientRequest \cup DaemonMessage

\* What a client is sent.
ToClient == [cmd : {"LOCKED", "LOCKFAILED", "UNLOCKED"}, timeout_date : Nat]

\* A client: idle between two locks, waiting in run(), locked from LOCKED to
\* unlock(), aborted by the exception that an UNLOCKED raises, or killed.
ClientState == [ state        : {"idle", "waiting", "locked", "aborted", "dead"},
                 service      : 0 .. MaxLocks,   \* f_service_name
                 deadline     : Nat,             \* f_obtention_timeout_date
                 timeout_date : Nat ]            \* f_lock_timeout_date

TypeOK ==
    /\ node \in [Servers -> Node]
    /\ computers \in [Servers -> SUBSET Servers]
    /\ alive \in [Servers -> BOOLEAN]
    /\ inbox \in [Servers -> Seq(Message)]
    /\ link \in [Servers -> [Servers -> Seq(DaemonMessage)]]
    /\ client \in [Clients -> ClientState]
    /\ toClient \in [Clients -> Seq(ToClient)]
    /\ now \in Nat

Init ==
    /\ node = [s \in Servers |-> EmptyNode]
    /\ computers = [s \in Servers |-> Servers]
    /\ alive = [s \in Servers |-> TRUE]
    /\ inbox = [s \in Servers |-> <<>>]
    /\ link = [s \in Servers |-> [t \in Servers |-> <<>>]]
    /\ client = [c \in Clients |-> [state |-> "idle", service |-> 0,
                                    deadline |-> 0, timeout_date |-> 0]]
    /\ toClient = [c \in Clients |-> <<>>]
    /\ now = 0

-----------------------------------------------------------------------------
(* The network, as the daemons use it.                                     *)

\* quorum()
quorum(t) == Cardinality(computers[t]) \div 2 + 1

\* process_message(): daemon t processes the first message of its connection.
Receives(t, cmd) == /\ alive[t]
                    /\ inbox[t] # <<>>
                    /\ Head(inbox[t]).cmd = cmd

\* What daemon t sends while it processes that message: nothing, one message
\* to server s, or one to service "*".
SendNothing(t) == /\ inbox' = [inbox EXCEPT ![t] = Tail(@)]
                  /\ UNCHANGED link

SendTo(t, s, m) ==
    IF s = t
    THEN /\ inbox' = [inbox EXCEPT ![t] = Append(Tail(@), m)]
         /\ UNCHANGED link
    ELSE /\ inbox' = [inbox EXCEPT ![t] = Tail(@)]
         /\ link' = [link EXCEPT ![t][s] = Append(@, m)]

Broadcast(t, m) ==
    /\ inbox' = [inbox EXCEPT ![t] = Append(Tail(@), m)]
    /\ link' = [link EXCEPT ![t] = [s \in Servers |->
                   IF s = t THEN link[t][t] ELSE Append(link[t][s], m)]]

\* The snapcommunicator of computer t passes a message of computer s on to its
\* daemon.
Forward(s, t) ==
    /\ link[s][t] # <<>>
    /\ inbox' = [inbox EXCEPT ![t] = Append(@, Head(link[s][t]))]
    /\ link' = [link EXCEPT ![s][t] = Tail(@)]
    /\ UNCHANGED <<node, computers, alive, client, toClient, now>>

\* What the clients of daemon s are sent when its memory goes from old to
\* new: LOCKED by activate_lock(), LOCKFAILED or UNLOCKED by lock_failed().
\* snapcommunicator drops a message for a lock service that is not registered
\* (any more): only the current request of a client that is still connected
\* gets one.
Connected(c) == client[c].state \in {"waiting", "locked"}

Notify(s, old, new) ==
    [c \in Clients |->
        LET r == <<c, client[c].service>> IN
        IF ~Connected(c) \/ Home[c] # s
        THEN toClient[c]
        ELSE IF new.ticket[r].locked /\ ~old.ticket[r].locked
        THEN Append(toClient[c], [cmd |-> "LOCKED", timeout_date |-> new.ticket[r].lock_timeout])
        ELSE IF new.ticket[r].lock_failed /\ ~old.ticket[r].lock_failed
        THEN Append(toClient[c],
                    [cmd |-> IF old.ticket[r].locked THEN "UNLOCKED" ELSE "LOCKFAILED",
                     timeout_date |-> 0])
        ELSE toClient[c]]

-----------------------------------------------------------------------------
(* The clients: class snap_lock and its lock_connection.                   *)

\* lock(): a new service name registers and sends LOCK.
ClientLock(c) ==
    LET service  == client[c].service + 1
        deadline == now + ObtentionTimeout[c]
    IN  /\ client[c].state = "idle"
        /\ client[c].service < MaxLocks
        /\ client' = [client EXCEPT ![c] = [state |-> "waiting", service |-> service,
                                            deadline |-> deadline, timeout_date |-> 0]]
        /\ inbox' = [inbox EXCEPT ![Home[c]] =
                        Append(@, [cmd |-> "LOCK", key |-> c,
                                   service |-> service, timeout |-> deadline])]
        /\ UNCHANGED <<node, computers, alive, link, toClient, now>>

\* process_message(), called by run(), which tests the deadline before every
\* read: LOCKED ends the wait with the lock, LOCKFAILED without it, UNLOCKED
\* throws.  After LOCKED nothing is read any more.
CanRead(c) == /\ client[c].state = "waiting"
              /\ now < client[c].deadline
              /\ toClient[c] # <<>>

ClientMessage(c) ==
    LET m == Head(toClient[c])
    IN  /\ CanRead(c)
        /\ client' = [client EXCEPT
                         ![c].state = CASE m.cmd = "LOCKED"     -> "locked"
                                        [] m.cmd = "LOCKFAILED" -> "idle"
                                        [] m.cmd = "UNLOCKED"   -> "aborted",
                         ![c].timeout_date = m.timeout_date]
        /\ toClient' = [toClient EXCEPT ![c] = IF m.cmd = "LOCKED" THEN Tail(@) ELSE <<>>]
        /\ UNCHANGED <<node, computers, alive, inbox, link, now>>

\* A slip: a lock service without its unique number, which the next lock() of
\* the client shares.
ClientTimeoutSameService(c) ==
    /\ client[c].state = "waiting"
    /\ client[c].deadline <= now
    /\ client' = [client EXCEPT ![c].state = "idle"]
    /\ UNCHANGED <<node, computers, alive, inbox, link, toClient, now>>

\* process_timeout(): lock() returns false and the daemon is not told.
ClientTimeout(c) ==
    /\ client[c].state = "waiting"
    /\ client[c].deadline <= now
    /\ client' = [client EXCEPT ![c].state = "idle"]
    /\ toClient' = [toClient EXCEPT ![c] = <<>>]
    /\ UNCHANGED <<node, computers, alive, inbox, link, now>>

\* unlock(), by the user or the destructor: UNLOCK, then UNREGISTER; what the
\* daemon still sends to this service is never read.
ClientUnlock(c) ==
    /\ client[c].state = "locked"
    /\ client' = [client EXCEPT ![c].state = "idle", ![c].timeout_date = 0]
    /\ inbox' = [inbox EXCEPT ![Home[c]] = Append(@, [cmd |-> "UNLOCK", key |-> c])]
    /\ toClient' = [toClient EXCEPT ![c] = <<>>]
    /\ UNCHANGED <<node, computers, alive, link, now>>

\* process_message(): a STOP, or a QUITTING, that comes before an answer of the
\* daemon also ends run(); lock() returns false and the daemon is not told.
ClientStop(c) ==
    /\ c \in MayStop
    /\ client[c].state = "waiting"
    /\ now < client[c].deadline
    /\ client' = [client EXCEPT ![c].state = "idle"]
    /\ toClient' = [toClient EXCEPT ![c] = <<>>]
    /\ UNCHANGED <<node, computers, alive, inbox, link, now>>

\* The process of the client is killed: its connection closes and no UNLOCK
\* is sent.
ClientDies(c) ==
    /\ c \in MayStop
    /\ Connected(c)
    /\ client' = [client EXCEPT ![c].state = "dead", ![c].timeout_date = 0]
    /\ toClient' = [toClient EXCEPT ![c] = <<>>]
    /\ UNCHANGED <<node, computers, alive, inbox, link, now>>

\* is_locked()
IsLocked(c) == client[c].timeout_date # 0 /\ client[c].timeout_date > now

-----------------------------------------------------------------------------
(* The daemon: one action per message.                                     *)

\* lock()
HandleLock(t) ==
    LET m == Head(inbox[t])
        r == <<m.key, m.service>>
    IN  /\ Receives(t, "LOCK")
        /\ IF m.timeout <= now
           THEN /\ SendNothing(t)
                /\ UNCHANGED node
           ELSE /\ Broadcast(t, [cmd |-> "LOCKENTERING", from |-> t, key |-> m.key,
                                 service |-> m.service, timeout |-> m.timeout])
                /\ node' = [node EXCEPT ![t] = Allocate(@, r, m.timeout)]
        /\ UNCHANGED <<computers, alive, client, toClient, now>>

\* A slip: only the daemon of the client is told to drop the ticket.
HandleUnlockAtHome(t) ==
    LET m     == Head(inbox[t])
        own   == {u \in node[t].tickets : Key(u[2]) = m.key}
        first == {u \in own : \A v \in own : v = u \/ Before(u, v)}
    IN  /\ Receives(t, "UNLOCK")
        /\ \/ /\ own = {}
              /\ SendNothing(t)
           \/ \E u \in first :
                 SendTo(t, t, [cmd |-> "DROPTICKET", from |-> t, key |-> m.key, id |-> u[1]])
        /\ UNCHANGED <<node, computers, alive, client, toClient, now>>

\* unlock() and snaplock_ticket::drop_ticket(): the first ticket of the client
\* is dropped everywhere, under its own f_ticket_key, or under its entering key
\* (id 0) if it never took a number; without a ticket nothing happens.  The
\* UNLOCKED answer goes to a service that unregistered right after its UNLOCK.
HandleUnlock(t) ==
    LET m     == Head(inbox[t])
        own   == {u \in node[t].tickets : Key(u[2]) = m.key}
        first == {u \in own : \A v \in own : v = u \/ Before(u, v)}
    IN  /\ Receives(t, "UNLOCK")
        /\ \/ /\ own = {}
              /\ SendNothing(t)
           \/ \E u \in first :
                 Broadcast(t, [cmd |-> "DROPTICKET", from |-> t, key |-> m.key,
                               id |-> IF node[t].ticket[u[2]].added_ticket
                                      THEN node[t].ticket[u[2]].our_ticket ELSE 0])
        /\ UNCHANGED <<node, computers, alive, client, toClient, now>>

\* lockentering()
LockEntering(t) ==
    LET m         == Head(inbox[t])
        fresh     == m.timeout > now
        allocated == IF fresh /\ Entering(node[t], m.key) = {}
                     THEN Allocate(node[t], <<m.key, m.service>>, m.timeout)
                     ELSE node[t]
        cleaned   == Cleanup(allocated, t, now)
    IN  /\ Receives(t, "LOCKENTERING")
        /\ node' = [node EXCEPT ![t] = cleaned]
        /\ IF fresh
           THEN SendTo(t, m.from, [cmd |-> "LOCKENTERED", from |-> t, key |-> m.key])
           ELSE SendNothing(t)
        /\ toClient' = Notify(t, allocated, cleaned)
        /\ UNCHANGED <<computers, alive, client, now>>

\* lockentered()
LockEntered(t) ==
    LET m == Head(inbox[t])
    IN  /\ Receives(t, "LOCKENTERED")
        /\ \/ /\ Entering(node[t], m.key) = {}
              /\ SendNothing(t)
              /\ UNCHANGED node
           \/ \E r \in Entering(node[t], m.key) :
                 LET old == node[t].ticket[r]
                     new == Entered(old, quorum(t))
                 IN  /\ node' = [node EXCEPT ![t].ticket[r] = new]
                     /\ IF new.get_max_ticket /\ ~old.get_max_ticket
                        THEN Broadcast(t, [cmd |-> "GETMAXTICKET", from |-> t, key |-> m.key])
                        ELSE SendNothing(t)
        /\ UNCHANGED <<computers, alive, client, toClient, now>>

\* get_max_ticket()
GetMaxTicket(t) ==
    LET m       == Head(inbox[t])
        cleaned == Cleanup(node[t], t, now)
    IN  /\ Receives(t, "GETMAXTICKET")
        /\ node' = [node EXCEPT ![t] = cleaned]
        /\ \E last_ticket \in LastTicket(cleaned) :
              SendTo(t, m.from, [cmd |-> "MAXTICKET", from |-> t, key |-> m.key,
                                 id |-> last_ticket])
        /\ toClient' = Notify(t, node[t], cleaned)
        /\ UNCHANGED <<computers, alive, client, now>>

\* max_ticket()
MaxTicket(t) ==
    LET m == Head(inbox[t])
    IN  /\ Receives(t, "MAXTICKET")
        /\ \/ /\ Entering(node[t], m.key) = {}
              /\ SendNothing(t)
              /\ UNCHANGED node
           \/ \E r \in Entering(node[t], m.key) :
                 LET old == node[t].ticket[r]
                     new == MaxTicketReceived(old, m.id, quorum(t))
                 IN  /\ node' = [node EXCEPT ![t].ticket[r] = new]
                     /\ IF new.added_ticket /\ ~old.added_ticket
                        THEN Broadcast(t, [cmd |-> "ADDTICKET", from |-> t, key |-> m.key,
                                           id |-> new.our_ticket])
                        ELSE SendNothing(t)
        /\ UNCHANGED <<computers, alive, client, toClient, now>>

\* add_ticket(): the ticket shares the object of the entering request.
AddTicket(t) ==
    LET m == Head(inbox[t])
    IN  /\ Receives(t, "ADDTICKET")
        /\ \E r \in Entering(node[t], m.key) :
              node' = [node EXCEPT ![t].tickets =
                          (@ \ TicketsAt(node[t], m.id, m.key)) \cup {<<m.id, r>>}]
        /\ SendTo(t, m.from, [cmd |-> "TICKETADDED", from |-> t, key |-> m.key, id |-> m.id])
        /\ UNCHANGED <<computers, alive, client, toClient, now>>

\* add_ticket() without that entering request: std::logic_error, which nothing
\* catches before main().
AddTicketThrows(t) ==
    /\ Receives(t, "ADDTICKET")
    /\ Entering(node[t], Head(inbox[t]).key) = {}
    /\ alive' = [alive EXCEPT ![t] = FALSE]
    /\ SendNothing(t)
    /\ UNCHANGED <<node, computers, client, toClient, now>>

\* ticket_added()
TicketAdded(t) ==
    LET m     == Head(inbox[t])
        found == TicketsAt(node[t], m.id, m.key)
    IN  /\ Receives(t, "TICKETADDED")
        /\ \/ /\ found = {} \/ node[t].entering = {}
              /\ SendNothing(t)
              /\ UNCHANGED node
           \/ \E u \in found :
                 LET r   == u[2]
                     old == node[t].ticket[r]
                     new == TicketAddedReceived(old, node[t].entering, quorum(t))
                 IN  /\ node[t].entering # {}
                     /\ node' = [node EXCEPT ![t].ticket[r] = new]
                     /\ IF new.added_ticket_quorum /\ ~old.added_ticket_quorum
                        THEN Broadcast(t, [cmd |-> "LOCKEXITING", from |-> t, key |-> m.key])
                        ELSE SendNothing(t)
        /\ UNCHANGED <<computers, alive, client, toClient, now>>

\* lockexiting()
LockExiting(t) ==
    LET m         == Head(inbox[t])
        exited    == [node[t] EXCEPT
                         !.entering = @ \ Entering(node[t], m.key),
                         !.ticket   = [r \in Requests |->
                             IF \E u \in node[t].tickets : u[2] = r
                             THEN RemoveEntering(node[t], node[t].ticket[r], m.key, now)
                             ELSE node[t].ticket[r]]]
        activated == ActivateFirstLock(exited, t, now)
    IN  /\ Receives(t, "LOCKEXITING")
        /\ IF Entering(node[t], m.key) = {}
           THEN UNCHANGED <<node, toClient>>
           ELSE /\ node' = [node EXCEPT ![t] = activated]
                /\ toClient' = Notify(t, exited, activated)
        /\ SendNothing(t)
        /\ UNCHANGED <<computers, alive, client, now>>

\* drop_ticket(): an entering key (id 0) names no ticket and activates nothing.
DropTicket(t) ==
    LET m         == Head(inbox[t])
        dropped   == [node[t] EXCEPT !.tickets = @ \ TicketsAt(node[t], m.id, m.key)]
        activated == IF m.id = 0 THEN node[t] ELSE ActivateFirstLock(dropped, t, now)
    IN  /\ Receives(t, "DROPTICKET")
        /\ node' = [node EXCEPT ![t] =
                       [activated EXCEPT !.entering = @ \ Entering(node[t], m.key)]]
        /\ SendNothing(t)
        /\ toClient' = Notify(t, node[t], activated)
        /\ UNCHANGED <<computers, alive, client, now>>

\* A LOCKENTERING or a GETMAXTICKET for another object_name: cleanup() goes
\* through all the objects.
OtherObject(t) ==
    LET cleaned == Cleanup(node[t], t, now)
    IN  /\ alive[t]
        /\ cleaned # node[t]
        /\ node' = [node EXCEPT ![t] = cleaned]
        /\ toClient' = Notify(t, node[t], cleaned)
        /\ UNCHANGED <<computers, alive, inbox, link, client, now>>

\* One more second on the clocks, which the computers share.
Tick == /\ now < MaxTime
        /\ now' = now + 1
        /\ UNCHANGED <<node, computers, alive, inbox, link, client, toClient>>

-----------------------------------------------------------------------------
ClientStep(c) == ClientMessage(c) \/ ClientTimeout(c) \/ ClientUnlock(c)

HandleMessage(t) ==
    \/ HandleLock(t)   \/ HandleUnlock(t)
    \/ LockEntering(t) \/ LockEntered(t)
    \/ GetMaxTicket(t) \/ MaxTicket(t)
    \/ AddTicket(t)    \/ AddTicketThrows(t) \/ TicketAdded(t)
    \/ LockExiting(t)  \/ DropTicket(t)

Next ==
    \/ \E c \in Clients : ClientLock(c) \/ ClientStep(c) \/ ClientStop(c) \/ ClientDies(c)
    \/ \E t \in Servers : HandleMessage(t) \/ OtherObject(t)
    \/ \E s, t \in Servers : Forward(s, t)
    \/ Tick

Spec == Init /\ [][Next]_vars

\* The daemons and snapcommunicator are event loops that serve their connections,
\* a client reads what it is sent and its snap_lock object is destroyed some day,
\* time passes: the system does not stop while one of these steps is possible.
\* Nothing makes a client ask for a lock, stop, die, or send traffic for other objects.
\* (This is weaker than fairness to each process, and enough: with MaxLocks
\* requests for each client there are only finitely many steps.)
SystemStep == \/ \E c \in Clients : ClientStep(c)
              \/ \E s, t \in Servers : Forward(s, t)
              \/ Tick
              \/ \E t \in Servers : HandleMessage(t)

FairSpec == Spec /\ WF_vars(SystemStep)

-----------------------------------------------------------------------------
(* What is said of the lock.                                               *)

\* The snaplock_ticket of request r at the daemon that received its LOCK, its
\* key in f_tickets, and whether it is there.
HomeTicket(r) == node[Home[Key(r)]].ticket[r]
TicketKey(r)  == <<HomeTicket(r).our_ticket, r>>
TicketHeld(r) == \E t \in node[Home[Key(r)]].tickets : t[2] = r

\* The client of r still waits for it or holds it.
Wanted(r) == Connected(Key(r)) /\ client[Key(r)].service = r[2]

\* Two clients never hold the lock at the same time: is_locked() is true for one
\* of them at most, whatever the daemons and the messages on their way do.
MutualExclusion == \A c, d \in Clients : IsLocked(c) /\ IsLocked(d) => c = d

\* "By now all existing snaplock instances should already have an entering
\* ticket for that one ticket": no ADDTICKET makes a daemon throw and exit.
NoAbort == \A s \in Servers : alive[s]

\* The bakery argument.  Once a ticket reached its TICKETADDED quorum, a ticket
\* of another request that is not in its copy of the entering requests either
\* comes after it or is already in f_tickets of the same daemon: when the copy
\* is empty, the first ticket of that daemon is the first one of the cluster.
BakeryOrder ==
    \A r, q \in Requests :
        /\ r # q /\ Wanted(r) /\ Wanted(q)
        /\ HomeTicket(r).added_ticket_quorum
        /\ HomeTicket(q).added_ticket
        /\ q \notin HomeTicket(r).still_entering
        => \/ Before(TicketKey(r), TicketKey(q))
           \/ TicketKey(q) \in node[Home[Key(r)]].tickets

\* Locks are granted in ticket order over the whole cluster: when
\* activate_lock() grants one, every other request that has its number and is
\* still wanted has a later ticket, whichever daemon numbered it.
GrantsFollowTickets ==
    [][\A r, q \in Requests :
          /\ HomeTicket(r)'.locked /\ ~HomeTicket(r).locked
          /\ q # r /\ Wanted(q) /\ HomeTicket(q).added_ticket
          => Before(TicketKey(r), TicketKey(q))]_vars

\* As long as is_locked() is true for a client, its granted ticket is in
\* f_tickets of its daemon: neither cleanup() nor a DROPTICKET of somebody else
\* takes it away.
HeldLockKeepsTicket ==
    \A c \in Clients : IsLocked(c) =>
        LET r == <<c, client[c].service>> IN
        HomeTicket(r).locked /\ TicketHeld(r)

\* "We should not receive the UNLOCKED before the LOCKED": what a client that
\* still waits reads is LOCKED; UNLOCKED, which throws, never comes first, and
\* LOCKFAILED never comes before the client's own deadline.
OnlyLockedIsRead == \A c \in Clients : CanRead(c) => Head(toClient[c]).cmd = "LOCKED"

\* Why it is so.  A client that is connected has a service; a LOCK or a
\* LOCKENTERING on its way, and a request in the maps of a daemon, is one that its
\* client made, with the deadline of the client if it is the current one; a
\* request that is not made yet has no lock.
Registered == \A c \in Clients : Connected(c) => client[c].service # 0

MadeByClient(r, timeout) ==
    /\ r[2] <= client[Key(r)].service
    /\ r[2] = client[Key(r)].service => timeout = client[Key(r)].deadline

MessageMatches(m) ==
    m.cmd \in {"LOCK", "LOCKENTERING"} => MadeByClient(<<m.key, m.service>>, m.timeout)

MessagesMatch ==
    \A s \in Servers :
        /\ \A i \in DOMAIN inbox[s] : MessageMatches(inbox[s][i])
        /\ \A t \in Servers : \A i \in DOMAIN link[s][t] : MessageMatches(link[s][t][i])

NodeMatches(nd) ==
    \A r \in Requests :
        /\ r \in nd.entering \/ (\E t \in nd.tickets : t[2] = r)
           => MadeByClient(r, nd.ticket[r].obtention_timeout)
        /\ client[Key(r)].service < r[2] => ~nd.ticket[r].locked

NodesMatch == \A s \in Servers : NodeMatches(node[s])

\* A client that is idle was sent nothing; one that waits and whose ticket is
\* granted was sent something, and until its deadline that starts with LOCKED.
AnswerMatches(c, tk, answers) ==
    /\ client[c].state = "idle" => answers = <<>>
    /\ client[c].state = "waiting" /\ tk.locked => answers # <<>>
    /\ client[c].state = "waiting" /\ answers # <<>> /\ now < client[c].deadline
       => Head(answers).cmd = "LOCKED"

AnswersMatch ==
    \A c \in Clients :
        AnswerMatches(c, node[Home[c]].ticket[<<c, client[c].service>>], toClient[c])

RequestsMatch == Registered /\ MessagesMatch /\ NodesMatch /\ AnswersMatch

\* When every client is done and no message is on its way, no daemon is left
\* with an entering request or a ticket, its own or a copy.
NothingLeftBehind ==
    /\ \A c \in Clients : client[c].state = "idle"
    /\ \A s \in Servers : inbox[s] = <<>> /\ \A t \in Servers : link[s][t] = <<>>
    => \A s \in Servers : node[s].entering = {} /\ node[s].tickets = {}

\* A client that waits obtains the lock: no request is lost or waits for ever
\* on another one.  (Under FairSpec; the clients that may be stopped excepted.)
EveryLockIsObtained ==
    \A c \in Clients \ MayStop : client[c].state = "waiting" ~> client[c].state = "locked"

\* "The deadlock itself will be resolved once the lock times out": a granted lock
\* that timed out while another client waits behind it is removed from f_tickets.
\* (Under FairSpec.)
ExpiredLockIsDropped ==
    \A r, q \in Requests :
        LET expired == TicketHeld(r) /\ HomeTicket(r).locked /\ TimedOut(HomeTicket(r), now)
            waits   == Wanted(q) /\ TicketHeld(q) /\ now < client[Key(q)].deadline
        IN  Key(r) # Key(q) => (expired /\ waits ~> ~TicketHeld(r))

\* The daemons and their clients implement the lock of module LockSpec.
LockState == [c \in Clients |-> IF client[c].state = "waiting" THEN "waiting"
                                ELSE IF IsLocked(c) THEN "holding" ELSE "idle"]
Abstract == INSTANCE LockSpec WITH state <- LockState
ImplementsLock == Abstract!Spec

=============================================================================
