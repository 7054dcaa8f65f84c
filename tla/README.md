# A formal model of Snap! Websites

Snap! C++ is a content management system that runs on a cluster of computers. Most of
its code prepares pages from a Cassandra database. What makes a cluster of it work is a
small number of daemons that exchange messages: `snapcommunicator`, which links the
computers and carries the messages, and the daemons behind it, of which the distributed lock,
`snaplock`, is the one whose mistakes are the hardest to see. This directory holds TLA+
modules that model the lock, the ring of its daemons, the links and the routing of
snapcommunicator, and a daemon with a thread of its own (`snapmanagerdaemon`); TLC
configurations that check them; and proofs checked by TLAPS.

Paths below are relative to `src/snapwebsites/` unless they start with `src/`.

## 1. The system

| component | state | operations | talks to |
|---|---|---|---|
| `snaplock` daemon (`snaplock/src/snaplock.cpp`) | `f_computers` (the ring), `f_entering_tickets`, `f_tickets` | one handler per message: LOCK, UNLOCK, LOCKENTERING, LOCKENTERED, GETMAXTICKET, MAXTICKET, ADDTICKET, TICKETADDED, LOCKEXITING, DROPTICKET; LOCKREADY, STATUS, HANGUP, DISCONNECTED; `cleanup()`, `activate_first_lock()` | the other daemons and the clients, through snapcommunicator |
| `snaplock_ticket` (`snaplock/src/snaplock_ticket.cpp`) | counters of the answers, ticket number, copy of the entering requests, dates, flags | `entered`, `max_ticket`, `add_ticket`, `ticket_added`, `remove_entering`, `activate_lock`, `drop_ticket`, `lock_failed` | called by `snaplock` |
| `snap_lock` (`libsnapwebsites/src/snapwebsites/snap_lock.cpp`) | service name, obtention deadline, date of the end of the lock | `lock`, `unlock`, `is_locked` | its local daemon |
| `snapcommunicator` (`snapcommunicator/src/snapcommunicator.cpp`) | connections, registered services, message cache, recent broadcast ids, neighbours | REGISTER, UNREGISTER, CONNECT, ACCEPT, REFUSE, GOSSIP, forwarding, broadcasting, caching | every daemon, the other computers |
| `snap_communicator` (`libsnapwebsites/.../snap_communicator.cpp`) | connections, timers, buffers | `run`, permanent connections and their retries | a library inside every daemon |
| `snap_thread` (`libsnapwebsites/.../snap_thread.cpp`) | mutex, condition, FIFO, life cycle | `start`, `stop`, `push_back`, `pop_front` | snapmanagerdaemon, snapdbproxy, the permanent connections |
| `snapmanagerdaemon` (`snapmanager/daemon/`) | the messenger, the status thread and the connection between them, the last status | READY, SERVER_PUBLIC_IP, MANAGERRESEND, STOP, QUITTING; `run()` of the thread | snapcommunicator |
| `snapdbproxy`, `snaplistd`, `snapbackend`, `snapserver`, `snapfirewall`, `snapwatchdog`, `snaplog` | connections, tables, timers | requests and periodic work | Cassandra, MySQL, snapcommunicator |

The rest (plugins, command line tools, GUI, the libraries under `src/contrib`) is
sequential or is I/O. `PROJECT.json` lists all of it with the reason it is left out.

How a lock is obtained. The thread that wants it registers a new service
`lock_<tid>_<number>` with the snapcommunicator of its computer and sends LOCK to the
local daemon. The daemon runs Lamport's bakery algorithm with messages. It broadcasts
LOCKENTERING and waits for a quorum of LOCKENTERED; broadcasts GETMAXTICKET and waits for a
quorum of MAXTICKET; takes the next number and broadcasts ADDTICKET; at a quorum of
TICKETADDED it copies the requests that are still entering and broadcasts LOCKEXITING.
Once every request of that copy has left, the ticket is ready, and when it is the first
one of its daemon the client is sent LOCKED. UNLOCK makes the daemon broadcast DROPTICKET.

How computers are linked. Of two computers the one with the larger address connects
(CONNECT, answered by ACCEPT or REFUSE); the one with the smaller address only makes itself known
(GOSSIP, answered by RECEIVED). Both use permanent connections, whose timer is enabled while they
are not connected. A link that ends is announced to the local services (STATUS, HANGUP,
DISCONNECTED), and the snaplocks build their ring from LOCKREADY, which is broadcast.

How a message travels. A service registers (REGISTER), says which commands it understands
(COMMANDS) and leaves (UNREGISTER). A message names a service and a server; it is given to a
local service, forwarded, or kept in a cache for a service that is expected on this computer.
A broadcast (`*`, `?` for the local network, `.` for the computer) carries an id, the hops it made
and the neighbours that were informed.

What is hard here:

* each daemon has its own copy of the two maps, and sees the broadcasts of the others in
  an order of its own;
* a quorum is counted over answers, and the answers depend on which daemons give them;
* two timeouts (obtention and duration) run at several daemons and at the client,
  and the client gives up without telling anybody;
* a client that gave up may ask again at once, under the same key;
* clients die with the lock; daemons abort on an exception; computers join and leave;
* everything that is not answered waits for a timeout, and nothing but the next request
  looks at the timeouts;
* a connection ends in three ways (DISCONNECT, hang up, silence), each at any point of the
  handshake, and each must lead to a new attempt;
* a broadcast takes several paths, and what stops its copies (ids, hops, informed neighbours)
  must not stop it before everybody has it;
* a thread and its owner share flags, two FIFOs and two counters, and either may be asleep.

What makes the parts correct: one holder at most; locks granted in ticket order over the
cluster; every request obtains the lock or times out; a held lock keeps its ticket; a
client is told LOCKED or nothing before its deadline; nothing stays in the maps; no daemon
aborts. Two computers that run get linked again, over one connection; who has to connect is not
forgotten while the file that remembers it can be written; the ring is complete. A broadcast reaches every service in its scope, no other
one, and once, if its computer is known under its own address; what is sent to a service that comes and goes arrives in order. A thread is
woken and stopped in time, and its owner is not destroyed before its last critical section. `PROJECT.json` lists the hazards by line with the property that looks at each.

## 2. The modules

* `SnapLockTicket` - the memory of one daemon for one `object_name` and the pure
  operators on it: a node is the record `entering` (the map `f_entering_tickets`),
  `tickets` (the map `f_tickets`, as pairs of a number and a request) and `ticket` (the
  `snaplock_ticket` objects). Operators carry the names of the methods:
  `Entered`, `MaxTicketReceived`, `TicketAddedReceived`, `RemoveEntering`, `ActivateLock`,
  `ActivateFirstLock`, `Cleanup`, `TimedOut`, `LastTicket`. The object of a request is shared by
  the two maps and by the copies of the entering requests, as the `shared_ptr` is, which is
  why `ticket` is a function of its own.
* `SnapLock` - the daemons, the clients and the connections, one action per message or
  client operation, the properties, and the refinement mapping to `LockSpec`.
* `LockSpec` - what `snap_lock` promises its users.
* `MCSnapLock` - values of the constants for TLC.
* `SnapLockTicketProofs`, `SnapLockProofs`, `SnapLockBakeryProofs` - lemmas about the operators, the
  theorems about types and answers, and the theorems about the lock itself.
* `RemoteConnections` - the connections between the snapcommunicators of a cluster, with
  crashes, STOP and the loss of power.
* `SnapLockRing` - extends it with a snaplock on each computer: LOCKREADY over those links,
  `f_computers`, the registration and its end; the properties of both modules.
  `MCSnapLockRing` has its constants. `SnapLockRingProofs` has the theorems about the types, the
  names of the connections and the gossip, `SnapLockRingCompleteProofs` the one about the ring.
* `MessageRouting` - services, messages and broadcasts over a fixed graph of computers.
  `MCMessageRouting` has its constants, `MessageRoutingProofs` the theorems about what must not
  happen to a message, `MessageDeliveryProofs` those about what must have arrived.
* `SnapThread` - the flags, the mutex and the condition of `snap_thread`.
* `InterThreadConnection` - the FIFOs and eventfds of `snap_inter_thread_message_connection`.
* `SnapManagerDaemon` - extends the two: the event loop of snapmanagerdaemon and
  `manager_status::run()`. `SnapManagerDaemonProofs` has the theorems.

Correspondence of the state of `SnapLock`: `node[s]` is the memory of the daemon of computer `s`,
`computers[s]` its `f_computers`, `inbox[s]` the connection from its snapcommunicator,
`link[s][t]` the connection between two snapcommunicators, `client[c]` the `lock_connection`
of a thread, `toClient[c]` its socket, `alive[s]` is false once an exception left
`process_message()`, `now` is `time(nullptr)`. An action of a daemon takes the first message
of `inbox` and does everything the handler does: the map changes, the calls of `cleanup()` and
`activate_first_lock()`, the one message a handler sends to the daemons, and the messages to
the clients (`Notify`).

What is abstracted in `SnapLock`:

* one `object_name`; the others only show through `cleanup()`, which goes through all the
  objects (action `OtherObject`);
* keys are compared as the strings would be: number first, then the client, whose number
  stands for `<server name>/<tid>`;
* the clock is read once per step and shared by the computers;
* the connections are FIFO and lose nothing, as TCP connections between processes that
  stay up; a broadcast reaches the local daemon ahead of everything it receives later
  (`broadcast_message()` queues it on the local connection first); every computer is
  connected to every other one;
* the REGISTER/READY/HELP handshake of a client is one step with its LOCK. The UNLOCK of a
  client and its next LOCK use two connections to snapcommunicator, but a LOCK follows a
  handshake, so the order is kept;
* parameters that `get_parameters()` rejects are never sent by the modelled programs and
  durations below `SNAP_LOCK_MINIMUM_TIMEOUT` are excluded by an assumption;
* the release build: the check of `add_ticket()` under `_DEBUG` is left out;
* LISTTICKETS, logging and the `--list` tool only report.

Bounds: `MaxLocks` (locks per client), `MaxTime` (where the clock stops).

`RemoteConnections` and `SnapLockRing`. `object[c][d]` is the permanent connection of `c` for `d`:
a `remote_snap_communicator` if `d` has the smaller address, a
`gossip_to_remote_snap_communicator` otherwise; its value tells whether the timer is enabled
(`waiting`), the messenger set, ACCEPT received, or neither (`idle`). `accepted[d][c]` holds the
`service_connection`s of `d` from `c` in the order of the vector of `snap_communicator`, with what
they have to read; `neighbors[c].all` is `f_all_neighbors`, `.file` what `neighbors.txt` holds, which is all that is
left after a crash, and `.intact` (history) says that no save of it went wrong so far; `allIps[c]` is `f_all_ips`; `notices[c]` is what the local snaplock was
sent, `computers[c]` its `f_computers`. Abstractions: addresses are numbers; STOP of a
snapcommunicator (DISCONNECT to all, then the end) is one step; a computer without power sends
no FIN, and the other end finds out at some later time (`Detect`); FORGET, HELP, COMMANDS and
the lists of services are left out. `save_neighbors()` opens the file, which truncates it, and
writes the addresses in their order through a buffer, without `fsync()` and without a `rename()`. `SaveNeighbors`
writes all of it, or nothing when the file cannot be opened (on the computers in `MayFail`), which is only
logged, so that the message is answered all the same. `StartCut` and `CrashInSave` are a process
that is killed in the middle, and `Vanish` a computer that loses its power: they leave any prefix of
the addresses (`LeavesPart`). A disk that is full is not modelled. A computer has one address here, its
`my_address`, so that the informed neighbours of a LOCKREADY are a set of computers. Bounds: `OneFault` (at most
one STOP, loss of power, or save that fails or is cut, beside any number of crashes between two messages), `MaxStarts` (starts of all snapcommunicators together),
`MaxOpen` (connections one daemon has from another one), `MaxLockStarts` (starts of a snaplock).

`MessageRouting`. `Link` is the graph of the connections, which are up and FIFO; `Site` is the
local network of a computer; `Hosts` and `Expected` say where services may run and where
`f_local_services_list` says that they should. `Address[c][y]` is the address of `y` on the
connection that `c` has with it, `MyAddress[c]` is `f_my_address` as `broadcast_message()` writes it:
the list of informed neighbours holds addresses, and a computer may be known by others under one that it
does not take for its own (a public and a private one, or an IPv6 address, which is written with
brackets and looked up without). `AddressAssumption`: for one computer no two neighbours have the same address
(they are not behind one router that hides them), and a link is one connection. `received[c]` is `f_received_broadcast_messages`,
`cache[c]` is `f_local_message_cache`, `sequence` counts `g_broadcast_sequence`; `sent`,
`delivered` and `listeners` are history. Every message has the default
parameters (`cache` and `transmission_report` are not used). Bounds: `MaxMessages`, `MaxTime`.

`SnapManagerDaemon`. `owner` and `child` are the places in the code of the two threads. A critical
section without a wait is one step; `push_back()` and the `write()` to the eventfd are two, and so
are `pop_front()` and `read()`. `Nothing` is what `pop_front()` leaves when it finds no message.
`kicked` is history. Abstractions: a status is a number, and `world` the status the
plugins would report; no front end is listed in the configuration, so that a status is one
message; `pthread_create()` may fail, a plugin or `poll()` may throw. After `stop()` the event loop may
serve the removed connection once more from its copy of the list; this only forwards a
status and is left out. Bounds: `MaxChanges`, `MaxResends`, `MaxConnects`.

## 3. The runs

Deadlock is not checked: the models stop when their clients, services and computers have made
all the requests, messages and starts that the bounds allow.

| run | module | instance | shows |
|---|---|---|---|
| `TwoServers` | `MCSnapLock` | 2 daemons, 2 clients, 2 locks each, no timeout, fair | `MutualExclusion`, `BakeryOrder`, `NoAbort`, `NothingLeftBehind`, `GrantsFollowTickets`, `EveryLockIsObtained` |
| `OneServerTimed` | `MCSnapLock` | 1 daemon, 2 clients, obtention timeouts 2 and 5, durations 3, clock to 5; client 1 may stop or die | `TypeOK`, `HeldLockKeepsTicket`, `OnlyLockedIsRead`, `RequestsMatch`, `ImplementsLock` |
| `Links` | `MCSnapLockRing` | 2 computers, the larger one has to be told by GOSSIP; 3 starts; 1 may be stopped, 2 may lose its power or fail to open `neighbors.txt`, either may be killed while it saves it; one such fault; fair | `TypeOK`, `OneConnection`, `GossipIsDurable`, `RingComplete`, `LockReadySettles`, `Reconnects` |
| `Routing` | `MCMessageRouting` | 4 computers in a square over two local networks, one of them with two addresses, 2 messages out of 9 kinds, clock to 2 | `TypeOK`, `AtMostOnce`, `EveryoneTold`, `ScopeIsKept`, `ArrivesInOrder`, `NothingForgotten`, `ExpectedIsKept` |
| `StatusThread` | `SnapManagerDaemon` | poll of 60 s, 1 change, 2 MANAGERRESEND, 2 connections; fair | `TypeOK`, `AlwaysAMessage`, `NotDestroyedInUse`, `WakesUpSoon`, `StopsInTheEnd`, `StatusIsKnown` |
| `ThreeServers` | `MCSnapLock` | 3 daemons, 2 clients, no timeout | violates `MutualExclusion` |
| `RemoteExpiry` | `MCSnapLock` | 2 daemons, a lock longer than its obtention timeout | violates `MutualExclusion` |
| `Retry` | `MCSnapLock` | 1 daemon, clients that ask again after a timeout | violates `MutualExclusion` |
| `LateTicket` | `MCSnapLock` | 1 daemon, a request cleaned up before its ADDTICKET | violates `NoAbort` |
| `DeadHolder` | `MCSnapLock` | 1 daemon, fair, the holder dies | violates `ExpiredLockIsDropped` |
| `CleanStop` | `MCSnapLockRing` | 2 computers, the smaller one is stopped and started; fair | violates `TriesUntilItWorks` |
| `LateLink` | `MCSnapLockRing` | 2 computers, snaplocks that register before the link is up | violates `AwareOfUs` |

Why these bounds. A second daemon gives each map a remote copy and a second order of
arrival. A second lock per client makes a request meet what the first one left, at a daemon
that is behind as well. With durations of 3 (the minimum) and a
clock to 5, a lock granted at 0 or 1 expires with time to spare, and an obtention timeout
of 5 lets a client wait past the end of a lock it has not read yet.
In `DeadHolder` the clock runs past the deadline of the client that waits, so that the
expired ticket stays although all the timeouts of the instance have passed.
In `Links` the third start is a restart after a crash, a STOP or a loss of power, and two open
connections of one computer are needed for a name to be in use when it connects again; the larger
computer, whose file the gossip depends on, is the one on which a save may fail. `OneFault` keeps the liveness check within minutes; pairs of faults
are left to the proofs, which do not have that bound. In
`Routing` the square is the least graph with two paths of two hops; D has a private address, which is its
`f_my_address` and the one C has for it, and a public one, by which B knows it, so that its own broadcasts come back
from B, and those of the others meet both addresses; `MaxHops` is 2 instead of the
5 of the code, so that the limit is just enough for it; a life of 1 for a message and for
the cache, and a clock to 2, let both expire before and after the service registers. In
`StatusThread` two commands, or two statuses, can be in a FIFO, and the second connection is the
restart of snapcommunicator; the timeout is that of the code.

Fairness. The daemons and snapcommunicator are event loops that serve what arrives, a client
reads its socket and its `snap_lock` object is destroyed at the end of its scope, time
passes. `FairSpec` says only that the system does not stop while such a step is possible.
That is weaker than fairness to each process, and enough, since each client makes finitely
many requests. Nothing is assumed of new requests, of deaths, or of requests for other objects.
`FairRingSpec` says that each event loop goes on while it has something to read or a timer that
can connect, and that each snaplock handles its messages; crashes, starts and registrations
are free. In `SnapManagerDaemon` each of the two threads goes on (a poll that has nothing to read
times out), the permanent connection connects, and snapcommunicator answers PUBLIC_IP and
closes the connection after UNREGISTER; commands, changes, signals and spurious wake ups are free.

The passing runs and the violations bound each other. The lock is right with two daemons and
no timeout, and with one daemon whose clients do not ask again; it is not with three
daemons, with a lock that outlives its obtention timeout on two, or after a retry. With two
daemons the quorum is both of them, so the originator of a ticket always answers
GETMAXTICKET: that is why the zero that a copy answers does no harm there.

Findings (quotes and lines are in `PROJECT.json`):

1. `ThreeServers`. `f_our_ticket` is only assigned at the originator. A MAXTICKET quorum
   without it answers 0, a second request takes the number of the lock that is held, and if its
   key is smaller it is granted as well.
2. `RemoteExpiry`. `f_locked` is only set at the originator, so the other daemon expires its
   copy at the obtention timeout and forgets a lock that is still held. The originator still answers
   MAXTICKET with 1, so that the client of the other daemon takes number 2; it is granted because that daemon
   has no ticket 1 any more.
3. `Retry`. The messages between daemons name a request by server and thread. Answers to an
   abandoned request count for the next one, against what the unique number of the service
   is for.
4. `LateTicket`. `cleanup()` may remove the entering request before its ADDTICKET, which then
   throws, and the daemon exits.
5. `DeadHolder`. No timer runs `cleanup()`. The client behind a lock that timed out obtains
   it only if other requests come.
6. `CleanStop`. DISCONNECT makes the larger side call `disconnect()` on its permanent connection,
   which does not enable the timer again: a computer that is stopped and started is not
   connected to any more, where the comment says it is tried until it works. After a crash, without
   DISCONNECT, the link comes back (`Reconnects`).
7. `LateLink`. `interpret_status()` compares the names of connections with strings that
   snapcommunicator never sends, since it adds the address: the LOCKREADY for a new link is never
   sent.

The status thread shows three things that are no findings of a run: `poll()` divides its timeout in each round of
its loop, and only because of that WAKEUP and STOP are effective before the minute is over; a
thread that throws or cannot be created leaves `f_running` set, and the daemon never exits
(`Stuck`, excepted in the two liveness properties); and when snapcommunicator restarts, the
second SERVER_PUBLIC_IP finds the thread running and the daemon quits.

Two things seen in snapcommunicator are no findings of a run either. A save of `neighbors.txt` that fails, is cut by a
crash or lost with the power loses neighbours that earlier saves had put there, also those whose GOSSIP
was answered: the smaller computer gossips no more, and the larger one has forgotten that it has to connect.
`GossipIsDurable` therefore speaks of computers on which no save went wrong. And a computer that others know under another address than its `f_my_address`
gets its own broadcasts back, has not recorded them, and gives them to its services a second time,
where the comment at `snapcommunicator/src/snapcommunicator.cpp:4166-4167` says "(no need for others to send it back to us)". `AtMostOnce`
says that this is the only way to get a broadcast twice, and that a third time does not happen. (A private address
that is used in two local networks for two computers may make one of them be left out; the addresses of the run
are unique.)

`ThreeServers` and `RemoteExpiry` use an action constraint (one client asks when the other one
has the lock) that keeps a subset of the behaviours of `Spec`, so that the search is short.

Each property of a passing run is also shown to be broken by a slip in the code it is about:
the definitions marked "A slip" in the modules are those variants (a copy of the entering
requests that is thrown away at the first exit, a number that is not incremented, a
quorum that is one too large, a DROPTICKET that stays at home, and so on).

## 4. The proofs

`SnapLockProofs` proves, for every set of computers and clients, every home, duration and
timeout, and every bound:

* `TypeCorrect`: `Spec => []TypeOK`;
* `RequestsAlwaysMatch`: `Spec => []RequestsMatch`;
* `OnlyLockedIsReadAlways`: `Spec => []OnlyLockedIsRead`, that is, the exception that
  `lock_connection::process_message()` throws on UNLOCKED is never thrown, and a LOCKFAILED never
  ends a wait before its deadline.

The assumptions are those of the `ASSUME`s: finitely many computers, clients numbered,
durations of at least 3 seconds, timeouts of at least 1.

`TypeOK` alone is not inductive: what `Notify` sends is about the request of the client's
current service, which is a request only if a connected client has one (`Registered`).

`OnlyLockedIsRead` is not inductive either. UNLOCKED is sent when a granted ticket expires, and
LOCKFAILED when another one does. The argument is that a ticket of the current service
that is not granted expires after the client's own deadline, because its obtention timeout
is that deadline; and that a granted one was announced by LOCKED, which is still in front.
This needs, of every LOCK and LOCKENTERING on its way and of every request in a map, that its
client made it, with that deadline if it is the current one, and that a request not made yet
has no ticket that is granted. `RequestsMatch` is that strengthening; `OneServerTimed` checks it with TLC.

The proof has one lemma per action. What the operators of a node do is proved once in
`SnapLockTicketProofs`: they keep the types, and `Evolves` says how `ActivateFirstLock` and
`Cleanup` change a node - no request appears, obtention timeouts and granted locks stay, a
ticket that becomes granted was in the map, one that fails was too and had timed out.

`SnapLockBakeryProofs` proves that the lock is one. Its theorems have hypotheses, because the
properties are false without them (section 3): `OneDaemon` (the cluster is one computer),
`AskOnce` (a thread makes one request; any number of threads), and for some of them `NeverLate` (the clock of
the model stops before a request or a lock can time out). For one daemon whose clients ask once, whatever
the timeouts, the durations, the order of the steps, and the clients that are stopped or die:

* `HeldLocksKeepTickets`: `Spec => []HeldLockKeepsTicket`;
* `LockExcludes`: `Spec => []MutualExclusion`;
* `DaemonImplementsLock`: `Spec => ImplementsLock`, the refinement of `LockSpec`.

The run `OneServerTimed` is an instance of these hypotheses. With `NeverLate` as well:

* `DaemonNeverAborts`: `Spec => []NoAbort`;
* `TicketsAreOrdered`: `Spec => []BakeryOrder`;
* `GrantsAreOrdered`: `Spec => GrantsFollowTickets`;
* `NothingIsLeft`: `Spec => []NothingLeftBehind`, if no client is stopped or dies (`MayStop = {}`): a client
  that does leaves its ticket to its timeout.

The inductive invariant of the first three, `BakeryInv`, extends the one of `SnapLockProofs`.
`Alone`: a request has one message on its way at most, so that the messages of one daemon are a token per
request, although the protocol is written for broadcasts. `Memory`: a ticket object goes through its
flags in one order, and its number is that of its entry in `f_tickets`. `Stage`: what the token says about
the object; after LOCKENTERING the request is entering, or it has timed out. `Order`
is Lamport's argument: if q has its quorum and does not (or no more) wait for r, then r is in
`f_tickets` already, or the number in the message that will give r its ticket is not smaller, so that r comes behind q;
and if q is granted, r is behind it. What makes this work with timeouts is that the condition
(`Passed`) speaks only of tickets that have not timed out, and that `cleanup()` removes no other ones.
`Told`: what a client knows of its lock is the granted ticket, with the same date,
and the ticket stays in `f_tickets` until that date. Two clients that hold the lock would have two
granted tickets in one `f_tickets`, each before the other one.

How `cleanup()` and `activate_first_lock()` change a node is proved once (`Settles`): only tickets that timed out leave,
and a ticket is granted only if it is ready and ahead of all the live ones. For each message
there is a lemma about the node it leaves, and for each action one about the invariant. The refinement
has one step per action: LOCK is Ask, reading LOCKED is Obtain (the date may have passed, and then it
is GiveUp), UNLOCK and a stop are Release or GiveUp, everything the daemon does is a stutter. A tick of the clock
may end a lock, and only one, by mutual exclusion: that is its Release.

`TimelyInv` adds to `BakeryInv` where a request is while nothing times out (`Timely`): it is entering as long
as its token is before LOCKEXITING, it has a ticket with a number from ADDTICKET to DROPTICKET, and the
DROPTICKET carries that number. `NoAbort` follows because ADDTICKET then finds the entering request. TLC
checked `BakeryInv` with three clients, and `TimelyInv` with two, before they were proved.

`MessageRoutingProofs` proves, for every graph of computers, every placement of services and
every number of messages: `TypeCorrect`, `BroadcastsOnce` (`AtMostOnce`), `BroadcastsStayInScope`
(`ScopeIsKept`), `CacheIsEmptied` (`NothingForgotten`) and `DirectedInOrder` (`ArrivesInOrder`).
They hold whatever addresses the computers have for each other. `BroadcastsOnce` says that a service
gets a broadcast once; the services of the computer that sent it may get it twice, and only
if that computer is known to another one under an address that it does not write for itself (`Recognised`).
The inductive invariant `Inv` adds what is between two deliveries. For broadcasts: a copy on a link
is within its scope, carries the id of a message that was sent, and a computer that delivered
it remembers the id for as long as a copy could still be accepted (`Recorded`): the purge
of the ids and the test of the age of a copy use the same second. The computer that sends a broadcast
does not record it, but every copy names its `f_my_address` as informed, so that none comes back to one
that is recognised (`OnLinks`); one that is not records the first copy that comes back (`RecordedTwice`). For directed messages: order is
kept from one place to the next, so that what is delivered comes before what is in the cache,
which comes before what is on the link, and each of the three is in order itself. `Pick`, which
filters a sequence as the loops over the cache do, is a recursive function; what it returns
for any sequence is proved through the least-number principle, on the first index at which it
would be wrong.

`MessageDeliveryProofs` proves the two properties that say that something arrived, `ExpectedAreKept`
(`ExpectedIsKept`, any graph; with the 10 seconds of `broadcast_timeout` and the 60 of the cache it speaks of the
first 10 seconds of a message) and `AllAreTold` (`EveryoneTold`, for a mesh: every computer has a
link with every other one, which is what the gossip of `RemoteConnections` builds; the `Routing` run
checks it on a square, where a copy has to be passed on). Both speak of the moment when no link
holds a message; the invariant `Delivery` says where the message is before: delivered, in the
cache with enough time left, or on the link from its origin (`Kept`, `Told`). The difficult step is
a message that is read and ignored as a duplicate. It is one only if its id was given twice or
its services have got it. Ids are given twice: `g_broadcast_sequence` is only counted up when a
message goes to another computer, so that a message that stays at home has the id of the next one.
What holds is that messages on a link have different ids (`Distinct`), all given already
(`Numbered`); that the id of a directed message on a link is nowhere recorded as received
(`DirectedUnseen`); and that a computer that recorded a broadcast on a link told its services
(`SeenIsGot`). In the mesh the copy that the origin sends suffices, and the hop limit and the
informed neighbours do not matter: the first copy names nobody. The cache needs that its
filter drops nothing but what it should (`PickIsComplete`), proved like the converse.

`SnapLockRingProofs` proves, for every finite set of computers, every `neighbors` parameter and every
number of starts, crashes and connections: `TypeCorrect`, `NamedOnce` (`OneConnection`) and
`GossipSaved` (`GossipIsDurable`, as long as no save of the file concerned went wrong). The first is inductive once it is split by the queue an
action writes. `OneConnection` needs that a connection of a smaller computer is one for gossip,
which never has a name (`Pairs`). `GossipIsDurable` needs `Told` (a RECEIVED on its way means that the
neighbour was saved, and is still in the file if that is intact), `Remembered` (and so it is when no gossip is on its way any more), `Saved` (a running
snapcommunicator whose saves all succeeded has in its file what it has in memory, so that a
later save, which writes the whole file again, loses nothing), `Known` and `Stopped` (a snapcommunicator that does not run has no
connection, and knows nobody).

`SnapLockRingCompleteProofs` proves `RingIsComplete` (`RingComplete`). The antecedent of the property is about
the end of a history (no snapcommunicator ended, the links were up first), so that the
invariant `OrderlyRing` has to hold under the same condition at each step before: `Counted` shows that
`starts` equals the number of running snapcommunicators only if none ended, hence only
if this was so one step earlier. Under it `Links`, `NoDisconnect` and `Joined` give each pair
one link, with nothing on it but LOCKREADY; `Know` is the argument about the ring: of two registered
snaplocks c and d, c counts d, or has a LOCKREADY of d to read, or d has one of c to read
which it will answer; `Locks`, `NoLoss` and `Fresh` say that an answer is still owed in the last case.
It is here that the property turned out to need "no snaplock was started twice": one
that is started again alone is known to the others, gets no answer and stays alone. The
`Links` run, in which a snaplock is started once, does not reach that case; the property now says it.

`SnapManagerDaemonProofs` proves, for every timeout of at least 2 ms and every number of messages,
changes and connections: `TypeCorrect`, `MessagesAreCounted` (`AlwaysAMessage`),
`OutlivesItsThread` (`NotDestroyedInUse`: the thread object is destroyed when the thread is past its last critical
section; as the comment at `snap_thread.cpp:1073-1077` says, it may still be exiting) and `ThreadWakesUp` (`WakesUpSoon`). The invariant: each
counter is the length of its FIFO but for the halves of a send and of a read (`Counted`); a
thread that exists has `f_running` set (`Alive`); a thread that was woken has its message before
it or a timeout that was divided (`Woken`); what is sent was gathered (`Gathered`).

The assumptions are the `ASSUME`s of the modules. `FiniteAssumption` of `RemoteConnections` (a cluster
has finitely many computers) is what the counting in `RingComplete` needs; the mesh of `AllAreTold` is a
hypothesis of that theorem alone.

Only model-checked: the properties of the lock for two daemons and for clients that ask twice (run
`TwoServers`: `MutualExclusion`, `BakeryOrder`, `NoAbort`, `NothingLeftBehind`, `GrantsFollowTickets` without timeouts);
`EveryoneTold` on graphs that are not a mesh; and everything under fairness
(`EveryLockIsObtained`, `LockReadySettles`, `Reconnects`, `StopsInTheEnd`, `StatusIsKnown`). Liveness and
ENABLED are outside the prover, as are recursive operators; there are none of the latter in these
modules.

## 5. Not modelled yet, and the plan

In order of importance:

1. The ring composed with the lock: `SnapLock` starts with a complete ring, `SnapLockRing` has no
   locks. A quorum that grows or shrinks while requests count their answers, and a snaplock that
   restarts alone, need a state space beyond what was tried here.
2. `MessageRouting` over links that come and go, with a snapcommunicator that restarts (its
   broadcast ids start at 0 again), `cache` and `transmission_report` parameters, directed messages to
   server `*` that come twice, and neighbours with one address for two computers.
3. FORGET, the load averages, the lists of services and SHUTDOWN of the cluster.
4. `snap_thread`: `timed_wait()` and the other users of the FIFO (snapdbproxy, the thread in which
   a permanent connection connects).
5. `snaplistd`, `snapdbproxy`, `snapfirewall`: as far as they are more than I/O.

Proofs to come: the theorems of `SnapLockBakeryProofs` for two daemons without timeouts, where the quorum
is both daemons, each message has a copy per daemon, and clients may ask again; `EveryoneTold` for graphs other than the mesh, in which each
computer is at most `MaxHops` away from the origin.

Not modelled, and not in the plan: the page generation of snapserver and its plugins, the
command line and GUI tools, the libraries of `src/contrib` and what runs shell commands
(`snapmanager` apart from its daemon's threads): they are sequential, or their state is in a
database or in other programs.

Limits that stay: the race inside `cleanup()` when the second changes between two calls
of `time()`, and the order of ticket keys after 2^32 numbers, are hazards the model does not
reach.
