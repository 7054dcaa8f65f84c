-------------------------- MODULE RemoteConnections --------------------------
(***************************************************************************)
(* The connections between the snapcommunicator daemons of a cluster.      *)
(*                                                                         *)
(* Every pair of computers has at most one link: the daemon with the       *)
(* larger IP address connects to the one with the smaller address          *)
(* (remote_snap_communicator, sends CONNECT), and the one with the smaller *)
(* address only tells a larger one that it exists (GOSSIP, answered by     *)
(* RECEIVED).  Both are permanent connections: a timer starts an attempt   *)
(* to connect, the timer is disabled while connected, and the functions    *)
(* that see an error enable it again.                                      *)
(*                                                                         *)
(* Addresses are numbers, in the order of snap_addr::addr::operator <.     *)
(* FORGET, HELP and COMMANDS, and the lists of services are left out.      *)
(***************************************************************************)
EXTENDS Naturals, Sequences, FiniteSets

CONSTANTS
    Computers,       \* the addresses of the computers
    Explicit,        \* the "neighbors" parameter of each computer
    MaxConnections,  \* f_max_connections
    MayStop,         \* the computers whose snapcommunicator may get a STOP
    MayVanish,       \* the computers that may lose power: no FIN is sent
    MayFail,         \* the computers on which neighbors.txt may not be writable
    OneFault,        \* bound: at most one STOP, loss of power, or failed or cut save
    MaxStarts,       \* bound: how often the snapcommunicators are started
    MaxOpen          \* bound: connections one daemon has from another one

ASSUME ComputersAssumption == Computers \subseteq Nat
ASSUME FiniteAssumption    == IsFiniteSet(Computers)
ASSUME ExplicitAssumption  == Explicit \in [Computers -> SUBSET Computers]

VARIABLES
    running,     \* whether the snapcommunicator of each computer runs
    starts,      \* how often one of them was started
    smooth,      \* no computer was told to STOP or lost its power so far
    neighbors,   \* neighbors[c].all: f_all_neighbors; .file: what neighbors.txt holds;
                 \* .intact (history): no save of it has failed or was cut so far
    allIps,      \* f_all_ips
    object,      \* object[c][d]: the permanent connection that c has for d, a
                 \* remote_snap_communicator (f_smaller_ips) if d < c, else a
                 \* gossip_to_remote_snap_communicator (f_gossip_ips)
    accepted,    \* accepted[d][c]: the service_connections d has from c, in
                 \* the order in which they were accepted
    replies,     \* replies[c][d]: what object[c][d] has not read yet
    registered,  \* whether a local service that understands STATUS, HANGUP
                 \* and DISCONNECTED is registered
    notices      \* what that service was sent and has not processed yet

linkVars == <<running, starts, smooth, neighbors, allIps, object, accepted, replies>>

\* A permanent connection: absent, its timer enabled, f_messenger set, ACCEPT
\* received too, or neither a timer nor a messenger.
ObjectState == {"none", "waiting", "connected", "accepted", "idle"}

Up(c, d) == object[c][d] \in {"connected", "accepted"}

\* The end of a connection (POLLHUP), behind everything sent before it.
Message(cmd) == [cmd |-> cmd]
EOF          == Message("EOF")

\* What a service_connection adds to its socket: `named` once
\* set_server_name() was called, CONNECTION_TYPE_REMOTE or not, `open` while
\* the other side has not closed its end, and whether it was there before the
\* remote_snap_communicator for the same computer.
NewConnection(first, m) == [in |-> <<m>>, named |-> FALSE, remote |-> FALSE,
                            open |-> TRUE, first |-> first]

\* The link between c and the smaller d is up on both sides.
Linked(c, d) == /\ object[c][d] = "accepted"
                /\ \E i \in DOMAIN accepted[d][c] : accepted[d][c][i].open /\ accepted[d][c][i].remote

\* The bound on what goes wrong besides crashes.
FaultAllowed == OneFault => smooth /\ \A c \in Computers : neighbors[c].intact

Init ==
    /\ running = [c \in Computers |-> FALSE]
    /\ starts = 0
    /\ smooth = TRUE
    /\ neighbors = [c \in Computers |-> [all |-> {}, file |-> {}, intact |-> TRUE]]
    /\ allIps = [c \in Computers |-> {}]
    /\ object = [c \in Computers |-> [d \in Computers |-> "none"]]
    /\ accepted = [d \in Computers |-> [c \in Computers |-> <<>>]]
    /\ replies = [c \in Computers |-> [d \in Computers |-> <<>>]]
    /\ registered = [c \in Computers |-> FALSE]
    /\ notices = [c \in Computers |-> <<>>]

-----------------------------------------------------------------------------
(* Sending and closing.                                                    *)

\* c sends m on its connection to d; with close, and then closes it.
Sent(conns, m)   == [i \in DOMAIN conns |->
                        IF conns[i].open THEN [conns[i] EXCEPT !.in = Append(@, m)] ELSE conns[i]]
Closed(conns)    == [i \in DOMAIN conns |->
                        IF conns[i].open
                        THEN [conns[i] EXCEPT !.in = Append(@, EOF), !.open = FALSE]
                        ELSE conns[i]]

\* send_status() and the broadcasts to service ".": the registered service of
\* computer c gets them.
Notify(c, ms) == notices' = [notices EXCEPT ![c] = IF registered[c] THEN @ \o ms ELSE @]

\* The names that process_accept() and add_remote_communicator() give to the
\* connections, with the address of the other computer; STATUS carries them.
ConnectionFrom(c) == <<"remote connection from", c>>
ConnectionTo(d)   == <<"remote communicator connection", d>>
Status(name)      == [cmd |-> "STATUS", service |-> name]
Gone(cmd, c)      == [cmd |-> cmd, who |-> c]

-----------------------------------------------------------------------------
(* The neighbors of a computer.                                            *)

\* A slip: our own address is not left out.
NewAddressesOrOwn(c, S) == S \ allIps[c]

\* add_remote_communicator() for every address of S that is new in f_all_ips:
\* a remote connection to a smaller address, a gossip to a larger one.  (An
\* address that is known already only has the date of its timer moved, and
\* that only if the timer is enabled.)  `objects` are the permanent connections
\* of c otherwise.
NewAddresses(c, S) == S \ (allIps[c] \cup {c})

AddRemotes(c, S, objects) ==
    LET new == NewAddresses(c, S)
    IN  /\ allIps' = [allIps EXCEPT ![c] = @ \cup new]
        /\ object' = [object EXCEPT ![c] = [d \in Computers |->
                         IF d \in new THEN "waiting" ELSE objects[d]]]

\* A slip: neighbors.txt is not written.
SaveNothing(c, nb, S) == {[all |-> S, file |-> nb.file, intact |-> nb.intact]}

\* save_neighbors(), f_all_neighbors being S: the file is written again.  That
\* it cannot be opened is only logged.
SaveNeighbors(c, nb, S) ==
    {[all |-> S, file |-> S, intact |-> nb.intact]}
        \cup IF c \in MayFail /\ FaultAllowed THEN {[all |-> S, file |-> nb.file, intact |-> FALSE]} ELSE {}

\* add_neighbors(): f_all_neighbors is saved if it changes.
Added(c, nb, S) == IF S \subseteq nb.all THEN {nb} ELSE SaveNeighbors(c, nb, nb.all \cup S)

AddNeighbors(c, S, objects) == /\ \E nb \in Added(c, neighbors[c], S) :
                                     neighbors' = [neighbors EXCEPT ![c] = nb]
                               /\ AddRemotes(c, S, objects)

\* The process of x ends and leaves `file`, where neighbors.txt should hold S.
LeavesFile(x, file, S) ==
    neighbors' = [neighbors EXCEPT ![x] = [all |-> {}, file |-> file,
                                           intact |-> neighbors[x].intact /\ file = S]]

\* It ends while neighbors.txt is not written, or not forced to the disk:
\* open() truncates it, the lines are written through a buffer in the order of
\* the addresses, and there is no fsync().
LeavesPart(x, S) ==
    \E part \in {{y \in S : y < z} : z \in S} \cup {S} : LeavesFile(x, part, S)

-----------------------------------------------------------------------------
(* The processes.                                                          *)

\* init(): read_neighbors(), then the explicit neighbors are added.
Start(c) ==
    LET read == [neighbors[c] EXCEPT !.all = neighbors[c].file]
    IN  /\ ~running[c]
        /\ starts < MaxStarts
        /\ running' = [running EXCEPT ![c] = TRUE]
        /\ starts' = starts + 1
        /\ \E nb \in Added(c, read, Explicit[c]) : neighbors' = [neighbors EXCEPT ![c] = nb]
        /\ AddRemotes(c, read.all \cup Explicit[c], object[c])
        /\ UNCHANGED <<smooth, accepted, replies, registered, notices>>

\* init() is killed while it saves the explicit neighbors.
StartCut(c) ==
    /\ FaultAllowed
    /\ ~running[c]
    /\ starts < MaxStarts
    /\ ~(Explicit[c] \subseteq neighbors[c].file)
    /\ starts' = starts + 1
    /\ LeavesPart(c, neighbors[c].file \cup Explicit[c])
    /\ UNCHANGED <<running, smooth, allIps, object, accepted, replies, registered, notices>>

\* The process of x ends.  Before that it sends `last` on the links; then the
\* system closes its sockets, or does not if the computer vanishes.
Ends(x, last, fin) ==
    LET end == IF fin THEN <<EOF>> ELSE <<>>
        FromInitiator(d, conns) ==
            [i \in DOMAIN conns |->
                IF conns[i].open
                THEN [conns[i] EXCEPT !.in = @ \o (IF d < x THEN last ELSE <<>>) \o end,
                                      !.open = FALSE]
                ELSE conns[i]]
        FromAcceptor(c) ==
            LET open == {i \in DOMAIN accepted[x][c] : accepted[x][c][i].open}
            IN  IF open = {} THEN <<>>
                ELSE (IF \E i \in open : accepted[x][c][i].remote THEN last ELSE <<>>) \o end
    IN  /\ running[x]
        /\ running' = [running EXCEPT ![x] = FALSE]
        /\ allIps' = [allIps EXCEPT ![x] = {}]
        /\ object' = [object EXCEPT ![x] = [d \in Computers |-> "none"]]
        /\ accepted' = [d \in Computers |-> [c \in Computers |->
                           IF d = x THEN <<>>
                           ELSE IF c = x THEN FromInitiator(d, accepted[d][c])
                           ELSE accepted[d][c]]]
        /\ replies' = [c \in Computers |-> [d \in Computers |->
                          IF c = x THEN <<>>
                          ELSE IF d = x THEN replies[c][d] \o FromAcceptor(c)
                          ELSE replies[c][d]]]
        /\ registered' = [registered EXCEPT ![x] = FALSE]
        /\ UNCHANGED <<starts, notices>>

\* shutdown(), on a STOP: the other side of every link gets a DISCONNECT.
Stop(x) == /\ x \in MayStop /\ FaultAllowed
           /\ Ends(x, <<Message("DISCONNECT")>>, TRUE)
           /\ LeavesFile(x, neighbors[x].file, neighbors[x].file)
           /\ smooth' = FALSE

\* The process is killed, between two messages.
Crash(x) == /\ Ends(x, <<>>, TRUE)
            /\ LeavesFile(x, neighbors[x].file, neighbors[x].file)
            /\ UNCHANGED smooth

\* The computer loses its power.
Vanish(x) == /\ x \in MayVanish /\ FaultAllowed
             /\ Ends(x, <<>>, FALSE)
             /\ LeavesPart(x, neighbors[x].all)
             /\ smooth' = FALSE

\* The system finds out that the other side is gone.
Detect(c, d) ==
    \/ /\ \E i \in DOMAIN accepted[d][c] :
             /\ ~accepted[d][c][i].open
             /\ accepted[d][c][i].in = <<>>
             /\ accepted' = [accepted EXCEPT ![d][c][i].in = <<EOF>>]
       /\ UNCHANGED <<running, starts, smooth, neighbors, allIps, object, replies, registered, notices>>
    \/ /\ Up(c, d)
       /\ replies[c][d] = <<>>
       /\ \A i \in DOMAIN accepted[d][c] : ~accepted[d][c][i].open
       /\ replies' = [replies EXCEPT ![c][d] = <<EOF>>]
       /\ UNCHANGED <<running, starts, smooth, neighbors, allIps, object, accepted, registered, notices>>

\* process_timeout(), the thread it starts, thread_done(), process_accept() on
\* the other side, and process_connected(): CONNECT on a remote connection,
\* GOSSIP on the other ones.  An attempt that fails leaves the timer enabled.
Connect(c, d) ==
    /\ running[d]
    /\ object[c][d] = "waiting"
    /\ Len(accepted[d][c]) < MaxOpen
    /\ object' = [object EXCEPT ![c][d] = "connected"]
    /\ replies' = [replies EXCEPT ![c][d] = <<>>]
    /\ accepted' = [accepted EXCEPT ![d][c] = Append(@,
                       NewConnection(object[d][c] = "none",
                                     Message(IF d < c THEN "CONNECT" ELSE "GOSSIP")))]
    /\ Notify(c, IF d < c THEN <<Status(ConnectionTo(d))>> ELSE <<>>)
    /\ UNCHANGED <<running, starts, smooth, neighbors, allIps, registered>>

-----------------------------------------------------------------------------
(* process_message() and process_hup() of the service_connections.         *)

\* The connections are visited in the order in which they were added, and what
\* came on an older one came first: connection i from c is the one d reads.
Reads(d, c, i, cmd) ==
    /\ i \in DOMAIN accepted[d][c]
    /\ \A j \in 1 .. i - 1 : accepted[d][c][j].in = <<>>
    /\ accepted[d][c][i].in # <<>>
    /\ Head(accepted[d][c][i].in).cmd = cmd

Without(conns, i) == SubSeq(conns, 1, i - 1) \o SubSeq(conns, i + 1, Len(conns))

\* The answer to connection i from c, which is lost if c closed its end.
Answer(d, c, i, m) ==
    replies' = [replies EXCEPT ![c][d] = IF accepted[d][c][i].open THEN Append(@, m) ELSE @]

\* get_connections().size(): the signal, the two listeners, the UDP server and
\* the timer, the local service, the accepted and the permanent connections,
\* and the messengers of the latter.
ConnectionCount(d) ==
    5 + (IF registered[d] THEN 1 ELSE 0)
      + Cardinality({p \in Computers \X (1 .. MaxOpen) : p[2] \in DOMAIN accepted[d][p[1]]})
      + Cardinality({c \in Computers : object[d][c] # "none"})
      + Cardinality({c \in Computers : Up(d, c)})

\* A slip: the name is not looked up.
NoConflict(d, c, i) == FALSE

Conflict(d, c, i) == \E j \in DOMAIN accepted[d][c] \ {i} : accepted[d][c][j].named

Refuses(d, c, i) == Conflict(d, c, i) \/ ConnectionCount(d) >= MaxConnections

\* CONNECT: refused if another connection has that server name, or if there are
\* too many connections; else c, and the neighbors it sent, become neighbors.
\* (gossip_received() is called with an address and a port, and f_gossip_ips is
\* indexed by addresses without a port: no gossip is ended here.)
ProcessConnect(d, c, i) ==
    LET a        == accepted[d][c][i]
        conflict == Conflict(d, c, i)
        refuse   == Refuses(d, c, i)
    IN  /\ Reads(d, c, i, "CONNECT")
        /\ accepted' = [accepted EXCEPT ![d][c][i] =
                           [a EXCEPT !.in = Tail(a.in), !.named = ~conflict, !.remote = ~refuse]]
        /\ IF refuse THEN UNCHANGED <<neighbors, allIps, object>>
                     ELSE AddNeighbors(d, Explicit[c] \cup {c}, object[d])
        /\ Answer(d, c, i, Message(IF refuse THEN "REFUSE" ELSE "ACCEPT"))
        /\ Notify(d, <<Status(ConnectionFrom(c))>>)
        /\ UNCHANGED <<running, starts, smooth, registered>>

\* GOSSIP: c exists and expects that we connect to it.
ProcessGossip(d, c, i) ==
    /\ Reads(d, c, i, "GOSSIP")
    /\ accepted' = [accepted EXCEPT ![d][c][i].in = Tail(@)]
    /\ AddNeighbors(d, {c}, object[d])
    /\ Answer(d, c, i, Message("RECEIVED"))
    /\ UNCHANGED <<running, starts, smooth, registered, notices>>

\* DISCONNECT on a connection that c opened: it is removed.
ProcessDisconnect(d, c, i) ==
    LET remote == accepted[d][c][i].remote
    IN  /\ Reads(d, c, i, "DISCONNECT")
        /\ accepted' = IF remote THEN [accepted EXCEPT ![d][c] = Without(@, i)]
                                 ELSE [accepted EXCEPT ![d][c][i].in = Tail(@)]
        /\ Notify(d, (IF remote THEN <<Gone("DISCONNECTED", c)>> ELSE <<>>)
                     \o <<Status(ConnectionFrom(c))>>)
        /\ UNCHANGED <<running, starts, smooth, neighbors, allIps, object, replies, registered>>

\* process_hup(): a connection with a server name is announced as lost.
ProcessHup(d, c, i) ==
    /\ Reads(d, c, i, "EOF")
    /\ accepted' = [accepted EXCEPT ![d][c] = Without(@, i)]
    /\ Notify(d, (IF accepted[d][c][i].named THEN <<Gone("HANGUP", c)>> ELSE <<>>)
                 \o <<Status(ConnectionFrom(c))>>)
    /\ UNCHANGED <<running, starts, smooth, neighbors, allIps, object, replies, registered>>

-----------------------------------------------------------------------------
(* process_message() and process_hup() of the permanent connections.       *)

Hears(c, d, cmd) == /\ Up(c, d)
                    /\ replies[c][d] # <<>>
                    /\ Head(replies[c][d]).cmd = cmd

\* ACCEPT: the link is up, and the neighbors of d become neighbors.
ProcessAccept(c, d) ==
    /\ Hears(c, d, "ACCEPT")
    /\ replies' = [replies EXCEPT ![c][d] = Tail(@)]
    /\ AddNeighbors(c, Explicit[d], [object[c] EXCEPT ![d] = "accepted"])
    /\ UNCHANGED <<running, starts, smooth, accepted, registered, notices>>

\* disconnect(): the messenger goes, and nobody enables the timer, unless the
\* poll() that announced the message announced the end of the connection too:
\* then process_hup() follows.  too_busy() and shutting_down() are called with
\* get_client_addr(), which is the address of our own end, or empty once
\* disconnected: they find no such connection and do nothing.
Disconnected(c, d) ==
    /\ \E next \in {"idle"} \cup IF Tail(replies[c][d]) = <<EOF>> THEN {"waiting"} ELSE {} :
          object' = [object EXCEPT ![c][d] = next]
    /\ replies' = [replies EXCEPT ![c][d] = <<>>]
    /\ accepted' = [accepted EXCEPT ![d][c] = Closed(@)]

\* REFUSE
ProcessRefuse(c, d) ==
    /\ Hears(c, d, "REFUSE")
    /\ Disconnected(c, d)
    /\ UNCHANGED <<running, starts, smooth, neighbors, allIps, registered, notices>>

\* DISCONNECT on a connection that we opened.
ProcessRemoteDisconnect(c, d) ==
    /\ Hears(c, d, "DISCONNECT")
    /\ Disconnected(c, d)
    /\ Notify(c, <<Gone("DISCONNECTED", d), Status(ConnectionTo(d))>>)
    /\ UNCHANGED <<running, starts, smooth, neighbors, allIps, registered>>

\* A slip: the timer stays disabled.
AfterHupIdle == "idle"
AfterHup     == "waiting"

\* process_hup() of both kinds: the timer is enabled; nobody is told.
ProcessRemoteHup(c, d) ==
    /\ Hears(c, d, "EOF")
    /\ object' = [object EXCEPT ![c][d] = AfterHup]
    /\ replies' = [replies EXCEPT ![c][d] = <<>>]
    /\ accepted' = [accepted EXCEPT ![d][c] = Closed(@)]
    /\ UNCHANGED <<running, starts, smooth, neighbors, allIps, registered, notices>>

\* RECEIVED, on a gossip connection: gossip_received() removes it.
ProcessReceived(c, d) ==
    /\ Hears(c, d, "RECEIVED")
    /\ object' = [object EXCEPT ![c][d] = "none"]
    /\ replies' = [replies EXCEPT ![c][d] = <<>>]
    /\ accepted' = [accepted EXCEPT ![d][c] = Closed(@)]
    /\ UNCHANGED <<running, starts, smooth, neighbors, allIps, registered, notices>>

-----------------------------------------------------------------------------

\* What the messages that x may read next make it add to its neighbors.
Additions(x) ==
    {Explicit[c] \cup {c} : c \in {y \in Computers :
                \E i \in 1 .. MaxOpen : Reads(x, y, i, "CONNECT") /\ ~Refuses(x, y, i)}}
        \cup {{c} : c \in {y \in Computers : \E i \in 1 .. MaxOpen : Reads(x, y, i, "GOSSIP")}}
        \cup {Explicit[d] : d \in {y \in Computers : Hears(x, y, "ACCEPT")}}

\* The process is killed in save_neighbors(): nothing of the message is answered.
CrashInSave(x) ==
    /\ FaultAllowed
    /\ \E S \in Additions(x) : /\ ~(S \subseteq neighbors[x].all)
                              /\ LeavesPart(x, neighbors[x].all \cup S)
    /\ Ends(x, <<>>, TRUE)
    /\ UNCHANGED smooth

\* What the event loops of the running daemons do, and what happens to them.
ServiceStep(d, c, i) ==
    \/ ProcessConnect(d, c, i)
    \/ ProcessGossip(d, c, i)
    \/ ProcessDisconnect(d, c, i)
    \/ ProcessHup(d, c, i)

PermanentStep(c, d) ==
    \/ Connect(c, d)
    \/ ProcessAccept(c, d)
    \/ ProcessRefuse(c, d)
    \/ ProcessRemoteDisconnect(c, d)
    \/ ProcessRemoteHup(c, d)
    \/ ProcessReceived(c, d)

LinkNext ==
    \/ \E c, d \in Computers : \/ PermanentStep(c, d)
                               \/ \E i \in 1 .. MaxOpen : ServiceStep(d, c, i)
                               \/ Detect(c, d)
    \/ \E c \in Computers : Start(c) \/ StartCut(c) \/ Stop(c) \/ Crash(c) \/ CrashInSave(c) \/ Vanish(c)

=============================================================================
