--------------------------- MODULE MessageRouting ---------------------------
(***************************************************************************)
(* How the snapcommunicators of a cluster pass the messages of their local *)
(* services on: process_message() for the messages that are not for        *)
(* snapcommunicator itself, broadcast_message(), and the cache of the      *)
(* messages for a service that is expected and not there (REGISTER,        *)
(* UNREGISTER).                                                            *)
(*                                                                         *)
(* The links are up (RemoteConnections is about them); a message that was  *)
(* sent on a link is read any time later, in the order of its link.  A     *)
(* message has no "cache" and no "transmission_report" parameter.          *)
(***************************************************************************)
EXTENDS Naturals, Sequences, FiniteSets

CONSTANTS
    Computers,    \* the computers, each with its snapcommunicator
    Link,         \* Link[c]: the computers c has a link with
    Site,         \* Site[c]: its local network; a link inside of one has
                  \* addresses of type PRIVATE, the other ones PUBLIC
    Services,     \* the names of the local services
    Hosts,        \* Hosts[c]: the services that may run on c
    Expected,     \* Expected[c]: f_local_services_list, those that should
    Inputs,       \* what the local services send
    Addresses,    \* the addresses, as strings
    Address,      \* Address[c][y]: the address of y on the connection c has with it
    MyAddress,    \* MyAddress[c]: f_my_address, as broadcast_message() writes it
    Lifetime,     \* the 10 seconds of broadcast_timeout
    Ttl,          \* the 60 seconds of the cache
    MaxHops,      \* 5
    MaxMessages,  \* bound: the messages that are sent
    MaxTime       \* bound: the clock

Wide     == {"*", "?", "."}
Message  == [n : 1 .. MaxMessages, hops : Nat, informed : SUBSET Addresses]
Request  == [origin : Computers, service : Services \cup Wide, server : Computers \cup {"*"}]

\* No computer has a link with itself: add_remote_communicator() leaves its own
\* address out.
ASSUME LinkAssumption     == /\ Link \in [Computers -> SUBSET Computers]
                             /\ \A c \in Computers : c \notin Link[c]
\* No two computers have the same address for a third one (they are not behind one
\* router that hides them).
ASSUME AddressAssumption  == /\ Address \in [Computers -> [Computers -> Addresses]]
                             /\ MyAddress \in [Computers -> Addresses]
                             /\ \A c \in Computers : \A x, y \in Link[c] :
                                   Address[c][x] = Address[c][y] => x = y
ASSUME HostsAssumption    == Hosts \in [Computers -> SUBSET Services]
ASSUME ExpectedAssumption == Expected \in [Computers -> SUBSET Services]
ASSUME InputsAssumption   == Inputs \subseteq Request
ASSUME NumbersAssumption  == /\ Lifetime \in Nat /\ Ttl \in Nat /\ MaxHops \in Nat \ {0}
                             /\ MaxMessages \in Nat /\ MaxTime \in Nat
\* The name of a computer and of a service is not one of the wildcards.
ASSUME NamesAssumption    == Computers \cap Wide = {} /\ Services \cap Wide = {}

VARIABLES
    now,         \* time()
    registered,  \* registered[c]: the services that sent REGISTER
    understood,  \* those of them that also sent their COMMANDS
    queue,       \* queue[x][c]: what x sent to c and c has not read
    received,    \* received[c]: f_received_broadcast_messages
    sequence,    \* g_broadcast_sequence
    cache,       \* cache[c]: f_local_message_cache
    sent,        \* history: what the services sent, with the broadcast_msgid
                 \* and the broadcast_timeout that were given to it
    listeners,   \* history: the services that understood message n when it was
                 \* sent and still do
    delivered    \* history: the messages each service got

vars == <<now, registered, understood, queue, received, sequence, cache, sent, listeners, delivered>>

Sent == [origin : Computers, service : Services \cup Wide, server : Computers \cup {"*"},
         msgid : Computers \X Nat, timeout : Nat]

Init ==
    /\ now = 0
    /\ registered = [c \in Computers |-> {}]
    /\ understood = [c \in Computers |-> {}]
    /\ queue = [x \in Computers |-> [c \in Computers |-> <<>>]]
    /\ received = [c \in Computers |-> {}]
    /\ sequence = [c \in Computers |-> 0]
    /\ cache = [c \in Computers |-> <<>>]
    /\ sent = <<>>
    /\ listeners = [n \in 1 .. MaxMessages |-> {}]
    /\ delivered = [c \in Computers |-> [s \in Services |-> <<>>]]

-----------------------------------------------------------------------------
(* broadcast_message()                                                     *)

\* A message is too old when `timeout < now`.
StillValid(timeout) == now <= timeout

\* A slip: a received message is forgotten in its last second already.
RememberedStrict(timeout) == now < timeout

\* The entries of f_received_broadcast_messages that the loop leaves there.
Remembered(timeout) == now <= timeout

\* What is added to broadcast_informed_neighbors for ourselves: f_my_address, which
\* may not be the address that the others have for us (a private one, and theirs
\* public).  With IPv6 it never is: here the default arguments of
\* get_ipv4or6_string() put brackets around it, and what is looked up has none.
OwnAddress(c) == {MyAddress[c]}

\* The connections whose address is not in the list.
Uninformed(c, m) == {y \in Link[c] : Address[c][y] \notin m.informed}

\* A slip: the last hop is one too early.
MayHopShort(m) == m.hops + 1 < MaxHops

MayHop(m) == m.hops < MaxHops

\* A slip: the type of the address does not matter.
AnyNetwork(c, y) == TRUE

\* NETWORK_TYPE_PRIVATE
PrivateNetwork(c, y) == Site[y] = Site[c]

\* The computers that get m from c: those in the list of process_message(), or
\* by the service "*", "?" or "."; never one that is informed already.
Targets(c, m, service, accepting) ==
    IF accepting # {} THEN accepting \cap Uninformed(c, m)
    ELSE {y \in Uninformed(c, m) :
             /\ MayHop(m)
             /\ service = "*" \/ (service = "?" /\ PrivateNetwork(c, y))}

\* The message is added to f_received_broadcast_messages, from which those that
\* timed out are removed, unless it is one of our own services' (which has no
\* broadcast_msgid yet).
Record(c, m) ==
    received' = IF m.hops = 0 THEN received
                ELSE [received EXCEPT ![c] =
                         {r \in @ : Remembered(r.timeout)}
                            \cup {[msgid |-> sent[m.n].msgid, timeout |-> sent[m.n].timeout]}]

\* The local services get m if they understand it and no list was given; then it
\* goes to the targets, with them and ourselves as informed neighbors.
broadcast_message(c, m, service, accepting, queues) ==
    LET targets == Targets(c, m, service, accepting)
        copy    == [n |-> m.n, hops |-> m.hops + 1,
                    informed |-> m.informed \cup {Address[c][y] : y \in targets} \cup OwnAddress(c)]
    IN  /\ Record(c, m)
        /\ delivered' = [delivered EXCEPT ![c] = [s \in Services |->
                            IF accepting = {} /\ s \in understood[c] THEN Append(@[s], m.n) ELSE @[s]]]
        /\ sequence' = [sequence EXCEPT ![c] = IF targets = {} THEN @ ELSE @ + 1]
        /\ queue' = [queues EXCEPT ![c] = [y \in Computers |->
                        IF y \in targets THEN Append(@[y], copy) ELSE @[y]]]
        /\ UNCHANGED cache

-----------------------------------------------------------------------------
(* process_message()                                                       *)

Local(c, req) == req.server \in {c, "*"}

\* The service is registered here.
ToService(c, m, req, queues) ==
    /\ Local(c, req) /\ req.service \in registered[c]
    /\ delivered' = [delivered EXCEPT ![c][req.service] = Append(@, m.n)]
    /\ queue' = queues
    /\ UNCHANGED <<received, sequence, cache>>

\* It is expected here, and not running.
ToCache(c, m, req, queues) ==
    /\ Local(c, req) /\ req.service \in Expected[c] \ registered[c]
    /\ cache' = [cache EXCEPT ![c] = Append(@, [n |-> m.n, service |-> req.service, timeout |-> now + Ttl])]
    /\ queue' = queues
    /\ UNCHANGED <<received, sequence, delivered>>

\* It should be here and is not known, or there is no link to its server.
Accepting(c, req) == IF req.server = "*" THEN Link[c] ELSE Link[c] \cap {req.server}

Dropped(c, req, queues) ==
    /\ req.service \in Services
    /\ ~(Local(c, req) /\ req.service \in registered[c] \cup Expected[c])
    /\ req.server = c \/ Accepting(c, req) = {}
    /\ queue' = queues
    /\ UNCHANGED <<received, sequence, cache, delivered>>

\* The computers that may know the service.
ToOthers(c, m, req, queues) ==
    /\ req.service \in Services
    /\ ~(Local(c, req) /\ req.service \in registered[c] \cup Expected[c])
    /\ req.server # c /\ Accepting(c, req) # {}
    /\ broadcast_message(c, m, req.service, Accepting(c, req), queues)

\* A broadcast that names a server is contradictory, and not sent.
Contradicts(req) == req.service \in {"*", "?"} /\ req.server # "*"

Refused(req, queues) ==
    /\ Contradicts(req)
    /\ queue' = queues
    /\ UNCHANGED <<received, sequence, cache, delivered>>

ToEveryone(c, m, req, queues) ==
    /\ req.service \in Wide
    /\ ~Contradicts(req)
    /\ broadcast_message(c, m, req.service, {}, queues)

process_message(c, m, req, queues) ==
    \/ ToService(c, m, req, queues)
    \/ ToCache(c, m, req, queues)
    \/ Dropped(c, req, queues)
    \/ ToOthers(c, m, req, queues)
    \/ Refused(req, queues)
    \/ ToEveryone(c, m, req, queues)

Understanding == {p \in Computers \X Services : p[2] \in understood[p[1]]}

\* A local service sends a message.
Send(req) ==
    LET c == req.origin
        m == [n |-> Len(sent) + 1, hops |-> 0, informed |-> {}]
    IN  /\ Len(sent) < MaxMessages
        /\ process_message(c, m, req, queue)
        /\ sent' = Append(sent, [origin |-> c, service |-> req.service, server |-> req.server,
                                 msgid |-> <<c, sequence[c] + 1>>, timeout |-> now + Lifetime])
        /\ listeners' = [listeners EXCEPT ![m.n] = Understanding]
        /\ UNCHANGED <<now, registered, understood>>

Seen(c, msgid) == \E r \in received[c] : r.msgid = msgid

\* c reads a message of x: it is ignored when it is too old or was received.
Receive(x, c) ==
    LET m    == Head(queue[x][c])
        rest == [queue EXCEPT ![x][c] = Tail(@)]
    IN  /\ queue[x][c] # <<>>
        /\ IF StillValid(sent[m.n].timeout) /\ ~Seen(c, sent[m.n].msgid)
           THEN process_message(c, m, sent[m.n], rest)
           ELSE /\ queue' = rest
                /\ UNCHANGED <<received, sequence, cache, delivered>>
        /\ UNCHANGED <<now, registered, understood, sent, listeners>>

-----------------------------------------------------------------------------
(* The local services.                                                     *)

\* SelectSeq, with the indices to select: the elements of a sequence that are
\* there, in their order.
Pick(entries, indices) ==
    LET picked[i \in 0 .. Len(entries)] ==
            IF i = 0 THEN <<>>
            ELSE IF i \in indices THEN Append(picked[i - 1], entries[i]) ELSE picked[i - 1]
    IN  picked[Len(entries)]

For(entries, s) == {i \in DOMAIN entries : entries[i].service = s}

Numbers(entries) == [i \in DOMAIN entries |-> entries[i].n]

\* A slip: nothing is erased.
LeftInCacheAll(entries, s) == entries

\* What the loop of REGISTER leaves in the cache.
LeftInCache(entries, s) == Pick(entries, DOMAIN entries \ For(entries, s))

\* A slip: the last message comes first.
ForwardedBackwards(entries, s) ==
    LET mine == Pick(entries, For(entries, s))
    IN  [i \in DOMAIN mine |-> mine[Len(mine) + 1 - i]]

\* What it sends to the service.
Forwarded(entries, s) == Pick(entries, For(entries, s))

\* A slip: an entry is removed in its last second already.
CacheValidStrict(timeout) == now < timeout

CacheValid(timeout) == now <= timeout

\* REGISTER: the entries that timed out are removed; then what waits for the
\* service is sent to it.
Register(c, s) ==
    LET valid == Pick(cache[c], {i \in DOMAIN cache[c] : CacheValid(cache[c][i].timeout)})
    IN  /\ s \in Hosts[c] \ registered[c]
        /\ registered' = [registered EXCEPT ![c] = @ \cup {s}]
        /\ cache' = [cache EXCEPT ![c] = LeftInCache(valid, s)]
        /\ delivered' = [delivered EXCEPT ![c][s] = @ \o Numbers(Forwarded(valid, s))]
        /\ UNCHANGED <<now, understood, queue, received, sequence, sent, listeners>>

\* COMMANDS, the answer of the service to HELP.
Commands(c, s) ==
    /\ s \in registered[c] \ understood[c]
    /\ understood' = [understood EXCEPT ![c] = @ \cup {s}]
    /\ UNCHANGED <<now, registered, queue, received, sequence, cache, sent, listeners, delivered>>

\* A slip: the commands of the service stay known.
ForgottenNot(c, s) == understood[c]

\* The connection goes, and with it the list of its commands.
Forgotten(c, s) == understood[c] \ {s}

\* UNREGISTER, or the connection of the service ends.
Unregister(c, s) ==
    /\ s \in registered[c]
    /\ registered' = [registered EXCEPT ![c] = @ \ {s}]
    /\ understood' = [understood EXCEPT ![c] = Forgotten(c, s)]
    /\ listeners' = [n \in 1 .. MaxMessages |-> listeners[n] \ {<<c, s>>}]
    /\ UNCHANGED <<now, queue, received, sequence, cache, sent, delivered>>

Tick == /\ now < MaxTime
        /\ now' = now + 1
        /\ UNCHANGED <<registered, understood, queue, received, sequence, cache, sent, listeners, delivered>>

Next ==
    \/ \E req \in Inputs : Send(req)
    \/ \E x, c \in Computers : Receive(x, c)
    \/ \E c \in Computers, s \in Services : Register(c, s) \/ Commands(c, s) \/ Unregister(c, s)
    \/ Tick

Spec == Init /\ [][Next]_vars

-----------------------------------------------------------------------------
(* Properties.                                                             *)

\* The types of the maps of snap_communicator_server and of the messages on the
\* links; only a registered service is one whose commands are known, and only a
\* computer with a link is sent something.
TypeOK ==
    /\ now \in Nat
    /\ registered \in [Computers -> SUBSET Services]
    /\ understood \in [Computers -> SUBSET Services]
    /\ queue \in [Computers -> [Computers -> Seq(Message)]]
    /\ received \in [Computers -> SUBSET [msgid : Computers \X Nat, timeout : Nat]]
    /\ sequence \in [Computers -> Nat]
    /\ cache \in [Computers -> Seq([n : 1 .. MaxMessages, service : Services, timeout : Nat])]
    /\ sent \in Seq(Sent)
    /\ Len(sent) <= MaxMessages
    /\ listeners \in [1 .. MaxMessages -> SUBSET (Computers \X Services)]
    /\ delivered \in [Computers -> [Services -> Seq(1 .. MaxMessages)]]
    /\ \A c \in Computers : understood[c] \subseteq registered[c]
    /\ \A x, c \in Computers : queue[x][c] # <<>> => c \in Link[x]

IsBroadcast(n) == sent[n].service \in Wide

Quiet == \A x, c \in Computers : queue[x][c] = <<>>

\* The address that c writes for itself is the one that the others have for it.
Recognised(c) == \A y \in Computers : c \in Link[y] => Address[y][c] = MyAddress[c]

\* broadcast_message(): whatever way and however often it arrives, a service gets
\* a broadcast once; the copies that come after it was removed from
\* f_received_broadcast_messages are too old.  The exception are the services of
\* the computer that sends it, which does not record it: known to others under
\* another address it gets the message back, and they get it twice, never more.
AtMostOnce ==
    \A c \in Computers, s \in Services :
        \A i, j \in DOMAIN delivered[c][s] :
            LET n == delivered[c][s][i]
            IN  IsBroadcast(n) /\ delivered[c][s][j] = n /\ i # j
                    => /\ sent[n].origin = c /\ ~Recognised(c)
                       /\ \A k \in DOMAIN delivered[c][s] : delivered[c][s][k] = n => k \in {i, j}

\* The computers a broadcast is meant for: all of them ("*"), those of the
\* local network ("?"), or the one it comes from (".").
Scope(n) == {c \in Computers : \/ sent[n].service = "*"
                               \/ sent[n].service = "?" /\ Site[c] = Site[sent[n].origin]
                               \/ c = sent[n].origin}

Got(c, s, n) == \E i \in DOMAIN delivered[c][s] : delivered[c][s][i] = n

\* broadcast_message(): a broadcast that is not late was delivered, once nothing
\* is on its way any more, to all the services on the computers it is meant for,
\* although no computer sends it to one that another one named as informed.
EveryoneTold ==
    Quiet => \A n \in DOMAIN sent :
                 IsBroadcast(n) /\ sent[n].server = "*" /\ now <= sent[n].timeout
                    => \A p \in listeners[n] : p[1] \in Scope(n) => Got(p[1], p[2], n)

\* broadcast_message(): a broadcast to "?" does not leave its local network, and
\* one to "." not its computer, along any path.
ScopeIsKept ==
    \A c \in Computers, s \in Services : \A i \in DOMAIN delivered[c][s] :
        IsBroadcast(delivered[c][s][i]) => c \in Scope(delivered[c][s][i])

\* process_message() and REGISTER: what one computer sends to a service of another
\* one, which comes and goes, arrives in the order in which it was sent, and not
\* twice, whether it waited in the cache or not.
ArrivesInOrder ==
    \A c \in Computers, s \in Services :
        \A i, j \in DOMAIN delivered[c][s] :
            LET a == sent[delivered[c][s][i]]
                b == sent[delivered[c][s][j]]
            IN  i < j /\ a.server = c /\ b.server = c /\ a.origin = b.origin
                    => delivered[c][s][i] < delivered[c][s][j]

\* REGISTER: nothing waits in the cache for a service that is there.
NothingForgotten ==
    \A c \in Computers : \A i \in DOMAIN cache[c] : cache[c][i].service \notin registered[c]

\* process_message(): a message for a service that is expected on its computer is
\* not lost while that one is not running, for as long as the cache keeps it and a
\* message on a link is not too old.  (With the 10 seconds of broadcast_timeout and
\* the 60 of the cache these are the first 10 seconds.)
ExpectedIsKept ==
    Quiet => \A n \in DOMAIN sent :
        LET c == sent[n].server
            s == sent[n].service
        IN  /\ c \in Computers /\ s \in Services
            /\ c = sent[n].origin \/ c \in Link[sent[n].origin]
            /\ s \in Expected[c]
            /\ now <= sent[n].timeout /\ now + Lifetime <= sent[n].timeout + Ttl
            => Got(c, s, n) \/ \E i \in DOMAIN cache[c] : cache[c][i].n = n

=============================================================================
