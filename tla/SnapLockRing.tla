---------------------------- MODULE SnapLockRing ----------------------------
(***************************************************************************)
(* The ring of snaplock daemons on top of the snapcommunicator links:      *)
(* f_computers, the computers that a snaplock counts when it computes      *)
(* quorum().  A snaplock that is ready broadcasts LOCKREADY; one that      *)
(* hears of a new computer answers with its own LOCKREADY; HANGUP and      *)
(* DISCONNECTED remove a computer.  SnapLock takes a complete ring as its  *)
(* initial state: here is when the ring becomes complete.                  *)
(***************************************************************************)
EXTENDS RemoteConnections

CONSTANTS
    LinksFirst,     \* a snaplock is started when the links are up
    MaxLockStarts   \* bound: how often one snaplock is started

VARIABLES
    lockd,       \* whether the snaplock process of each computer runs
    lockStarts,  \* how often it was started
    computers    \* f_computers

ringVars == <<lockd, lockStarts, computers>>
vars     == <<linkVars, registered, notices, ringVars>>

RingInit == /\ Init
            /\ lockd = [c \in Computers |-> FALSE]
            /\ lockStarts = [c \in Computers |-> 0]
            /\ computers = [c \in Computers |-> {}]

-----------------------------------------------------------------------------
(* broadcast_message() of a LOCKREADY (service "*").                       *)

\* LOCKREADY of `who`, with the computers that broadcast_informed_neighbors
\* names.  (With a handful of computers neither the hops nor the time of a
\* message run out, and no message comes twice.)
LockReady(who, informed) == [cmd |-> "LOCKREADY", who |-> who, informed |-> informed]

\* x has one or more connections for y; the message goes to the first of them
\* in f_connections, connected or not, since y counts as informed after it.
ViaService(x, y) == /\ accepted[x][y] # <<>>
                    /\ x < y \/ object[x][y] = "none" \/ accepted[x][y][1].first
ViaObject(x, y)  == y < x /\ object[x][y] # "none" /\ ~ViaService(x, y)

\* What x adds to the connections, which are `conns` and `answers` otherwise,
\* when it passes the LOCKREADY of `who` on.  (A computer has one address here,
\* its my_address: the list of informed neighbors is a set of computers.)
Broadcast(x, who, informed, conns, answers) ==
    LET targets == {y \in Computers \ (informed \cup {x}) : ViaService(x, y) \/ ViaObject(x, y)}
        m       == LockReady(who, informed \cup targets \cup {x})
    IN  /\ accepted' = [d \in Computers |-> [c \in Computers |->
                           IF c = x /\ d \in targets /\ ViaObject(x, d)
                           THEN Sent(conns[d][c], m) ELSE conns[d][c]]]
        /\ replies' = [c \in Computers |-> [d \in Computers |->
                          IF d = x /\ c \in targets /\ ViaService(x, c) /\ accepted[x][c][1].open
                          THEN Append(answers[c][d], m) ELSE answers[c][d]]]

\* A LOCKREADY from computer c, on a connection that c opened.
ForwardUp(d, c, i) ==
    LET m == Head(accepted[d][c][i].in)
    IN  /\ Reads(d, c, i, "LOCKREADY")
        /\ Broadcast(d, m.who, m.informed, [accepted EXCEPT ![d][c][i].in = Tail(@)], replies)
        /\ Notify(d, <<Gone("LOCKREADY", m.who)>>)
        /\ UNCHANGED <<running, starts, smooth, neighbors, allIps, object, registered, ringVars>>

\* A LOCKREADY from computer d, on a connection that we opened; a gossip
\* connection ignores everything but RECEIVED.
ForwardDown(c, d) ==
    LET m    == Head(replies[c][d])
        rest == [replies EXCEPT ![c][d] = Tail(@)]
    IN  /\ Hears(c, d, "LOCKREADY")
        /\ IF d < c
           THEN /\ Broadcast(c, m.who, m.informed, accepted, rest)
                /\ Notify(c, <<Gone("LOCKREADY", m.who)>>)
           ELSE /\ replies' = rest
                /\ UNCHANGED <<accepted, notices>>
        /\ UNCHANGED <<running, starts, smooth, neighbors, allIps, object, registered, ringVars>>

-----------------------------------------------------------------------------
(* The snaplock process.                                                   *)

\* The local service as well as the links get our LOCKREADY, unless we are not
\* registered (any more): send_message() then drops it.
SendLockReady(c, rest) ==
    IF registered'[c]
    THEN /\ notices' = [notices EXCEPT ![c] = Append(rest, Gone("LOCKREADY", c))]
         /\ Broadcast(c, c, {}, accepted, replies)
    ELSE /\ notices' = [notices EXCEPT ![c] = rest]
         /\ UNCHANGED <<accepted, replies>>

\* Exactly the link, and no other connection, between c and every other one.
Settled(c) ==
    \A d \in Computers \ {c} :
        LET lower == IF c < d THEN c ELSE d
            upper == IF c < d THEN d ELSE c
        IN  Linked(upper, lower) /\ Len(accepted[lower][upper]) = 1 /\ accepted[upper][lower] = <<>>

\* The process is started, or lost its snapcommunicator; its messenger connects:
\* REGISTER, then HELP, COMMANDS and send_lockready().  After a reconnection
\* f_computers is still what it was.
Register(c) ==
    /\ lockd[c] \/ lockStarts[c] < MaxLockStarts
    /\ running[c]
    /\ ~registered[c]
    /\ LinksFirst => Settled(c)
    /\ lockd' = [lockd EXCEPT ![c] = TRUE]
    /\ lockStarts' = [lockStarts EXCEPT ![c] = IF lockd[c] THEN @ ELSE @ + 1]
    /\ registered' = [registered EXCEPT ![c] = TRUE]
    /\ SendLockReady(c, notices[c])
    /\ UNCHANGED <<running, starts, smooth, neighbors, allIps, object, computers>>

\* stop(), or the process dies; the other computers are not told.
LockStop(c) ==
    /\ lockd[c]
    /\ lockd' = [lockd EXCEPT ![c] = FALSE]
    /\ computers' = [computers EXCEPT ![c] = {}]
    /\ registered' = [registered EXCEPT ![c] = FALSE]
    /\ notices' = [notices EXCEPT ![c] = <<>>]
    /\ UNCHANGED <<linkVars, lockStarts>>

Gets(c, cmds) == lockd[c] /\ notices[c] # <<>> /\ Head(notices[c]).cmd \in cmds

\* Two slips: every LOCKREADY is answered, or none is.
AnswersAll(c, who)  == who # c
AnswersNone(c, who) == FALSE

\* The LOCKREADY of a computer that is not in f_computers yet is answered.
Answers(c, who) == who # c /\ who \notin computers[c]

\* lockready()
lockready(c) ==
    LET who == Head(notices[c]).who
    IN  /\ Gets(c, {"LOCKREADY"})
        /\ computers' = [computers EXCEPT ![c] = @ \cup {who}]
        /\ UNCHANGED registered
        /\ IF Answers(c, who)
           THEN SendLockReady(c, Tail(notices[c]))
           ELSE /\ notices' = [notices EXCEPT ![c] = Tail(@)]
                /\ UNCHANGED <<accepted, replies>>
        /\ UNCHANGED <<running, starts, smooth, neighbors, allIps, object, lockd, lockStarts>>

\* lockgone()
lockgone(c) ==
    /\ Gets(c, {"HANGUP", "DISCONNECTED"})
    /\ computers' = [computers EXCEPT ![c] = @ \ ({Head(notices[c]).who} \ {c})]
    /\ notices' = [notices EXCEPT ![c] = Tail(@)]
    /\ UNCHANGED <<linkVars, registered, lockd, lockStarts>>

\* interpret_status(): a new LOCKREADY if the connection has one of these two
\* names.
interpret_status(c) ==
    /\ Gets(c, {"STATUS"})
    /\ UNCHANGED registered
    /\ IF Head(notices[c]).service \in {<<"remote connection">>, <<"remote communicator connection">>}
       THEN SendLockReady(c, Tail(notices[c]))
       ELSE /\ notices' = [notices EXCEPT ![c] = Tail(@)]
            /\ UNCHANGED <<accepted, replies>>
    /\ UNCHANGED <<running, starts, smooth, neighbors, allIps, object, ringVars>>

LockStep(c) == lockready(c) \/ lockgone(c) \/ interpret_status(c)

RingNext ==
    \/ LinkNext /\ UNCHANGED ringVars
    \/ \E c, d \in Computers : \/ ForwardDown(c, d)
                               \/ \E i \in 1 .. MaxOpen : ForwardUp(d, c, i)
    \/ \E c \in Computers : Register(c) \/ LockStop(c) \/ LockStep(c)

RingSpec == RingInit /\ [][RingNext]_vars

\* The event loops go on: while there is something to read, or a timer of a
\* permanent connection that can connect, each snapcommunicator takes a step;
\* and each snaplock handles its messages.
LoopStep(c) ==
    \E d \in Computers :
        \/ PermanentStep(c, d) /\ UNCHANGED ringVars
        \/ ForwardDown(c, d)
        \/ \E i \in 1 .. MaxOpen : (ServiceStep(c, d, i) /\ UNCHANGED ringVars) \/ ForwardUp(c, d, i)

Fairness == \A c \in Computers : WF_vars(LoopStep(c)) /\ WF_vars(LockStep(c))

FairRingSpec == RingSpec /\ Fairness

-----------------------------------------------------------------------------
(* Properties.                                                             *)

MessageType == [cmd : {"CONNECT", "ACCEPT", "REFUSE", "GOSSIP", "RECEIVED", "DISCONNECT", "EOF"}]
                  \cup [cmd : {"LOCKREADY"}, who : Computers, informed : SUBSET Computers]
NoticeType  == [cmd : {"LOCKREADY", "HANGUP", "DISCONNECTED"}, who : Computers]
                  \cup [cmd : {"STATUS"}, service : {ConnectionFrom(c) : c \in Computers} \cup {ConnectionTo(c) : c \in Computers}]
NeighborsType == [all : SUBSET Computers, file : SUBSET Computers, intact : BOOLEAN]
ServiceType == [in : Seq(MessageType), named : BOOLEAN, remote : BOOLEAN, open : BOOLEAN, first : BOOLEAN]

\* The types of f_all_neighbors, f_all_ips, f_smaller_ips, f_gossip_ips, the
\* connections and f_computers; no snapcommunicator connects to itself, although
\* its own address is among the neighbors that others send to it.
TypeOK ==
    /\ running \in [Computers -> BOOLEAN]
    /\ starts \in Nat
    /\ smooth \in BOOLEAN
    /\ neighbors \in [Computers -> NeighborsType]
    /\ allIps \in [Computers -> SUBSET Computers]
    /\ object \in [Computers -> [Computers -> ObjectState]]
    /\ accepted \in [Computers -> [Computers -> Seq(ServiceType)]]
    /\ \A c \in Computers : object[c][c] = "none" /\ accepted[c][c] = <<>>
    /\ replies \in [Computers -> [Computers -> Seq(MessageType)]]
    /\ registered \in [Computers -> BOOLEAN]
    /\ notices \in [Computers -> Seq(NoticeType)]
    /\ lockd \in [Computers -> BOOLEAN]
    /\ lockStarts \in [Computers -> Nat]
    /\ computers \in [Computers -> SUBSET Computers]

\* Nothing is on its way: everything that was sent on the links, and to the
\* snaplock of each computer, was read.
Quiet == \A c, d \in Computers : /\ notices[c] = <<>>
                                 /\ replies[c][d] = <<>>
                                 /\ \A i \in DOMAIN accepted[c][d] : accepted[c][d][i].in = <<>>

\* process_message(), CONNECT: among the connections that a snapcommunicator
\* accepted at most one has the server name of a given computer, also when that
\* computer crashed, lost its power and connected again before the first
\* connection was found dead.
OneConnection ==
    \A d, c \in Computers :
        \A i, j \in DOMAIN accepted[d][c] :
            accepted[d][c][i].named /\ accepted[d][c][j].named => i = j

\* gossip_received(): the gossip to a computer with a larger address ends only
\* once that computer has us in its neighbors.txt, so that a crash of either
\* one cannot make it forget that it is the one to connect.  This holds as long as
\* no save of that computer failed, was cut by a crash or lost with the power;
\* one that was loses what earlier ones had saved.
GossipIsDurable ==
    \A c, d \in Computers :
        /\ running[c] /\ c < d /\ d \in allIps[c] /\ object[c][d] = "none"
        /\ neighbors[d].intact
        => c \in neighbors[d].file

\* lockready(): with no crash, no snaplock that was started twice, and the links up
\* before the first snaplock registers, the snaplocks that are registered all count
\* each other once every message was processed, in whatever order they registered
\* and read them.
RingComplete ==
    /\ Quiet /\ LinksFirst
    /\ starts = Cardinality(Computers)
    /\ \A x \in Computers : running[x] /\ lockStarts[x] <= 1
    => \A c, d \in Computers : registered[c] /\ registered[d] => d \in computers[c]

\* lockready(): the answers to LOCKREADY come to an end.
LockReadySettles == []<>Quiet

\* process_hup(), process_timeout(), the connection of snap_tcp_client_permanent_
\* message_connection_impl: whatever crashes, two running computers of which the
\* larger one knows the smaller one get linked (again), unless one was told to
\* STOP or lost its power.
Reconnects ==
    \A c \in Computers : \A d \in {x \in Computers : x < c} :
        (running[c] /\ running[d] /\ d \in allIps[c] /\ smooth)
            ~> (Linked(c, d) \/ ~running[c] \/ ~running[d] \/ ~smooth)

\* snapcommunicator.cpp, DISCONNECT: "in this case we are in charge of
\* attempting to reconnect until it works".
TriesUntilItWorks ==
    \A c \in Computers : \A d \in {x \in Computers : x < c} :
        (running[c] /\ running[d] /\ d \in allIps[c])
            ~> (Linked(c, d) \/ ~running[c] \/ ~running[d])

\* snaplock.cpp, interpret_status(): a new connection makes it send "a new
\* LOCKREADY message to make sure that all snaplock's are aware of us".
AwareOfUs ==
    Quiet => \A c, d \in Computers :
                 Linked(c, d) /\ registered[c] /\ registered[d]
                    => d \in computers[c] /\ c \in computers[d]

=============================================================================
