--------------------------- MODULE SnapLockProofs ---------------------------
(***************************************************************************)
(* What is proved of SnapLock for every set of computers and clients,      *)
(* every duration and timeout, and every bound:                            *)
(*   TypeCorrect            Spec => []TypeOK                               *)
(*   RequestsAlwaysMatch    Spec => []RequestsMatch                        *)
(*   OnlyLockedIsReadAlways Spec => []OnlyLockedIsRead                     *)
(***************************************************************************)
EXTENDS SnapLock, SnapLockTicketProofs, FiniteSetTheorems, SequenceTheorems

-----------------------------------------------------------------------------
(* Types.                                                                  *)

\* A majority is a number.
LEMMA QuorumType ==
    ASSUME TypeOK, NEW t \in Servers
    PROVE  quorum(t) \in Nat
<1>1. IsFiniteSet(computers[t])
  BY ServersAssumption, FS_Subset DEF TypeOK
<1>2. Cardinality(computers[t]) \in Nat
  BY <1>1, FS_CardinalityType
<1> QED
  BY <1>2 DEF quorum

\* The message a daemon processes, by its command.
LEMMA ReceivedType ==
    ASSUME TypeOK, NEW t \in Servers, NEW cmd, Receives(t, cmd)
    PROVE  LET m == Head(inbox[t])
           IN  /\ inbox[t] # <<>>
               /\ m \in Message
               /\ m.cmd = cmd
               /\ m.key \in Clients
               /\ cmd = "LOCK" => m.service \in 1 .. MaxLocks /\ m.timeout \in Nat
               /\ cmd = "LOCKENTERING" => /\ m.from \in Servers
                                          /\ m.service \in 1 .. MaxLocks
                                          /\ m.timeout \in Nat
               /\ cmd \in {"LOCKENTERED", "GETMAXTICKET", "LOCKEXITING"} => m.from \in Servers
               /\ cmd \in {"MAXTICKET", "ADDTICKET", "TICKETADDED", "DROPTICKET"}
                  => m.from \in Servers /\ m.id \in Nat
<1>1. inbox[t] \in Seq(Message) /\ inbox[t] # <<>>
  BY DEF TypeOK, Receives
<1>2. Head(inbox[t]) \in Message
  BY <1>1
<1>3. Head(inbox[t]).cmd = cmd
  BY DEF Receives
<1> QED
  BY <1>1, <1>2, <1>3
     DEF Message, DaemonMessage, ClientRequest, EnteringMessage, KeyMessage, TicketMessage

\* The network keeps its type whatever a daemon sends.
NetworkType == /\ inbox \in [Servers -> Seq(Message)]
               /\ link \in [Servers -> [Servers -> Seq(DaemonMessage)]]

LEMMA TailType ==
    ASSUME NEW S, NEW q \in Seq(S), q # <<>>
    PROVE  Tail(q) \in Seq(S)
OBVIOUS

LEMMA SendNothingType ==
    ASSUME NetworkType, NEW t \in Servers, inbox[t] # <<>>, SendNothing(t)
    PROVE  NetworkType'
<1>1. Tail(inbox[t]) \in Seq(Message)
  BY TailType DEF NetworkType
<1> QED
  BY <1>1 DEF NetworkType, SendNothing

LEMMA SendToType ==
    ASSUME NetworkType, NEW t \in Servers, NEW s \in Servers, inbox[t] # <<>>,
           NEW m \in DaemonMessage, SendTo(t, s, m)
    PROVE  NetworkType'
<1>1. Tail(inbox[t]) \in Seq(Message)
  BY TailType DEF NetworkType
<1>2. Append(Tail(inbox[t]), m) \in Seq(Message)
  BY <1>1 DEF Message
<1>3. Append(link[t][s], m) \in Seq(DaemonMessage)
  BY DEF NetworkType
<1>4. CASE s = t
  BY <1>2, <1>4 DEF NetworkType, SendTo
<1>5. CASE s # t
  <2>1. inbox' = [inbox EXCEPT ![t] = Tail(@)] /\ link' = [link EXCEPT ![t][s] = Append(@, m)]
    BY <1>5 DEF SendTo
  <2>2. inbox' \in [Servers -> Seq(Message)]
    BY <1>1, <2>1 DEF NetworkType
  <2>3. link[t] \in [Servers -> Seq(DaemonMessage)]
    BY DEF NetworkType
  <2>4. [link[t] EXCEPT ![s] = Append(@, m)] \in [Servers -> Seq(DaemonMessage)]
    BY <1>3, <2>3
  <2>5. link' \in [Servers -> [Servers -> Seq(DaemonMessage)]]
    BY <2>1, <2>4 DEF NetworkType
  <2> QED
    BY <2>2, <2>5 DEF NetworkType
<1> QED
  BY <1>4, <1>5

LEMMA BroadcastType ==
    ASSUME NetworkType, NEW t \in Servers, inbox[t] # <<>>,
           NEW m \in DaemonMessage, Broadcast(t, m)
    PROVE  NetworkType'
<1>1. Tail(inbox[t]) \in Seq(Message)
  BY TailType DEF NetworkType
<1>2. Append(Tail(inbox[t]), m) \in Seq(Message)
  BY <1>1 DEF Message
<1>3. \A s \in Servers : Append(link[t][s], m) \in Seq(DaemonMessage)
  BY DEF NetworkType
<1> QED
  BY <1>1, <1>2, <1>3 DEF NetworkType, Broadcast

\* What the clients are sent has the type of an answer.
LEMMA NotifyType ==
    ASSUME TypeOK, Registered, NEW s \in Servers, NEW old \in Node, NEW new \in Node
    PROVE  Notify(s, old, new) \in [Clients -> Seq(ToClient)]
<1> SUFFICES ASSUME NEW c \in Clients
             PROVE  Notify(s, old, new)[c] \in Seq(ToClient)
  BY DEF Notify
<1> DEFINE r == <<c, client[c].service>>
<1>1. toClient[c] \in Seq(ToClient)
  BY DEF TypeOK
<1>2. ASSUME Connected(c)
      PROVE  [cmd |-> "LOCKED", timeout_date |-> new.ticket[r].lock_timeout] \in ToClient
  <2>1. client[c].service \in 1 .. MaxLocks
    BY <1>2, MaxLocksAssumption DEF TypeOK, ClientState, Registered
  <2>2. r \in Requests
    BY <2>1 DEF Requests
  <2>3. new.ticket[r] \in Ticket
    BY <2>2 DEF Node
  <2> QED
    BY <2>3 DEF Ticket, ToClient
<1>3. \A x \in {"UNLOCKED", "LOCKFAILED"} : [cmd |-> x, timeout_date |-> 0] \in ToClient
  BY DEF ToClient
<1>4. Notify(s, old, new)[c] =
        IF ~Connected(c) \/ Home[c] # s
        THEN toClient[c]
        ELSE IF new.ticket[r].locked /\ ~old.ticket[r].locked
        THEN Append(toClient[c], [cmd |-> "LOCKED", timeout_date |-> new.ticket[r].lock_timeout])
        ELSE IF new.ticket[r].lock_failed /\ ~old.ticket[r].lock_failed
        THEN Append(toClient[c],
                    [cmd |-> IF old.ticket[r].locked THEN "UNLOCKED" ELSE "LOCKFAILED",
                     timeout_date |-> 0])
        ELSE toClient[c]
  BY DEF Notify
<1> HIDE DEF r
<1> QED
  BY <1>1, <1>2, <1>3, <1>4

\* TypeOK is inductive together with Registered, without which Notify could look
\* up the ticket of a service that does not exist.
TypeInv == TypeOK /\ Registered

LEMMA TypeInit == Init => TypeInv
<1> SUFFICES ASSUME Init PROVE TypeInv
  OBVIOUS
<1>1. node \in [Servers -> Node]
  BY EmptyNodeType DEF Init
<1>2. client \in [Clients -> ClientState]
  BY MaxLocksAssumption DEF Init, ClientState
<1> QED
  BY <1>1, <1>2 DEF Init, TypeInv, TypeOK, Registered, Connected

\* A step of client c that leaves it in a state of its type.
LEMMA ClientStepType ==
    ASSUME TypeInv, NEW c \in Clients, NEW new \in ClientState,
           client' = [client EXCEPT ![c] = new],
           new.state \in {"waiting", "locked"} => new.service # 0,
           inbox' \in [Servers -> Seq(Message)],
           toClient' \in [Clients -> Seq(ToClient)],
           UNCHANGED <<node, computers, alive, link, now>>
    PROVE  TypeInv'
<1>1. TypeOK'
  BY DEF TypeInv, TypeOK
<1>2. \A d \in Clients : client'[d] = IF d = c THEN new ELSE client[d]
  BY DEF TypeInv, TypeOK
<1>3. Registered'
  BY <1>2 DEF TypeInv, Registered, Connected
<1> QED
  BY <1>1, <1>3 DEF TypeInv

\* The clients' steps.
LEMMA ClientStepsType ==
    ASSUME TypeInv, NEW c \in Clients,
           ClientLock(c) \/ ClientStep(c) \/ ClientStop(c) \/ ClientDies(c)
    PROVE  TypeInv'
<1>0. /\ client[c] \in ClientState
      /\ Home[c] \in Servers
      /\ inbox[Home[c]] \in Seq(Message)
      /\ toClient[c] \in Seq(ToClient)
      /\ inbox \in [Servers -> Seq(Message)]
      /\ toClient \in [Clients -> Seq(ToClient)]
      /\ client \in [Clients -> ClientState]
      /\ now \in Nat
  BY HomeAssumption DEF TypeInv, TypeOK
<1>c. toClient' = [toClient EXCEPT ![c] = <<>>] => toClient' \in [Clients -> Seq(ToClient)]
  BY <1>0
<1>1. CASE ClientLock(c)
  <2> DEFINE service  == client[c].service + 1
             deadline == now + ObtentionTimeout[c]
             m        == [cmd |-> "LOCK", key |-> c, service |-> service, timeout |-> deadline]
             new      == [state |-> "waiting", service |-> service,
                          deadline |-> deadline, timeout_date |-> 0]
  <2>a. client[c].service \in 0 .. MaxLocks /\ client[c].service < MaxLocks
    BY <1>0, <1>1 DEF ClientLock, ClientState
  <2>b. ObtentionTimeout[c] \in Nat
    BY ObtentionAssumption
  <2>1. service \in 1 .. MaxLocks /\ deadline \in Nat
    BY <1>0, <2>a, <2>b, MaxLocksAssumption
  <2>3. /\ client' = [client EXCEPT ![c] = new]
        /\ inbox' = [inbox EXCEPT ![Home[c]] = Append(@, m)]
        /\ UNCHANGED <<node, computers, alive, link, toClient, now>>
    BY <1>1 DEF ClientLock
  <2> HIDE DEF service, deadline
  <2>2. m \in Message /\ new \in ClientState /\ new.service # 0
    BY <2>1, MaxLocksAssumption DEF Message, ClientRequest, ClientState
  <2> HIDE DEF m, new
  <2>4. Append(inbox[Home[c]], m) \in Seq(Message)
    BY <1>0, <2>2
  <2>5. inbox' \in [Servers -> Seq(Message)]
    BY <1>0, <2>3, <2>4
  <2> QED
    BY <1>0, <2>2, <2>3, <2>5, ClientStepType
<1>2. CASE ClientMessage(c)
  <2> DEFINE m == Head(toClient[c])
  <2>1. toClient[c] # <<>> /\ client[c].state = "waiting"
    BY <1>2 DEF ClientMessage, CanRead
  <2>2. m \in ToClient /\ Tail(toClient[c]) \in Seq(ToClient)
    BY <1>0, <2>1, TailType
  <2>3. m.cmd \in {"LOCKED", "LOCKFAILED", "UNLOCKED"} /\ m.timeout_date \in Nat
    BY <2>2 DEF ToClient
  <2>4. PICK st \in {"locked", "idle", "aborted"} :
            client' = [client EXCEPT ![c].state = st, ![c].timeout_date = m.timeout_date]
    BY <1>2, <2>3 DEF ClientMessage
  <2> DEFINE new == [client[c] EXCEPT !.state = st, !.timeout_date = m.timeout_date]
  <2>5. new \in ClientState /\ new.service = client[c].service
    BY <1>0, <2>3 DEF ClientState
  <2>6. client' = [client EXCEPT ![c] = new]
    BY <1>0, <2>4 DEF ClientState
  <2>7. client[c].service # 0
    BY <2>1 DEF TypeInv, Registered, Connected
  <2>8. toClient' = [toClient EXCEPT ![c] = IF m.cmd = "LOCKED" THEN Tail(@) ELSE <<>>]
    BY <1>2 DEF ClientMessage
  <2> HIDE DEF new, m
  <2>9. toClient' \in [Clients -> Seq(ToClient)]
    BY <1>0, <2>2, <2>8
  <2>10. UNCHANGED <<node, computers, alive, inbox, link, now>>
    BY <1>2 DEF ClientMessage
  <2> QED
    BY <1>0, <2>5, <2>6, <2>7, <2>9, <2>10, ClientStepType
<1>3. CASE ClientTimeout(c) \/ ClientStop(c)
  <2> DEFINE new == [client[c] EXCEPT !.state = "idle"]
  <2>1. new \in ClientState /\ new.state = "idle"
    BY <1>0 DEF ClientState
  <2>2. client' = [client EXCEPT ![c] = new]
    BY <1>0, <1>3 DEF ClientTimeout, ClientStop
  <2>3. /\ toClient' = [toClient EXCEPT ![c] = <<>>]
        /\ UNCHANGED <<node, computers, alive, inbox, link, now>>
    BY <1>3 DEF ClientTimeout, ClientStop
  <2> HIDE DEF new
  <2> QED
    BY <1>0, <1>c, <2>1, <2>2, <2>3, ClientStepType
<1>4. CASE ClientUnlock(c)
  <2> DEFINE new == [client[c] EXCEPT !.state = "idle", !.timeout_date = 0]
             m   == [cmd |-> "UNLOCK", key |-> c]
  <2>1. new \in ClientState /\ new.state = "idle" /\ m \in Message
    BY <1>0 DEF ClientState, Message, ClientRequest
  <2>2. client' = [client EXCEPT ![c] = new]
    BY <1>0, <1>4 DEF ClientUnlock
  <2>3. /\ toClient' = [toClient EXCEPT ![c] = <<>>]
        /\ inbox' = [inbox EXCEPT ![Home[c]] = Append(@, m)]
        /\ UNCHANGED <<node, computers, alive, link, now>>
    BY <1>4 DEF ClientUnlock
  <2> HIDE DEF new, m
  <2>4. Append(inbox[Home[c]], m) \in Seq(Message)
    BY <1>0, <2>1
  <2>5. inbox' \in [Servers -> Seq(Message)]
    BY <1>0, <2>3, <2>4
  <2> QED
    BY <1>0, <1>c, <2>1, <2>2, <2>3, <2>5, ClientStepType
<1>5. CASE ClientDies(c)
  <2> DEFINE new == [client[c] EXCEPT !.state = "dead", !.timeout_date = 0]
  <2>1. new \in ClientState /\ new.state = "dead"
    BY <1>0 DEF ClientState
  <2>2. client' = [client EXCEPT ![c] = new]
    BY <1>0, <1>5 DEF ClientDies
  <2>3. /\ toClient' = [toClient EXCEPT ![c] = <<>>]
        /\ UNCHANGED <<node, computers, alive, inbox, link, now>>
    BY <1>5 DEF ClientDies
  <2> HIDE DEF new
  <2> QED
    BY <1>0, <1>c, <2>1, <2>2, <2>3, ClientStepType
<1> QED
  BY <1>1, <1>2, <1>3, <1>4, <1>5 DEF ClientStep

\* What a daemon leaves alone when it processes a message.
LEMMA DaemonStepType ==
    ASSUME TypeInv, NetworkType', UNCHANGED <<computers, client, now>>,
           node' \in [Servers -> Node],
           alive' \in [Servers -> BOOLEAN],
           toClient' \in [Clients -> Seq(ToClient)]
    PROVE  TypeInv'
BY DEF TypeInv, TypeOK, NetworkType, Registered, Connected

\* Each daemon keeps its type whatever message it processes.
LEMMA HandleMessageType ==
    ASSUME TypeInv, NEW t \in Servers, HandleMessage(t) \/ OtherObject(t)
    PROVE  TypeInv'
<1> DEFINE m == Head(inbox[t])
<1>0. /\ TypeOK /\ Registered /\ NetworkType
      /\ node \in [Servers -> Node] /\ node[t] \in Node
      /\ alive \in [Servers -> BOOLEAN]
      /\ toClient \in [Clients -> Seq(ToClient)]
      /\ quorum(t) \in Nat
      /\ now \in Nat
  BY QuorumType DEF TypeInv, TypeOK, NetworkType
<1>a. \A nd \in Node : [node EXCEPT ![t] = nd] \in [Servers -> Node]
  BY <1>0
<1>b. \A old, new \in Node : Notify(t, old, new) \in [Clients -> Seq(ToClient)]
  BY <1>0, NotifyType
<1>c. /\ Cleanup(node[t], t, now) \in Node
      /\ \A nd \in Node : ActivateFirstLock(nd, t, now) \in Node
  BY <1>0, CleanupType, ActivateFirstLockType
<1>d. \A r \in Requests : \A tk \in Ticket :
          [node EXCEPT ![t].ticket[r] = tk] \in [Servers -> Node]
  BY <1>0 DEF Node
<1>e. \A r \in Requests : node[t].ticket[r] \in Ticket
  BY <1>0 DEF Node
<1>f. node[t].entering \in SUBSET Requests /\ node[t].tickets \in SUBSET (Nat \X Requests)
  BY <1>0 DEF Node
<1>1. CASE HandleLock(t)
  <2> DEFINE e == [cmd |-> "LOCKENTERING", from |-> t, key |-> m.key,
                   service |-> m.service, timeout |-> m.timeout]
             r == <<m.key, m.service>>
  <2>1. /\ inbox[t] # <<>> /\ m.key \in Clients
        /\ m.service \in 1 .. MaxLocks /\ m.timeout \in Nat
    BY <1>0, <1>1, ReceivedType DEF HandleLock
  <2>2. e \in DaemonMessage /\ r \in Requests
    BY <2>1 DEF DaemonMessage, EnteringMessage, Requests
  <2>3. Allocate(node[t], r, m.timeout) \in Node
    BY <1>0, <2>1, <2>2, AllocateType
  <2>4. /\ \/ SendNothing(t) /\ UNCHANGED node
           \/ Broadcast(t, e) /\ node' = [node EXCEPT ![t] = Allocate(@, r, m.timeout)]
        /\ UNCHANGED <<computers, alive, client, toClient, now>>
    BY <1>1 DEF HandleLock
  <2> HIDE DEF m, e, r
  <2>5. NetworkType' /\ node' \in [Servers -> Node]
    BY <1>0, <1>a, <2>1, <2>2, <2>3, <2>4, SendNothingType, BroadcastType
  <2> QED
    BY <1>0, <2>4, <2>5, DaemonStepType
<1>2. CASE HandleUnlock(t)
  <2> DEFINE own   == {u \in node[t].tickets : Key(u[2]) = m.key}
             first == {u \in own : \A v \in own : v = u \/ Before(u, v)}
             d(u)  == [cmd |-> "DROPTICKET", from |-> t, key |-> m.key,
                       id |-> IF node[t].ticket[u[2]].added_ticket
                              THEN node[t].ticket[u[2]].our_ticket ELSE 0]
  <2>1. inbox[t] # <<>> /\ m.key \in Clients
    BY <1>0, <1>2, ReceivedType DEF HandleUnlock
  <2>2. ASSUME NEW u \in first PROVE d(u) \in DaemonMessage
    <3>1. node[t].ticket[u[2]].our_ticket \in Nat
      BY <1>e, <1>f DEF Ticket
    <3> QED
      BY <2>1, <3>1 DEF DaemonMessage, TicketMessage
  <2>3. /\ SendNothing(t) \/ \E u \in first : Broadcast(t, d(u))
        /\ UNCHANGED <<node, computers, alive, client, toClient, now>>
    BY <1>2 DEF HandleUnlock
  <2> HIDE DEF m, first, d
  <2>4. NetworkType'
    BY <1>0, <2>1, <2>2, <2>3, SendNothingType, BroadcastType
  <2> QED
    BY <1>0, <2>3, <2>4, DaemonStepType
<1>3. CASE LockEntering(t)
  <2> DEFINE fresh     == m.timeout > now
             allocated == IF fresh /\ Entering(node[t], m.key) = {}
                          THEN Allocate(node[t], <<m.key, m.service>>, m.timeout)
                          ELSE node[t]
             cleaned   == Cleanup(allocated, t, now)
             e         == [cmd |-> "LOCKENTERED", from |-> t, key |-> m.key]
  <2>1. /\ inbox[t] # <<>> /\ m.key \in Clients /\ m.from \in Servers
        /\ m.service \in 1 .. MaxLocks /\ m.timeout \in Nat
    BY <1>0, <1>3, ReceivedType DEF LockEntering
  <2>2. e \in DaemonMessage /\ <<m.key, m.service>> \in Requests
    BY <2>1 DEF DaemonMessage, KeyMessage, Requests
  <2>3. allocated \in Node
    BY <1>0, <2>1, <2>2, AllocateType
  <2>4. cleaned \in Node
    BY <1>0, <2>3, CleanupType
  <2>5. /\ SendTo(t, m.from, e) \/ SendNothing(t)
        /\ node' = [node EXCEPT ![t] = cleaned]
        /\ toClient' = Notify(t, allocated, cleaned)
        /\ UNCHANGED <<computers, alive, client, now>>
    BY <1>3 DEF LockEntering
  <2> HIDE DEF m, allocated, cleaned, e
  <2>6. NetworkType'
    BY <1>0, <2>1, <2>2, <2>5, SendNothingType, SendToType
  <2> QED
    BY <1>0, <1>a, <1>b, <2>3, <2>4, <2>5, <2>6, DaemonStepType
<1>4. CASE LockEntered(t)
  <2> DEFINE new(r) == Entered(node[t].ticket[r], quorum(t))
             e      == [cmd |-> "GETMAXTICKET", from |-> t, key |-> m.key]
  <2>1. inbox[t] # <<>> /\ m.key \in Clients
    BY <1>0, <1>4, ReceivedType DEF LockEntered
  <2>2. e \in DaemonMessage
    BY <2>1 DEF DaemonMessage, KeyMessage
  <2>3. \A r \in Requests : new(r) \in Ticket
    BY <1>0, <1>e, EnteredType
  <2>4. /\ SendNothing(t) \/ Broadcast(t, e)
        /\ \/ UNCHANGED node
           \/ \E r \in Entering(node[t], m.key) : node' = [node EXCEPT ![t].ticket[r] = new(r)]
        /\ UNCHANGED <<computers, alive, client, toClient, now>>
    BY <1>4 DEF LockEntered
  <2> HIDE DEF m, new, e
  <2>5. NetworkType'
    BY <1>0, <2>1, <2>2, <2>4, SendNothingType, BroadcastType
  <2>6. node' \in [Servers -> Node]
    BY <1>0, <1>d, <1>f, <2>3, <2>4 DEF Entering
  <2> QED
    BY <1>0, <2>4, <2>5, <2>6, DaemonStepType
<1>5. CASE GetMaxTicket(t)
  <2> DEFINE cleaned == Cleanup(node[t], t, now)
             e(n)    == [cmd |-> "MAXTICKET", from |-> t, key |-> m.key, id |-> n]
  <2>1. inbox[t] # <<>> /\ m.key \in Clients /\ m.from \in Servers
    BY <1>0, <1>5, ReceivedType DEF GetMaxTicket
  <2>2. \A n \in LastTicket(cleaned) : e(n) \in DaemonMessage
    BY <1>c, <2>1, LastTicketType DEF DaemonMessage, TicketMessage
  <2>3. /\ \E n \in LastTicket(cleaned) : SendTo(t, m.from, e(n))
        /\ node' = [node EXCEPT ![t] = cleaned]
        /\ toClient' = Notify(t, node[t], cleaned)
        /\ UNCHANGED <<computers, alive, client, now>>
    BY <1>5 DEF GetMaxTicket
  <2>4. cleaned \in Node
    BY <1>c
  <2> HIDE DEF m, cleaned, e
  <2>5. NetworkType'
    BY <1>0, <2>1, <2>2, <2>3, SendToType
  <2> QED
    BY <1>0, <1>a, <1>b, <2>3, <2>4, <2>5, DaemonStepType
<1>6. CASE MaxTicket(t)
  <2> DEFINE new(r) == MaxTicketReceived(node[t].ticket[r], m.id, quorum(t))
             e(r)   == [cmd |-> "ADDTICKET", from |-> t, key |-> m.key, id |-> new(r).our_ticket]
  <2>1. inbox[t] # <<>> /\ m.key \in Clients /\ m.id \in Nat
    BY <1>0, <1>6, ReceivedType DEF MaxTicket
  <2>2. \A r \in Requests : new(r) \in Ticket
    BY <1>0, <1>e, <2>1, MaxTicketReceivedType
  <2>3. ASSUME NEW r \in Requests PROVE e(r) \in DaemonMessage
    <3>1. new(r).our_ticket \in Nat
      BY <2>2 DEF Ticket
    <3> QED
      BY <2>1, <3>1 DEF DaemonMessage, TicketMessage
  <2>4. /\ \/ SendNothing(t) /\ UNCHANGED node
           \/ \E r \in Entering(node[t], m.key) :
                 /\ SendNothing(t) \/ Broadcast(t, e(r))
                 /\ node' = [node EXCEPT ![t].ticket[r] = new(r)]
        /\ UNCHANGED <<computers, alive, client, toClient, now>>
    BY <1>6 DEF MaxTicket
  <2> HIDE DEF m, new, e
  <2>5. NetworkType'
    BY <1>0, <1>f, <2>1, <2>3, <2>4, SendNothingType, BroadcastType DEF Entering
  <2>6. node' \in [Servers -> Node]
    BY <1>0, <1>d, <1>f, <2>2, <2>4 DEF Entering
  <2> QED
    BY <1>0, <2>4, <2>5, <2>6, DaemonStepType
<1>7. CASE AddTicket(t)
  <2> DEFINE e     == [cmd |-> "TICKETADDED", from |-> t, key |-> m.key, id |-> m.id]
             nd(r) == [node[t] EXCEPT !.tickets =
                          (@ \ TicketsAt(node[t], m.id, m.key)) \cup {<<m.id, r>>}]
  <2>1. inbox[t] # <<>> /\ m.key \in Clients /\ m.from \in Servers /\ m.id \in Nat
    BY <1>0, <1>7, ReceivedType DEF AddTicket
  <2>2. e \in DaemonMessage
    BY <2>1 DEF DaemonMessage, TicketMessage
  <2>3. ASSUME NEW r \in Requests PROVE nd(r) \in Node
    <3>1. (node[t].tickets \ TicketsAt(node[t], m.id, m.key)) \cup {<<m.id, r>>}
             \in SUBSET (Nat \X Requests)
      BY <1>f, <2>1
    <3> QED
      BY <1>0, <3>1 DEF Node
  <2>4. /\ SendTo(t, m.from, e)
        /\ \E r \in Entering(node[t], m.key) : node' = [node EXCEPT ![t] = nd(r)]
        /\ UNCHANGED <<computers, alive, client, toClient, now>>
    BY <1>7 DEF AddTicket
  <2> HIDE DEF m, nd, e
  <2>5. NetworkType'
    BY <1>0, <2>1, <2>2, <2>4, SendToType
  <2>6. node' \in [Servers -> Node]
    BY <1>a, <1>f, <2>3, <2>4 DEF Entering
  <2> QED
    BY <1>0, <2>4, <2>5, <2>6, DaemonStepType
<1>8. CASE AddTicketThrows(t)
  <2>1. inbox[t] # <<>> /\ SendNothing(t) /\ alive' \in [Servers -> BOOLEAN]
    BY <1>0, <1>8 DEF AddTicketThrows, Receives
  <2>2. UNCHANGED <<node, computers, client, toClient, now>>
    BY <1>8 DEF AddTicketThrows
  <2> QED
    BY <1>0, <2>1, <2>2, SendNothingType, DaemonStepType
<1>9. CASE TicketAdded(t)
  <2> DEFINE found  == TicketsAt(node[t], m.id, m.key)
             new(u) == TicketAddedReceived(node[t].ticket[u[2]], node[t].entering, quorum(t))
             e      == [cmd |-> "LOCKEXITING", from |-> t, key |-> m.key]
  <2>1. inbox[t] # <<>> /\ m.key \in Clients
    BY <1>0, <1>9, ReceivedType DEF TicketAdded
  <2>2. e \in DaemonMessage
    BY <2>1 DEF DaemonMessage, KeyMessage
  <2>3. \A u \in found : u[2] \in Requests
    BY <1>f DEF TicketsAt
  <2>4. \A u \in found : new(u) \in Ticket
    BY <1>0, <1>e, <1>f, <2>3, TicketAddedReceivedType
  <2>5. /\ SendNothing(t) \/ Broadcast(t, e)
        /\ UNCHANGED node \/ \E u \in found : node' = [node EXCEPT ![t].ticket[u[2]] = new(u)]
        /\ UNCHANGED <<computers, alive, client, toClient, now>>
    BY <1>9 DEF TicketAdded
  <2> HIDE DEF m, found, new, e
  <2>6. NetworkType'
    BY <1>0, <2>1, <2>2, <2>5, SendNothingType, BroadcastType
  <2>7. node' \in [Servers -> Node]
    BY <1>0, <1>d, <2>3, <2>4, <2>5
  <2> QED
    BY <1>0, <2>5, <2>6, <2>7, DaemonStepType
<1>10. CASE LockExiting(t)
  <2> DEFINE exited    == [node[t] EXCEPT
                             !.entering = @ \ Entering(node[t], m.key),
                             !.ticket   = [r \in Requests |->
                                 IF \E u \in node[t].tickets : u[2] = r
                                 THEN RemoveEntering(node[t], node[t].ticket[r], m.key, now)
                                 ELSE node[t].ticket[r]]]
             activated == ActivateFirstLock(exited, t, now)
  <2>1. \A r \in Requests : RemoveEntering(node[t], node[t].ticket[r], m.key, now) \in Ticket
    BY <1>0, <1>e, RemoveEnteringType
  <2>2. exited \in Node
    BY <1>0, <1>e, <2>1 DEF Node
  <2>3. activated \in Node
    BY <1>c, <2>2
  <2>4. /\ inbox[t] # <<>> /\ SendNothing(t)
        /\ \/ UNCHANGED <<node, toClient>>
           \/ /\ node' = [node EXCEPT ![t] = activated]
              /\ toClient' = Notify(t, exited, activated)
        /\ UNCHANGED <<computers, alive, client, now>>
    BY <1>10 DEF LockExiting, Receives
  <2> HIDE DEF m, exited, activated
  <2>5. NetworkType'
    BY <1>0, <2>4, SendNothingType
  <2> QED
    BY <1>0, <1>a, <1>b, <2>2, <2>3, <2>4, <2>5, DaemonStepType
<1>11. CASE DropTicket(t)
  <2> DEFINE dropped   == [node[t] EXCEPT !.tickets = @ \ TicketsAt(node[t], m.id, m.key)]
             activated == IF m.id = 0 THEN node[t] ELSE ActivateFirstLock(dropped, t, now)
             new       == [activated EXCEPT !.entering = @ \ Entering(node[t], m.key)]
  <2>1. dropped \in Node
    BY <1>0 DEF Node
  <2>2. activated \in Node
    BY <1>0, <1>c, <2>1
  <2>3. /\ inbox[t] # <<>> /\ SendNothing(t)
        /\ node' = [node EXCEPT ![t] = new]
        /\ toClient' = Notify(t, node[t], activated)
        /\ UNCHANGED <<computers, alive, client, now>>
    BY <1>11 DEF DropTicket, Receives
  <2> HIDE DEF m, activated
  <2>4. new \in Node
    BY <2>2 DEF Node
  <2>5. NetworkType'
    BY <1>0, <2>3, SendNothingType
  <2> QED
    BY <1>0, <1>a, <1>b, <2>2, <2>3, <2>4, <2>5, DaemonStepType
<1>12. CASE OtherObject(t)
  <2>1. /\ node' = [node EXCEPT ![t] = Cleanup(node[t], t, now)]
        /\ toClient' = Notify(t, node[t], Cleanup(node[t], t, now))
        /\ UNCHANGED <<computers, alive, inbox, link, client, now>>
    BY <1>12 DEF OtherObject
  <2>2. NetworkType'
    BY <1>0, <2>1 DEF NetworkType
  <2> QED
    BY <1>0, <1>a, <1>b, <1>c, <2>1, <2>2, DaemonStepType
<1> QED
  BY <1>1, <1>2, <1>3, <1>4, <1>5, <1>6, <1>7, <1>8, <1>9, <1>10, <1>11, <1>12
     DEF HandleMessage

\* The steps of snapcommunicator and of the clock.
LEMMA ForwardType ==
    ASSUME TypeInv, NEW s \in Servers, NEW t \in Servers, Forward(s, t)
    PROVE  TypeInv'
<1>1. link[s] \in [Servers -> Seq(DaemonMessage)] /\ link[s][t] \in Seq(DaemonMessage)
  BY DEF TypeInv, TypeOK
<1>2. link[s][t] # <<>>
  BY DEF Forward
<1>3. Head(link[s][t]) \in Message /\ Tail(link[s][t]) \in Seq(DaemonMessage)
  BY <1>1, <1>2, TailType DEF Message
<1>4. inbox' \in [Servers -> Seq(Message)]
  BY <1>3 DEF Forward, TypeInv, TypeOK
<1>5. [link[s] EXCEPT ![t] = Tail(@)] \in [Servers -> Seq(DaemonMessage)]
  BY <1>1, <1>3
<1>6. link' \in [Servers -> [Servers -> Seq(DaemonMessage)]]
  BY <1>5 DEF Forward, TypeInv, TypeOK
<1> QED
  BY <1>4, <1>6 DEF Forward, TypeInv, TypeOK, Registered, Connected

LEMMA TypeNext == TypeInv /\ [Next]_vars => TypeInv'
<1> SUFFICES ASSUME TypeInv, [Next]_vars PROVE TypeInv'
  OBVIOUS
<1>1. CASE \E c \in Clients : ClientLock(c) \/ ClientStep(c) \/ ClientStop(c) \/ ClientDies(c)
  BY <1>1, ClientStepsType
<1>2. CASE \E t \in Servers : HandleMessage(t) \/ OtherObject(t)
  BY <1>2, HandleMessageType
<1>3. CASE \E s, t \in Servers : Forward(s, t)
  BY <1>3, ForwardType
<1>4. CASE Tick
  BY <1>4 DEF Tick, TypeInv, TypeOK, Registered, Connected
<1>5. CASE UNCHANGED vars
  BY <1>5 DEF vars, TypeInv, TypeOK, Registered, Connected
<1> QED
  BY <1>1, <1>2, <1>3, <1>4, <1>5 DEF Next

\* Every variable keeps its type: the daemons, the messages and the clients agree
\* on what they exchange, whatever is processed in whatever order.
THEOREM TypeCorrect == Spec => []TypeOK
<1>1. TypeInv => TypeOK
  BY DEF TypeInv
<1> QED
  BY <1>1, TypeInit, TypeNext, PTL DEF Spec

-----------------------------------------------------------------------------
(* Only LOCKED is read.                                                    *)

(* RequestsMatch is inductive together with TypeOK; its part about the     *)
(* daemons and the answers follows a message through the memory of the     *)
(* daemon that processes it.                                               *)

\* The fields that RequestsMatch reads stay as they are while a request collects
\* its replies.
SameLock(new, tk) == /\ new.obtention_timeout = tk.obtention_timeout
                     /\ new.locked = tk.locked

LEMMA EnteredKeeps ==
    ASSUME NEW tk \in Ticket, NEW q PROVE SameLock(Entered(tk, q), tk)
BY DEF Entered, Ticket, SameLock

LEMMA MaxTicketReceivedKeeps ==
    ASSUME NEW tk \in Ticket, NEW id, NEW q PROVE SameLock(MaxTicketReceived(tk, id, q), tk)
BY DEF MaxTicketReceived, Ticket, SameLock

LEMMA TicketAddedReceivedKeeps ==
    ASSUME NEW tk \in Ticket, NEW E, NEW q PROVE SameLock(TicketAddedReceived(tk, E, q), tk)
BY DEF TicketAddedReceived, Ticket, SameLock

LEMMA RemoveEnteringKeeps ==
    ASSUME NEW nd, NEW tk \in Ticket, NEW c, NEW n PROVE SameLock(RemoveEntering(nd, tk, c, n), tk)
BY DEF RemoveEntering, Ticket, SameLock

\* activate_first_lock() and cleanup() leave a node whose requests were made by
\* the clients.
LEMMA EvolvesMatches ==
    ASSUME TypeOK, NEW old \in Node, NEW new \in Node,
           NodeMatches(old), Evolves(old, new, now)
    PROVE  NodeMatches(new)
<1> SUFFICES ASSUME NEW r \in Requests
             PROVE  /\ r \in new.entering \/ (\E t \in new.tickets : t[2] = r)
                       => MadeByClient(r, new.ticket[r].obtention_timeout)
                    /\ client[Key(r)].service < r[2] => ~new.ticket[r].locked
  BY DEF NodeMatches
<1>1. /\ r \in old.entering \/ (\E t \in old.tickets : t[2] = r)
         => MadeByClient(r, old.ticket[r].obtention_timeout)
      /\ client[Key(r)].service < r[2] => ~old.ticket[r].locked
  BY DEF NodeMatches
<1>2. /\ new.ticket[r].obtention_timeout = old.ticket[r].obtention_timeout
      /\ new.ticket[r].locked /\ ~old.ticket[r].locked => \E t \in old.tickets : t[2] = r
      /\ new.tickets \subseteq old.tickets /\ new.entering \subseteq old.entering
  BY DEF Evolves
<1>3. r \in new.entering \/ (\E t \in new.tickets : t[2] = r)
      => r \in old.entering \/ (\E t \in old.tickets : t[2] = r)
  BY <1>2
<1>4. client[Key(r)].service \in Nat /\ r[2] \in Nat
  BY RequestsType DEF TypeOK, ClientState
<1>5. MadeByClient(r, old.ticket[r].obtention_timeout) => ~(client[Key(r)].service < r[2])
  BY <1>4 DEF MadeByClient
<1> QED
  BY <1>1, <1>2, <1>3, <1>5

\* The same for a request that is allocated for a message of its client.
LEMMA AllocateMatches ==
    ASSUME TypeOK, NEW nd \in Node, NodeMatches(nd), NEW r \in Requests,
           NEW timeout \in Nat, MadeByClient(r, timeout)
    PROVE  /\ NodeMatches(Allocate(nd, r, timeout))
           /\ \A q \in Requests : Allocate(nd, r, timeout).ticket[q].locked => nd.ticket[q].locked
<1> DEFINE new == Allocate(nd, r, timeout)
<1>1. /\ new.entering = (nd.entering \ Entering(nd, Key(r))) \cup {r}
      /\ new.tickets = nd.tickets
      /\ \A q \in Requests : new.ticket[q] = IF q = r THEN NewTicket(timeout) ELSE nd.ticket[q]
  BY DEF Allocate, Node
<1>2. NewTicket(timeout).obtention_timeout = timeout /\ NewTicket(timeout).locked = FALSE
  BY DEF NewTicket
<1> HIDE DEF new
<1>3. ASSUME NEW q \in Requests
      PROVE  /\ q \in new.entering \/ (\E t \in new.tickets : t[2] = q)
                => MadeByClient(q, new.ticket[q].obtention_timeout)
             /\ client[Key(q)].service < q[2] => ~new.ticket[q].locked
  <2>1. CASE q = r
    BY <1>1, <1>2, <2>1
  <2>2. CASE q # r
    BY <1>1, <2>2 DEF NodeMatches
  <2> QED
    BY <2>1, <2>2
<1>4. NodeMatches(new)
  BY <1>3 DEF NodeMatches
<1>5. \A q \in Requests : new.ticket[q].locked => nd.ticket[q].locked
  BY <1>1, <1>2
<1> QED
  BY <1>4, <1>5 DEF new

\* A node that has no more entries than a matching one, and whose tickets have the
\* same timeouts and locks, matches.
LEMMA SubNodeMatches ==
    ASSUME NEW old \in Node, NodeMatches(old), NEW new,
           \A r \in Requests :
              /\ r \in new.entering \/ (\E t \in new.tickets : t[2] = r)
                 => r \in old.entering \/ (\E t \in old.tickets : t[2] = r)
              /\ new.ticket[r].obtention_timeout = old.ticket[r].obtention_timeout
              /\ new.ticket[r].locked = old.ticket[r].locked
    PROVE  NodeMatches(new)
BY DEF NodeMatches

\* Only the first element appended to a connection becomes its head.
LEMMA AppendHead ==
    ASSUME NEW S, NEW q \in Seq(S), NEW x
    PROVE  /\ Append(q, x) # <<>>
           /\ q # <<>> => Head(Append(q, x)) = Head(q)
           /\ q = <<>> => Head(Append(q, x)) = x
<1>1. q \in Seq(S \cup {x})
  OBVIOUS
<1>2. /\ Append(q, x) \in Seq(S \cup {x})
      /\ Len(Append(q, x)) = Len(q) + 1
      /\ Append(q, x)[Len(q) + 1] = x
      /\ \A i \in 1 .. Len(q) : Append(q, x)[i] = q[i]
  BY <1>1
<1> QED
  BY <1>1, <1>2

\* What Notify appends suits the clients: LOCKED comes with the grant, and a failure
\* before the deadline only comes to a client that was sent LOCKED before.
LEMMA NotifyMatches ==
    ASSUME TypeOK, Registered, NEW s \in Servers, NEW old \in Node, NEW new \in Node,
           NodeMatches(old), Evolves(old, new, now),
           NEW c \in Clients, Home[c] = s,
           AnswerMatches(c, old.ticket[<<c, client[c].service>>], toClient[c])
    PROVE  AnswerMatches(c, new.ticket[<<c, client[c].service>>], Notify(s, old, new)[c])
<1> DEFINE r   == <<c, client[c].service>>
           was == old.ticket[r]
           is  == new.ticket[r]
           sent == Notify(s, old, new)[c]
           failure == [cmd |-> IF was.locked THEN "UNLOCKED" ELSE "LOCKFAILED", timeout_date |-> 0]
           success == [cmd |-> "LOCKED", timeout_date |-> is.lock_timeout]
<1>1. sent = IF ~Connected(c)
             THEN toClient[c]
             ELSE IF is.locked /\ ~was.locked
             THEN Append(toClient[c], success)
             ELSE IF is.lock_failed /\ ~was.lock_failed
             THEN Append(toClient[c], failure)
             ELSE toClient[c]
  BY DEF Notify
<1>2. toClient[c] \in Seq(ToClient)
  BY DEF TypeOK
<1>3. CASE client[c].state # "waiting"
  <2>1. client[c].state = "idle" => sent = <<>>
    BY <1>1 DEF Connected, AnswerMatches
  <2> QED
    BY <1>3, <2>1 DEF AnswerMatches
<1>4. CASE client[c].state = "waiting"
  <2>1. Connected(c) /\ client[c].service # 0
    BY <1>4 DEF Connected, Registered
  <2>2. r \in Requests
    BY <2>1, MaxLocksAssumption DEF Requests, TypeOK, ClientState
  <2>3. /\ was.locked => is.locked
        /\ is.lock_failed /\ ~was.lock_failed
           => TimedOut(was, now) /\ \E t \in old.tickets : t[2] = r
    BY <2>2 DEF Evolves
  <2>4. (\E t \in old.tickets : t[2] = r) => was.obtention_timeout = client[c].deadline
    BY <2>2 DEF NodeMatches, MadeByClient, Key
  <2>5. client[c].deadline \in Nat /\ now \in Nat
    BY DEF TypeOK, ClientState
  <2>6. is.lock_failed /\ ~was.lock_failed /\ ~was.locked => ~(now < client[c].deadline)
    BY <2>3, <2>4, <2>5 DEF TimedOut
  <2>7. /\ was.locked => toClient[c] # <<>>
        /\ toClient[c] # <<>> /\ now < client[c].deadline => Head(toClient[c]).cmd = "LOCKED"
    BY <1>4 DEF AnswerMatches
  <2>8. \A x : /\ Append(toClient[c], x) # <<>>
               /\ toClient[c] # <<>> => Head(Append(toClient[c], x)) = Head(toClient[c])
               /\ toClient[c] = <<>> => Head(Append(toClient[c], x)) = x
    BY <1>2, AppendHead
  <2>9. success.cmd = "LOCKED"
    OBVIOUS
  <2> HIDE DEF r, was, is, sent, failure, success
  <2>10. CASE is.locked /\ ~was.locked
    <3>1. sent = Append(toClient[c], success)
      BY <1>1, <2>1, <2>10
    <3> QED
      BY <1>4, <2>7, <2>8, <2>9, <3>1 DEF AnswerMatches, is, r, sent
  <2>11. CASE ~(is.locked /\ ~was.locked) /\ is.lock_failed /\ ~was.lock_failed
    <3>1. sent = Append(toClient[c], failure)
      BY <1>1, <2>1, <2>11
    <3>2. toClient[c] = <<>> => ~(now < client[c].deadline)
      BY <2>6, <2>7, <2>11
    <3> QED
      BY <1>4, <2>7, <2>8, <3>1, <3>2 DEF AnswerMatches, sent
  <2>12. CASE ~(is.locked /\ ~was.locked) /\ ~(is.lock_failed /\ ~was.lock_failed)
    <3>1. sent = toClient[c]
      BY <1>1, <2>12
    <3> QED
      BY <1>4, <2>7, <2>12, <3>1 DEF AnswerMatches, is, was, r, sent
  <2> QED
    BY <2>10, <2>11, <2>12
<1> QED
  BY <1>3, <1>4

\* What the connections hold after a read and after a write.
LEMMA TailHolds ==
    ASSUME NEW S, NEW q \in Seq(S), q # <<>>
    PROVE  \A i \in DOMAIN Tail(q) : \E j \in DOMAIN q : Tail(q)[i] = q[j]
<1> SUFFICES ASSUME NEW i \in DOMAIN Tail(q) PROVE \E j \in DOMAIN q : Tail(q)[i] = q[j]
  OBVIOUS
<1>1. i \in 1 .. Len(q) - 1 /\ Tail(q)[i] = q[i + 1]
  OBVIOUS
<1>2. i + 1 \in DOMAIN q
  BY <1>1
<1> QED
  BY <1>1, <1>2

LEMMA AppendHolds ==
    ASSUME NEW S, NEW q \in Seq(S), NEW x \in S
    PROVE  \A i \in DOMAIN Append(q, x) :
              Append(q, x)[i] = x \/ \E j \in DOMAIN q : Append(q, x)[i] = q[j]
OBVIOUS

\* All the messages of a connection match.
AllMatch(q) == \A i \in DOMAIN q : MessageMatches(q[i])

LEMMA ReadMatches ==
    ASSUME NEW S, NEW q \in Seq(S), q # <<>>, AllMatch(q)
    PROVE  AllMatch(Tail(q)) /\ MessageMatches(Head(q))
<1>1. Head(q) = q[1] /\ 1 \in DOMAIN q
  OBVIOUS
<1> QED
  BY <1>1, TailHolds DEF AllMatch

LEMMA WriteMatches ==
    ASSUME NEW S, NEW q \in Seq(S), NEW m \in S, AllMatch(q), MessageMatches(m)
    PROVE  AllMatch(Append(q, m))
BY AppendHolds DEF AllMatch

\* The matching of messages depends on the services and deadlines of the clients.
SameRequests == \A c \in Clients : /\ client'[c].service = client[c].service
                                   /\ client'[c].deadline = client[c].deadline

LEMMA MatchesFrame ==
    ASSUME SameRequests
    PROVE  /\ \A m \in Message : MessageMatches(m)' <=> MessageMatches(m)
           /\ \A r \in Requests : \A n : MadeByClient(r, n)' <=> MadeByClient(r, n)
<1>1. \A r \in Requests : \A n : MadeByClient(r, n)' <=> MadeByClient(r, n)
  BY RequestsType DEF SameRequests, MadeByClient
<1>2. ASSUME NEW m \in Message PROVE MessageMatches(m)' <=> MessageMatches(m)
  <2>1. CASE m.cmd \in {"LOCK", "LOCKENTERING"}
    <3>1. <<m.key, m.service>> \in Requests
      BY <2>1 DEF Message, ClientRequest, DaemonMessage, EnteringMessage, KeyMessage,
                  TicketMessage, Requests
    <3> QED
      BY <1>1, <3>1 DEF MessageMatches
  <2>2. CASE m.cmd \notin {"LOCK", "LOCKENTERING"}
    BY <2>2 DEF MessageMatches
  <2> QED
    BY <2>1, <2>2
<1> QED
  BY <1>1, <1>2

\* The connections after a step, given that all they hold matches.
LEMMA ConnectionsMatch ==
    ASSUME NetworkType', SameRequests,
           \A s \in Servers : AllMatch(inbox'[s]) /\ \A t \in Servers : AllMatch(link'[s][t])
    PROVE  MessagesMatch'
<1>1. \A s \in Servers : \A i \in DOMAIN inbox'[s] : inbox'[s][i] \in Message
  BY DEF NetworkType
<1>2. \A s, t \in Servers : \A i \in DOMAIN link'[s][t] : link'[s][t][i] \in Message
  BY DEF NetworkType, Message
<1> QED
  BY <1>1, <1>2, MatchesFrame DEF MessagesMatch, AllMatch

LEMMA SendNothingMatches ==
    ASSUME NetworkType, MessagesMatch, SameRequests, NEW t \in Servers, inbox[t] # <<>>,
           SendNothing(t)
    PROVE  MessagesMatch'
<1>1. AllMatch(Tail(inbox[t]))
  BY ReadMatches DEF NetworkType, MessagesMatch, AllMatch
<1>2. \A s \in Servers : AllMatch(inbox'[s]) /\ \A u \in Servers : AllMatch(link'[s][u])
  BY <1>1 DEF SendNothing, NetworkType, MessagesMatch, AllMatch
<1> QED
  BY <1>2, SendNothingType, ConnectionsMatch

LEMMA SendToMatches ==
    ASSUME NetworkType, MessagesMatch, SameRequests, NEW t \in Servers, NEW s \in Servers,
           inbox[t] # <<>>, NEW m \in DaemonMessage, MessageMatches(m), SendTo(t, s, m)
    PROVE  MessagesMatch'
<1>1. /\ \A u \in Servers : AllMatch(inbox[u]) /\ inbox[u] \in Seq(Message)
      /\ \A u, v \in Servers : AllMatch(link[u][v]) /\ link[u][v] \in Seq(DaemonMessage)
  BY DEF NetworkType, MessagesMatch, AllMatch
<1>2. AllMatch(Tail(inbox[t])) /\ Tail(inbox[t]) \in Seq(Message)
  BY <1>1, ReadMatches, TailType
<1>3. m \in Message
  BY DEF Message
<1>4. AllMatch(Append(Tail(inbox[t]), m))
  BY <1>2, <1>3, WriteMatches
<1>5. AllMatch(Append(link[t][s], m))
  BY <1>1, WriteMatches
<1>6. \A u \in Servers : /\ inbox'[u] \in {inbox[u], Tail(inbox[t]), Append(Tail(inbox[t]), m)}
                         /\ \A v \in Servers : link'[u][v] \in {link[u][v], Append(link[t][s], m)}
  <2>1. CASE s = t
    BY <2>1 DEF SendTo, NetworkType
  <2>2. CASE s # t
    <3>1. inbox' = [inbox EXCEPT ![t] = Tail(@)] /\ link' = [link EXCEPT ![t][s] = Append(@, m)]
      BY <2>2 DEF SendTo
    <3>2. \A u \in Servers : inbox'[u] \in {inbox[u], Tail(inbox[t])}
      BY <3>1 DEF NetworkType
    <3>3. \A u, v \in Servers : link'[u][v] \in {link[u][v], Append(link[t][s], m)}
      BY <3>1 DEF NetworkType
    <3> QED
      BY <3>2, <3>3
  <2> QED
    BY <2>1, <2>2
<1>7. \A u \in Servers : AllMatch(inbox'[u]) /\ \A v \in Servers : AllMatch(link'[u][v])
  BY <1>1, <1>2, <1>4, <1>5, <1>6
<1> QED
  BY <1>7, SendToType, ConnectionsMatch

LEMMA BroadcastMatches ==
    ASSUME NetworkType, MessagesMatch, SameRequests, NEW t \in Servers,
           inbox[t] # <<>>, NEW m \in DaemonMessage, MessageMatches(m), Broadcast(t, m)
    PROVE  MessagesMatch'
<1>1. /\ \A u \in Servers : AllMatch(inbox[u]) /\ inbox[u] \in Seq(Message)
      /\ \A u, v \in Servers : AllMatch(link[u][v]) /\ link[u][v] \in Seq(DaemonMessage)
  BY DEF NetworkType, MessagesMatch, AllMatch
<1>2. AllMatch(Tail(inbox[t])) /\ Tail(inbox[t]) \in Seq(Message)
  BY <1>1, ReadMatches, TailType
<1>3. m \in Message
  BY DEF Message
<1>4. AllMatch(Append(Tail(inbox[t]), m))
  BY <1>2, <1>3, WriteMatches
<1>5. \A v \in Servers : AllMatch(Append(link[t][v], m))
  BY <1>1, WriteMatches
<1>6. \A u \in Servers : /\ inbox'[u] \in {inbox[u], Append(Tail(inbox[t]), m)}
                         /\ \A v \in Servers : link'[u][v] \in {link[u][v], Append(link[t][v], m)}
  BY DEF Broadcast, NetworkType
<1>7. \A u \in Servers : AllMatch(inbox'[u]) /\ \A v \in Servers : AllMatch(link'[u][v])
  BY <1>1, <1>4, <1>5, <1>6
<1> QED
  BY <1>7, BroadcastType, ConnectionsMatch

\* The invariant of OnlyLockedIsRead.
MatchInv == TypeOK /\ RequestsMatch

LEMMA MatchInit == Init => MatchInv
<1> SUFFICES ASSUME Init PROVE MatchInv
  OBVIOUS
<1>1. TypeOK /\ Registered
  BY TypeInit DEF TypeInv
<1>2. MessagesMatch
  BY DEF Init, MessagesMatch
<1>3. NodeMatches(EmptyNode)
  BY DEF NodeMatches, EmptyNode, NewTicket
<1>4. NodesMatch
  BY <1>3 DEF Init, NodesMatch
<1>5. AnswersMatch
  BY DEF Init, AnswersMatch, AnswerMatches
<1> QED
  BY <1>1, <1>2, <1>4, <1>5 DEF MatchInv, RequestsMatch

\* A step of daemon t that sends its clients nothing.
LEMMA QuietStepMatches ==
    ASSUME MatchInv, NEW t \in Servers, NEW fin \in Node, NodeMatches(fin),
           \A r \in Requests : fin.ticket[r].locked => node[t].ticket[r].locked,
           node' = [node EXCEPT ![t] = fin], MessagesMatch', UNCHANGED <<client, toClient, now>>
    PROVE  RequestsMatch'
<1>1. TypeOK /\ Registered /\ NodesMatch /\ AnswersMatch
  BY DEF MatchInv, RequestsMatch
<1>2. \A s \in Servers : node'[s] = IF s = t THEN fin ELSE node[s]
  BY <1>1 DEF TypeOK
<1>3. NodesMatch'
  BY <1>1, <1>2 DEF NodesMatch, NodeMatches, MadeByClient
<1>4. ASSUME NEW c \in Clients, client[c].state = "waiting",
             node'[Home[c]].ticket[<<c, client[c].service>>].locked
      PROVE  node[Home[c]].ticket[<<c, client[c].service>>].locked
  <2>1. <<c, client[c].service>> \in Requests
    BY <1>1, <1>4, MaxLocksAssumption DEF Requests, TypeOK, ClientState, Registered, Connected
  <2>2. Home[c] \in Servers
    BY HomeAssumption
  <2> QED
    BY <1>2, <1>4, <2>1, <2>2
<1>5. AnswersMatch'
  BY <1>1, <1>4 DEF AnswersMatch, AnswerMatches
<1>6. Registered'
  BY <1>1 DEF Registered, Connected
<1> QED
  BY <1>3, <1>5, <1>6 DEF RequestsMatch

\* A step of daemon t in which activate_first_lock() or cleanup() takes its memory
\* from old to new.
LEMMA NotifyStepMatches ==
    ASSUME MatchInv, NEW t \in Servers, NEW old \in Node, NEW new \in Node, NEW fin \in Node,
           NodeMatches(old), Evolves(old, new, now),
           \A r \in Requests : old.ticket[r].locked => node[t].ticket[r].locked,
           fin.ticket = new.ticket, fin.tickets = new.tickets, fin.entering \subseteq new.entering,
           node' = [node EXCEPT ![t] = fin], toClient' = Notify(t, old, new),
           MessagesMatch', UNCHANGED <<client, now>>
    PROVE  RequestsMatch'
<1>1. TypeOK /\ Registered /\ NodesMatch /\ AnswersMatch
  BY DEF MatchInv, RequestsMatch
<1>2. \A s \in Servers : node'[s] = IF s = t THEN fin ELSE node[s]
  BY <1>1 DEF TypeOK
<1>3. NodeMatches(new)
  BY <1>1, EvolvesMatches
<1>4. NodeMatches(fin)
  BY <1>3, SubNodeMatches
<1>5. NodesMatch'
  BY <1>1, <1>2, <1>4 DEF NodesMatch, NodeMatches, MadeByClient
<1>6. ASSUME NEW c \in Clients
      PROVE  AnswerMatches(c, node'[Home[c]].ticket[<<c, client[c].service>>], toClient'[c])
  <2>1. Home[c] \in Servers
    BY HomeAssumption
  <2>2. AnswerMatches(c, node[Home[c]].ticket[<<c, client[c].service>>], toClient[c])
    BY <1>1 DEF AnswersMatch
  <2>3. CASE Home[c] # t
    <3>1. toClient'[c] = toClient[c]
      BY <2>3 DEF Notify
    <3> QED
      BY <1>2, <2>1, <2>2, <2>3, <3>1
  <2>4. CASE Home[c] = t
    <3>1. client[c].state = "waiting" => <<c, client[c].service>> \in Requests
      BY <1>1, MaxLocksAssumption DEF Requests, TypeOK, ClientState, Registered, Connected
    <3>2. AnswerMatches(c, old.ticket[<<c, client[c].service>>], toClient[c])
      BY <2>2, <2>4, <3>1 DEF AnswerMatches
    <3>3. AnswerMatches(c, new.ticket[<<c, client[c].service>>], Notify(t, old, new)[c])
      BY <1>1, <2>4, <3>2, NotifyMatches
    <3> QED
      BY <1>2, <2>4, <3>3
  <2> QED
    BY <2>3, <2>4
<1>7. AnswersMatch'
  BY <1>6 DEF AnswersMatch, AnswerMatches
<1>8. Registered'
  BY <1>1 DEF Registered, Connected
<1> QED
  BY <1>5, <1>7, <1>8 DEF RequestsMatch

\* lock(): the requests and messages of older services stay older, and nobody
\* knows the new one yet.
LEMMA ClientLockMatches ==
    ASSUME MatchInv, NEW c \in Clients, ClientLock(c)
    PROVE  RequestsMatch'
<1> DEFINE service  == client[c].service + 1
           deadline == now + ObtentionTimeout[c]
           m        == [cmd |-> "LOCK", key |-> c, service |-> service, timeout |-> deadline]
<1>1. TypeOK /\ Registered /\ MessagesMatch /\ NodesMatch /\ AnswersMatch
  BY DEF MatchInv, RequestsMatch
<1>2. /\ client[c].state = "idle"
      /\ client' = [client EXCEPT ![c] = [state |-> "waiting", service |-> service,
                                          deadline |-> deadline, timeout_date |-> 0]]
      /\ inbox' = [inbox EXCEPT ![Home[c]] = Append(@, m)]
      /\ UNCHANGED <<node, link, toClient, now>>
  BY DEF ClientLock
<1>3. client[c].service \in 0 .. MaxLocks /\ client[c].service < MaxLocks
  BY <1>1 DEF TypeOK, ClientState, ClientLock
<1>4. service \in 1 .. MaxLocks /\ client[c].service < service /\ deadline \in Nat
  BY <1>1, <1>3, ObtentionAssumption, MaxLocksAssumption DEF TypeOK
<1>5. /\ client'[c].service = service /\ client'[c].deadline = deadline
      /\ client'[c].state = "waiting"
      /\ \A d \in Clients \ {c} : client'[d] = client[d]
  BY <1>1, <1>2 DEF TypeOK
<1>6. \A d \in Clients : client[d].service \in Nat
  BY <1>1 DEF TypeOK, ClientState
<1> HIDE DEF service, deadline
<1>7. \A r \in Requests : \A n : MadeByClient(r, n) => MadeByClient(r, n)'
  BY <1>4, <1>5, <1>6, RequestsType DEF MadeByClient
<1> DEFINE Fits(x) == x.cmd \in {"LOCK", "LOCKENTERING"} =>
                         /\ x.service <= client'[x.key].service
                         /\ x.service = client'[x.key].service => x.timeout = client'[x.key].deadline
<1>8. m \in Message /\ Fits(m)
  BY <1>4, <1>5 DEF Message, ClientRequest
<1>9. \A x \in Message : MessageMatches(x) => Fits(x)
  <2> SUFFICES ASSUME NEW x \in Message, MessageMatches(x), x.cmd \in {"LOCK", "LOCKENTERING"}
               PROVE  Fits(x)
    OBVIOUS
  <2>1. <<x.key, x.service>> \in Requests
    BY DEF Message, ClientRequest, DaemonMessage, EnteringMessage, KeyMessage,
           TicketMessage, Requests
  <2>2. MadeByClient(<<x.key, x.service>>, x.timeout)'
    BY <1>7, <2>1 DEF MessageMatches
  <2> QED
    BY <2>2 DEF MadeByClient, Key
<1>10. MessagesMatch'
  <2> HIDE DEF Fits, m
  <2>1. \A s \in Servers : \A i \in DOMAIN inbox[s] : Fits(inbox[s][i])
    <3>1. \A s \in Servers : \A i \in DOMAIN inbox[s] : inbox[s][i] \in Message
      BY <1>1 DEF TypeOK
    <3> QED
      BY <1>1, <1>9, <3>1 DEF MessagesMatch
  <2>2. \A s, t \in Servers : \A i \in DOMAIN link[s][t] : Fits(link[s][t][i])
    <3>1. \A s, t \in Servers : \A i \in DOMAIN link[s][t] : link[s][t][i] \in Message
      BY <1>1 DEF TypeOK, Message
    <3> QED
      BY <1>1, <1>9, <3>1 DEF MessagesMatch
  <2>3. Home[c] \in Servers /\ inbox[Home[c]] \in Seq(Message)
    BY <1>1, HomeAssumption DEF TypeOK
  <2>4. \A i \in DOMAIN Append(inbox[Home[c]], m) : Fits(Append(inbox[Home[c]], m)[i])
    BY <1>8, <2>1, <2>3, AppendHolds
  <2>5. \A s \in Servers : inbox'[s] = IF s = Home[c] THEN Append(inbox[s], m) ELSE inbox[s]
    BY <1>1, <1>2 DEF TypeOK
  <2>6. \A s \in Servers : /\ \A i \in DOMAIN inbox'[s] : Fits(inbox'[s][i])
                           /\ \A t \in Servers : \A i \in DOMAIN link'[s][t] : Fits(link'[s][t][i])
    BY <1>2, <2>1, <2>2, <2>4, <2>5
  <2> QED
    BY <2>6 DEF MessagesMatch, MessageMatches, MadeByClient, Key, Fits
<1>11. NodesMatch'
  <2> SUFFICES ASSUME NEW s \in Servers, NEW r \in Requests
               PROVE  /\ r \in node[s].entering \/ (\E t \in node[s].tickets : t[2] = r)
                         => MadeByClient(r, node[s].ticket[r].obtention_timeout)'
                      /\ client'[Key(r)].service < r[2] => ~node[s].ticket[r].locked
    BY <1>2 DEF NodesMatch, NodeMatches, MadeByClient
  <2>1. /\ r \in node[s].entering \/ (\E t \in node[s].tickets : t[2] = r)
           => MadeByClient(r, node[s].ticket[r].obtention_timeout)
        /\ client[Key(r)].service < r[2] => ~node[s].ticket[r].locked
    BY <1>1 DEF NodesMatch, NodeMatches
  <2>2. client'[Key(r)].service < r[2] => client[Key(r)].service < r[2]
    BY <1>4, <1>5, <1>6, RequestsType
  <2>3. node'[s].ticket[r].obtention_timeout = node[s].ticket[r].obtention_timeout
    BY <1>2
  <2> QED
    BY <1>2, <1>7, <2>1, <2>2, <2>3 DEF MadeByClient
<1>12. AnswersMatch'
  <2>1. toClient[c] = <<>>
    BY <1>1, <1>2 DEF AnswersMatch, AnswerMatches
  <2>2. ~node[Home[c]].ticket[<<c, service>>].locked
    <3>1. <<c, service>> \in Requests /\ Home[c] \in Servers
      BY <1>4, HomeAssumption DEF Requests
    <3> QED
      BY <1>1, <1>4, <3>1 DEF NodesMatch, NodeMatches, Key
  <2> QED
    BY <1>1, <1>2, <1>5, <2>1, <2>2 DEF AnswersMatch, AnswerMatches
<1>13. Registered'
  BY <1>1, <1>4, <1>5 DEF Registered, Connected
<1> QED
  BY <1>10, <1>11, <1>12, <1>13 DEF RequestsMatch

\* The other steps of a client: it stops waiting, and what it was sent is gone
\* unless it has the lock.
LEMMA ClientEndsMatches ==
    ASSUME MatchInv, TypeInv', NEW c \in Clients,
           ClientStep(c) \/ ClientStop(c) \/ ClientDies(c)
    PROVE  RequestsMatch'
<1>1. TypeOK /\ Registered /\ MessagesMatch /\ NodesMatch /\ AnswersMatch
  BY DEF MatchInv, RequestsMatch
<1>2. client[c] \in ClientState /\ client \in [Clients -> ClientState]
      /\ toClient \in [Clients -> Seq(ToClient)] /\ toClient[c] \in Seq(ToClient)
      /\ Home[c] \in Servers
  BY <1>1, HomeAssumption DEF TypeOK
<1>3. /\ UNCHANGED <<node, link, now>>
      /\ client'[c].state # "waiting"
      /\ client'[c].service = client[c].service /\ client'[c].deadline = client[c].deadline
      /\ client'[c].state = "idle" => toClient'[c] = <<>>
      /\ \A d \in Clients \ {c} : client'[d] = client[d] /\ toClient'[d] = toClient[d]
      /\ \/ UNCHANGED inbox
         \/ inbox' = [inbox EXCEPT ![Home[c]] = Append(@, [cmd |-> "UNLOCK", key |-> c])]
  <2>1. CASE ClientMessage(c)
    <3>1. toClient[c] # <<>>
      BY <2>1 DEF ClientMessage, CanRead
    <3>2. Head(toClient[c]) \in ToClient
      BY <1>2, <3>1
    <3>3. Head(toClient[c]).cmd \in {"LOCKED", "LOCKFAILED", "UNLOCKED"}
      BY <3>2 DEF ToClient
    <3> QED
      BY <1>2, <2>1, <3>3 DEF ClientMessage, ClientState
  <2>2. CASE ClientTimeout(c) \/ ClientStop(c)
    BY <1>2, <2>2 DEF ClientTimeout, ClientStop, ClientState
  <2>3. CASE ClientUnlock(c)
    BY <1>2, <2>3 DEF ClientUnlock, ClientState
  <2>4. CASE ClientDies(c)
    BY <1>2, <2>4 DEF ClientDies, ClientState
  <2> QED
    BY <2>1, <2>2, <2>3, <2>4 DEF ClientStep
<1>4. SameRequests
  BY <1>3 DEF SameRequests
<1>5. MessagesMatch'
  <2> DEFINE m == [cmd |-> "UNLOCK", key |-> c]
  <2>1. NetworkType' /\ NetworkType
    BY <1>1 DEF TypeInv, TypeOK, NetworkType
  <2>2. m \in Message /\ MessageMatches(m)
    BY DEF Message, ClientRequest, MessageMatches
  <2> HIDE DEF m
  <2>3. AllMatch(Append(inbox[Home[c]], m))
    BY <1>1, <1>2, <2>1, <2>2, WriteMatches DEF NetworkType, MessagesMatch, AllMatch
  <2>4. \A s \in Servers : inbox'[s] \in {inbox[s], Append(inbox[Home[c]], m)}
    BY <1>3, <2>1 DEF NetworkType, m
  <2>5. \A s \in Servers : AllMatch(inbox'[s]) /\ \A t \in Servers : AllMatch(link'[s][t])
    BY <1>1, <1>3, <2>3, <2>4 DEF MessagesMatch, AllMatch
  <2> QED
    BY <1>4, <2>1, <2>5, ConnectionsMatch
<1>6. NodesMatch'
  BY <1>1, <1>3, <1>4, RequestsType DEF NodesMatch, NodeMatches, MadeByClient, SameRequests
<1>7. AnswersMatch'
  BY <1>1, <1>3 DEF AnswersMatch, AnswerMatches
<1>8. Registered'
  BY DEF TypeInv
<1> QED
  BY <1>5, <1>6, <1>7, <1>8 DEF RequestsMatch

\* The daemon, message by message.
LEMMA HandleMessageMatches ==
    ASSUME MatchInv, TypeInv', NEW t \in Servers, HandleMessage(t) \/ OtherObject(t)
    PROVE  RequestsMatch'
<1> DEFINE m == Head(inbox[t])
<1>0. /\ TypeOK /\ Registered /\ NetworkType /\ MessagesMatch
      /\ node \in [Servers -> Node] /\ node[t] \in Node /\ NodeMatches(node[t])
      /\ now \in Nat
  BY DEF MatchInv, RequestsMatch, NodesMatch, TypeOK, NetworkType
<1>a. UNCHANGED client => SameRequests
  BY DEF SameRequests
<1>b. node'[t] \in Node
  BY DEF TypeInv, TypeOK
<1>c. inbox[t] # <<>> => MessageMatches(m)
  BY <1>0, ReadMatches DEF NetworkType, MessagesMatch, AllMatch
<1>d. \A x \in DaemonMessage : x.cmd # "LOCKENTERING" => MessageMatches(x)
  BY DEF DaemonMessage, EnteringMessage, KeyMessage, TicketMessage, MessageMatches
<1>e. \A r \in Requests : node[t].ticket[r] \in Ticket
  BY <1>0 DEF Node
<1>f. node[t].entering \in SUBSET Requests /\ node[t].tickets \in SUBSET (Nat \X Requests)
  BY <1>0 DEF Node
<1>g. ASSUME NEW r \in Requests, NEW tk \in Ticket,
             SameLock(tk, node[t].ticket[r]),
             node' = [node EXCEPT ![t].ticket[r] = tk],
             MessagesMatch', UNCHANGED <<client, toClient, now>>
      PROVE  RequestsMatch'
  <2> DEFINE fin == [node[t] EXCEPT !.ticket[r] = tk]
  <2>1. /\ fin.entering = node[t].entering /\ fin.tickets = node[t].tickets
        /\ \A q \in Requests : fin.ticket[q] = IF q = r THEN tk ELSE node[t].ticket[q]
        /\ fin \in Node
    BY <1>0 DEF Node
  <2>2. node' = [node EXCEPT ![t] = fin]
    BY <1>0, <1>g
  <2> HIDE DEF fin
  <2>3. NodeMatches(fin)
    BY <1>0, <1>g, <2>1, SubNodeMatches DEF SameLock
  <2>4. \A q \in Requests : fin.ticket[q].locked => node[t].ticket[q].locked
    BY <1>g, <2>1 DEF SameLock
  <2>5. MessagesMatch' /\ UNCHANGED <<client, toClient, now>>
    BY <1>g
  <2> QED
    BY <2>1, <2>2, <2>3, <2>4, <2>5, QuietStepMatches
<1>1. CASE HandleLock(t)
  <2> DEFINE e == [cmd |-> "LOCKENTERING", from |-> t, key |-> m.key,
                   service |-> m.service, timeout |-> m.timeout]
             r == <<m.key, m.service>>
             fin == Allocate(node[t], r, m.timeout)
  <2>1. /\ inbox[t] # <<>> /\ m.key \in Clients /\ m.cmd = "LOCK"
        /\ m.service \in 1 .. MaxLocks /\ m.timeout \in Nat
    BY <1>0, <1>1, ReceivedType DEF HandleLock
  <2>2. e \in DaemonMessage /\ r \in Requests
    BY <2>1 DEF DaemonMessage, EnteringMessage, Requests
  <2>3. MadeByClient(r, m.timeout) /\ MessageMatches(e)
    BY <1>c, <2>1 DEF MessageMatches
  <2>4. /\ fin \in Node /\ NodeMatches(fin)
        /\ \A q \in Requests : fin.ticket[q].locked => node[t].ticket[q].locked
    BY <1>0, <2>1, <2>2, <2>3, AllocateType, AllocateMatches
  <2>5. /\ \/ SendNothing(t) /\ node' = [node EXCEPT ![t] = node[t]]
           \/ Broadcast(t, e) /\ node' = [node EXCEPT ![t] = fin]
        /\ UNCHANGED <<client, toClient, now>>
    BY <1>0, <1>1 DEF HandleLock
  <2> HIDE DEF m, e, r, fin
  <2>6. MessagesMatch'
    BY <1>0, <1>a, <2>1, <2>2, <2>3, <2>5, SendNothingMatches, BroadcastMatches
  <2> QED
    BY <1>0, <2>4, <2>5, <2>6, QuietStepMatches
<1>2. CASE HandleUnlock(t)
  <2> DEFINE own   == {u \in node[t].tickets : Key(u[2]) = m.key}
             first == {u \in own : \A v \in own : v = u \/ Before(u, v)}
             d(u)  == [cmd |-> "DROPTICKET", from |-> t, key |-> m.key,
                       id |-> IF node[t].ticket[u[2]].added_ticket
                              THEN node[t].ticket[u[2]].our_ticket ELSE 0]
  <2>1. inbox[t] # <<>> /\ m.key \in Clients
    BY <1>0, <1>2, ReceivedType DEF HandleUnlock
  <2>2. ASSUME NEW u \in first PROVE d(u) \in DaemonMessage /\ MessageMatches(d(u))
    <3>1. node[t].ticket[u[2]].our_ticket \in Nat
      BY <1>e, <1>f DEF Ticket
    <3>2. d(u) \in DaemonMessage
      BY <2>1, <3>1 DEF DaemonMessage, TicketMessage
    <3>3. d(u).cmd # "LOCKENTERING"
      OBVIOUS
    <3> QED
      BY <1>d, <3>2, <3>3
  <2>3. /\ SendNothing(t) \/ \E u \in first : Broadcast(t, d(u))
        /\ node' = [node EXCEPT ![t] = node[t]]
        /\ UNCHANGED <<client, toClient, now>>
    BY <1>0, <1>2 DEF HandleUnlock
  <2> HIDE DEF m, first, d
  <2>4. MessagesMatch'
    BY <1>0, <1>a, <2>1, <2>2, <2>3, SendNothingMatches, BroadcastMatches
  <2> QED
    BY <1>0, <2>3, <2>4, QuietStepMatches
<1>3. CASE LockEntering(t)
  <2> DEFINE fresh     == m.timeout > now
             r         == <<m.key, m.service>>
             allocated == IF fresh /\ Entering(node[t], m.key) = {}
                          THEN Allocate(node[t], r, m.timeout)
                          ELSE node[t]
             cleaned   == Cleanup(allocated, t, now)
             e         == [cmd |-> "LOCKENTERED", from |-> t, key |-> m.key]
  <2>1. /\ inbox[t] # <<>> /\ m.key \in Clients /\ m.from \in Servers
        /\ m.service \in 1 .. MaxLocks /\ m.timeout \in Nat /\ m.cmd = "LOCKENTERING"
    BY <1>0, <1>3, ReceivedType DEF LockEntering
  <2>2. e \in DaemonMessage /\ e.cmd # "LOCKENTERING" /\ r \in Requests
    BY <2>1 DEF DaemonMessage, KeyMessage, Requests
  <2>3. MadeByClient(r, m.timeout)
    BY <1>c, <2>1 DEF MessageMatches
  <2>4. /\ SendTo(t, m.from, e) \/ SendNothing(t)
        /\ node' = [node EXCEPT ![t] = cleaned]
        /\ toClient' = Notify(t, allocated, cleaned)
        /\ UNCHANGED <<client, now>>
    BY <1>3 DEF LockEntering
  <2>5. allocated \in {Allocate(node[t], r, m.timeout), node[t]}
    OBVIOUS
  <2> HIDE DEF m, r, e, allocated
  <2>6. /\ allocated \in Node /\ NodeMatches(allocated)
        /\ \A q \in Requests : allocated.ticket[q].locked => node[t].ticket[q].locked
    BY <1>0, <2>1, <2>2, <2>3, <2>5, AllocateType, AllocateMatches
  <2>7. cleaned \in Node /\ Evolves(allocated, cleaned, now)
    BY <1>0, <2>6, CleanupType, CleanupEvolves
  <2> HIDE DEF cleaned
  <2>8. MessagesMatch'
    BY <1>0, <1>a, <1>d, <2>1, <2>2, <2>4, SendNothingMatches, SendToMatches
  <2> QED
    BY <1>0, <2>4, <2>6, <2>7, <2>8, NotifyStepMatches
<1>4. CASE LockEntered(t)
  <2> DEFINE new(r) == Entered(node[t].ticket[r], quorum(t))
             e      == [cmd |-> "GETMAXTICKET", from |-> t, key |-> m.key]
  <2>1. inbox[t] # <<>> /\ m.key \in Clients
    BY <1>0, <1>4, ReceivedType DEF LockEntered
  <2>2. e \in DaemonMessage /\ e.cmd # "LOCKENTERING"
    BY <2>1 DEF DaemonMessage, KeyMessage
  <2>3. \A r \in Requests : new(r) \in Ticket /\ SameLock(new(r), node[t].ticket[r])
    BY <1>0, <1>e, EnteredType, QuorumType, EnteredKeeps
  <2>4. /\ SendNothing(t) \/ Broadcast(t, e)
        /\ \/ node' = [node EXCEPT ![t] = node[t]]
           \/ \E r \in Entering(node[t], m.key) : node' = [node EXCEPT ![t].ticket[r] = new(r)]
        /\ UNCHANGED <<client, toClient, now>>
    BY <1>0, <1>4 DEF LockEntered
  <2>5. Entering(node[t], m.key) \subseteq Requests
    BY <1>f DEF Entering
  <2> HIDE DEF m, new, e
  <2>6. MessagesMatch'
    BY <1>0, <1>a, <1>d, <2>1, <2>2, <2>4, SendNothingMatches, BroadcastMatches
  <2>7. CASE node' = [node EXCEPT ![t] = node[t]]
    BY <1>0, <2>4, <2>6, <2>7, QuietStepMatches
  <2>8. CASE \E r \in Entering(node[t], m.key) : node' = [node EXCEPT ![t].ticket[r] = new(r)]
    BY <1>g, <2>3, <2>4, <2>5, <2>6, <2>8
  <2> QED
    BY <2>4, <2>7, <2>8
<1>5. CASE GetMaxTicket(t)
  <2> DEFINE cleaned == Cleanup(node[t], t, now)
             e(n)    == [cmd |-> "MAXTICKET", from |-> t, key |-> m.key, id |-> n]
  <2>1. inbox[t] # <<>> /\ m.key \in Clients /\ m.from \in Servers
    BY <1>0, <1>5, ReceivedType DEF GetMaxTicket
  <2>2. cleaned \in Node /\ Evolves(node[t], cleaned, now)
    BY <1>0, CleanupType, CleanupEvolves
  <2>3. \A n \in LastTicket(cleaned) : e(n) \in DaemonMessage /\ e(n).cmd # "LOCKENTERING"
    BY <2>1, <2>2, LastTicketType DEF DaemonMessage, TicketMessage
  <2>4. /\ \E n \in LastTicket(cleaned) : SendTo(t, m.from, e(n))
        /\ node' = [node EXCEPT ![t] = cleaned]
        /\ toClient' = Notify(t, node[t], cleaned)
        /\ UNCHANGED <<client, now>>
    BY <1>5 DEF GetMaxTicket
  <2> HIDE DEF m, cleaned, e
  <2>5. MessagesMatch'
    BY <1>0, <1>a, <1>d, <2>1, <2>3, <2>4, SendToMatches
  <2> QED
    BY <1>0, <2>2, <2>4, <2>5, NotifyStepMatches
<1>6. CASE MaxTicket(t)
  <2> DEFINE new(r) == MaxTicketReceived(node[t].ticket[r], m.id, quorum(t))
             e(r)   == [cmd |-> "ADDTICKET", from |-> t, key |-> m.key, id |-> new(r).our_ticket]
  <2>1. inbox[t] # <<>> /\ m.key \in Clients /\ m.id \in Nat
    BY <1>0, <1>6, ReceivedType DEF MaxTicket
  <2>2. \A r \in Requests : new(r) \in Ticket /\ SameLock(new(r), node[t].ticket[r])
    BY <1>0, <1>e, <2>1, MaxTicketReceivedType, QuorumType, MaxTicketReceivedKeeps
  <2>3. ASSUME NEW r \in Requests PROVE e(r) \in DaemonMessage /\ e(r).cmd # "LOCKENTERING"
    <3>1. new(r).our_ticket \in Nat
      BY <2>2 DEF Ticket
    <3> HIDE DEF new
    <3> QED
      BY <2>1, <3>1 DEF DaemonMessage, TicketMessage
  <2>4. /\ \/ SendNothing(t) /\ node' = [node EXCEPT ![t] = node[t]]
           \/ \E r \in Entering(node[t], m.key) :
                 /\ SendNothing(t) \/ Broadcast(t, e(r))
                 /\ node' = [node EXCEPT ![t].ticket[r] = new(r)]
        /\ UNCHANGED <<client, toClient, now>>
    BY <1>0, <1>6 DEF MaxTicket
  <2>5. Entering(node[t], m.key) \subseteq Requests
    BY <1>f DEF Entering
  <2> HIDE DEF m, new, e
  <2>6. MessagesMatch'
    BY <1>0, <1>a, <1>d, <2>1, <2>3, <2>4, <2>5, SendNothingMatches, BroadcastMatches
  <2>7. CASE node' = [node EXCEPT ![t] = node[t]]
    BY <1>0, <2>4, <2>6, <2>7, QuietStepMatches
  <2>8. CASE \E r \in Entering(node[t], m.key) : node' = [node EXCEPT ![t].ticket[r] = new(r)]
    BY <1>g, <2>2, <2>4, <2>5, <2>6, <2>8
  <2> QED
    BY <2>4, <2>7, <2>8
<1>7. CASE AddTicket(t)
  <2> DEFINE e     == [cmd |-> "TICKETADDED", from |-> t, key |-> m.key, id |-> m.id]
             nd(r) == [node[t] EXCEPT !.tickets =
                          (@ \ TicketsAt(node[t], m.id, m.key)) \cup {<<m.id, r>>}]
  <2>1. inbox[t] # <<>> /\ m.key \in Clients /\ m.from \in Servers /\ m.id \in Nat
    BY <1>0, <1>7, ReceivedType DEF AddTicket
  <2>2. e \in DaemonMessage /\ e.cmd # "LOCKENTERING"
    BY <2>1 DEF DaemonMessage, TicketMessage
  <2>3. /\ SendTo(t, m.from, e)
        /\ \E r \in Entering(node[t], m.key) : node' = [node EXCEPT ![t] = nd(r)]
        /\ UNCHANGED <<client, toClient, now>>
    BY <1>7 DEF AddTicket
  <2>4. PICK r \in Entering(node[t], m.key) : node' = [node EXCEPT ![t] = nd(r)]
    BY <2>3
  <2>5. r \in node[t].entering /\ r \in Requests
    BY <1>f DEF Entering
  <2>6. /\ nd(r).entering = node[t].entering /\ nd(r).ticket = node[t].ticket
        /\ nd(r).tickets \subseteq node[t].tickets \cup {<<m.id, r>>}
    BY <1>0 DEF Node
  <2> HIDE DEF m, nd, e
  <2>7. nd(r) \in Node
    BY <1>0, <1>b, <2>4
  <2>8. NodeMatches(nd(r))
    BY <1>0, <2>5, <2>6, SubNodeMatches
  <2>9. MessagesMatch'
    BY <1>0, <1>a, <1>d, <2>1, <2>2, <2>3, SendToMatches
  <2> QED
    BY <1>0, <2>3, <2>4, <2>6, <2>7, <2>8, <2>9, QuietStepMatches
<1>8. CASE AddTicketThrows(t)
  <2>1. /\ inbox[t] # <<>> /\ SendNothing(t)
        /\ node' = [node EXCEPT ![t] = node[t]]
        /\ UNCHANGED <<client, toClient, now>>
    BY <1>0, <1>8 DEF AddTicketThrows, Receives
  <2>2. MessagesMatch'
    BY <1>0, <1>a, <2>1, SendNothingMatches
  <2> QED
    BY <1>0, <2>1, <2>2, QuietStepMatches
<1>9. CASE TicketAdded(t)
  <2> DEFINE found  == TicketsAt(node[t], m.id, m.key)
             new(u) == TicketAddedReceived(node[t].ticket[u[2]], node[t].entering, quorum(t))
             e      == [cmd |-> "LOCKEXITING", from |-> t, key |-> m.key]
  <2>1. inbox[t] # <<>> /\ m.key \in Clients
    BY <1>0, <1>9, ReceivedType DEF TicketAdded
  <2>2. e \in DaemonMessage /\ e.cmd # "LOCKENTERING"
    BY <2>1 DEF DaemonMessage, KeyMessage
  <2>3. \A u \in found : u[2] \in Requests
    BY <1>f DEF TicketsAt
  <2>4. \A u \in found : new(u) \in Ticket /\ SameLock(new(u), node[t].ticket[u[2]])
    BY <1>0, <1>e, <1>f, <2>3, TicketAddedReceivedType, QuorumType, TicketAddedReceivedKeeps
  <2>5. /\ SendNothing(t) \/ Broadcast(t, e)
        /\ \/ node' = [node EXCEPT ![t] = node[t]]
           \/ \E u \in found : node' = [node EXCEPT ![t].ticket[u[2]] = new(u)]
        /\ UNCHANGED <<client, toClient, now>>
    BY <1>0, <1>9 DEF TicketAdded
  <2> HIDE DEF m, found, new, e
  <2>6. MessagesMatch'
    BY <1>0, <1>a, <1>d, <2>1, <2>2, <2>5, SendNothingMatches, BroadcastMatches
  <2>7. CASE node' = [node EXCEPT ![t] = node[t]]
    BY <1>0, <2>5, <2>6, <2>7, QuietStepMatches
  <2>8. CASE \E u \in found : node' = [node EXCEPT ![t].ticket[u[2]] = new(u)]
    BY <1>g, <2>3, <2>4, <2>5, <2>6, <2>8
  <2> QED
    BY <2>5, <2>7, <2>8
<1>10. CASE LockExiting(t)
  <2> DEFINE removed(r) == RemoveEntering(node[t], node[t].ticket[r], m.key, now)
             exited     == [node[t] EXCEPT
                              !.entering = @ \ Entering(node[t], m.key),
                              !.ticket   = [r \in Requests |->
                                  IF \E u \in node[t].tickets : u[2] = r
                                  THEN RemoveEntering(node[t], node[t].ticket[r], m.key, now)
                                  ELSE node[t].ticket[r]]]
             activated  == ActivateFirstLock(exited, t, now)
  <2>1. /\ inbox[t] # <<>> /\ SendNothing(t)
        /\ \/ node' = [node EXCEPT ![t] = node[t]] /\ UNCHANGED toClient
           \/ /\ node' = [node EXCEPT ![t] = activated]
              /\ toClient' = Notify(t, exited, activated)
        /\ UNCHANGED <<client, now>>
    BY <1>0, <1>10 DEF LockExiting, Receives
  <2>2. \A r \in Requests : removed(r) \in Ticket /\ SameLock(removed(r), node[t].ticket[r])
    BY <1>0, <1>e, RemoveEnteringType, RemoveEnteringKeeps
  <2>3. /\ exited.entering \subseteq node[t].entering
        /\ exited.tickets = node[t].tickets
        /\ \A r \in Requests : exited.ticket[r] \in {removed(r), node[t].ticket[r]}
    BY <1>0 DEF Node
  <2>4. exited \in Node
    BY <1>0, <1>e, <2>2 DEF Node
  <2> HIDE DEF m, removed, exited
  <2>5. /\ NodeMatches(exited)
        /\ \A r \in Requests : exited.ticket[r].locked => node[t].ticket[r].locked
    BY <1>0, <2>2, <2>3, SubNodeMatches DEF SameLock
  <2>6. activated \in Node /\ Evolves(exited, activated, now)
    BY <1>0, <2>4, ActivateFirstLockType, ActivateFirstLockEvolves
  <2> HIDE DEF activated
  <2>7. MessagesMatch'
    BY <1>0, <1>a, <2>1, SendNothingMatches
  <2>8. CASE node' = [node EXCEPT ![t] = node[t]] /\ UNCHANGED toClient
    BY <1>0, <2>1, <2>7, <2>8, QuietStepMatches
  <2>9. CASE node' = [node EXCEPT ![t] = activated] /\ toClient' = Notify(t, exited, activated)
    BY <1>0, <2>1, <2>4, <2>5, <2>6, <2>7, <2>9, NotifyStepMatches
  <2> QED
    BY <2>1, <2>8, <2>9
<1>11. CASE DropTicket(t)
  <2> DEFINE dropped   == [node[t] EXCEPT !.tickets = @ \ TicketsAt(node[t], m.id, m.key)]
             activated == IF m.id = 0 THEN node[t] ELSE ActivateFirstLock(dropped, t, now)
             new       == [activated EXCEPT !.entering = @ \ Entering(node[t], m.key)]
  <2>1. /\ inbox[t] # <<>> /\ SendNothing(t)
        /\ node' = [node EXCEPT ![t] = new]
        /\ toClient' = Notify(t, node[t], activated)
        /\ UNCHANGED <<client, now>>
    BY <1>11 DEF DropTicket, Receives
  <2>2. /\ dropped \in Node /\ dropped.tickets \subseteq node[t].tickets
        /\ dropped.entering = node[t].entering /\ dropped.ticket = node[t].ticket
    BY <1>0 DEF Node
  <2>3. activated \in {node[t], ActivateFirstLock(dropped, t, now)}
    OBVIOUS
  <2> HIDE DEF m, dropped, activated
  <2>4. /\ ActivateFirstLock(dropped, t, now) \in Node
        /\ Evolves(dropped, ActivateFirstLock(dropped, t, now), now)
    BY <1>0, <2>2, ActivateFirstLockType, ActivateFirstLockEvolves
  <2>5. Evolves(node[t], ActivateFirstLock(dropped, t, now), now)
    BY <2>2, <2>4 DEF Evolves
  <2>6. Evolves(node[t], node[t], now)
    BY DEF Evolves
  <2>7. activated \in Node /\ Evolves(node[t], activated, now)
    BY <1>0, <2>3, <2>4, <2>5, <2>6
  <2>8. /\ new.ticket = activated.ticket /\ new.tickets = activated.tickets
        /\ new.entering \subseteq activated.entering /\ new \in Node
    BY <2>7 DEF Node
  <2> HIDE DEF new
  <2>9. MessagesMatch'
    BY <1>0, <1>a, <2>1, SendNothingMatches
  <2> QED
    BY <1>0, <2>1, <2>7, <2>8, <2>9, NotifyStepMatches
<1>12. CASE OtherObject(t)
  <2> DEFINE cleaned == Cleanup(node[t], t, now)
  <2>1. /\ node' = [node EXCEPT ![t] = cleaned]
        /\ toClient' = Notify(t, node[t], cleaned)
        /\ UNCHANGED <<inbox, link, client, now>>
    BY <1>12 DEF OtherObject
  <2>2. cleaned \in Node /\ Evolves(node[t], cleaned, now)
    BY <1>0, CleanupType, CleanupEvolves
  <2> HIDE DEF cleaned
  <2>3. MessagesMatch'
    BY <1>0, <2>1 DEF MessagesMatch, MessageMatches, MadeByClient
  <2> QED
    BY <1>0, <2>1, <2>2, <2>3, NotifyStepMatches
<1> QED
  BY <1>1, <1>2, <1>3, <1>4, <1>5, <1>6, <1>7, <1>8, <1>9, <1>10, <1>11, <1>12
     DEF HandleMessage

\* snapcommunicator moves a message from one connection to another.
LEMMA ForwardMatches ==
    ASSUME MatchInv, TypeInv', NEW s \in Servers, NEW t \in Servers, Forward(s, t)
    PROVE  RequestsMatch'
<1>1. NetworkType /\ NetworkType'
  BY DEF MatchInv, TypeInv, TypeOK, NetworkType
<1>2. /\ \A u \in Servers : AllMatch(inbox[u]) /\ inbox[u] \in Seq(Message)
      /\ \A u, v \in Servers : AllMatch(link[u][v]) /\ link[u][v] \in Seq(DaemonMessage)
  BY <1>1 DEF MatchInv, RequestsMatch, NetworkType, MessagesMatch, AllMatch
<1>3. link[s][t] # <<>>
  BY DEF Forward
<1>4. /\ AllMatch(Tail(link[s][t])) /\ MessageMatches(Head(link[s][t]))
      /\ Head(link[s][t]) \in Message
  BY <1>2, <1>3, ReadMatches DEF Message
<1>5. AllMatch(Append(inbox[t], Head(link[s][t])))
  BY <1>2, <1>4, WriteMatches
<1>6. \A u \in Servers :
          /\ inbox'[u] \in {inbox[u], Append(inbox[t], Head(link[s][t]))}
          /\ \A v \in Servers : link'[u][v] \in {link[u][v], Tail(link[s][t])}
  BY <1>1 DEF Forward, NetworkType
<1>7. \A u \in Servers : AllMatch(inbox'[u]) /\ \A v \in Servers : AllMatch(link'[u][v])
  BY <1>2, <1>4, <1>5, <1>6
<1>8. UNCHANGED <<node, client, toClient, now>>
  BY DEF Forward
<1>9. MessagesMatch'
  BY <1>1, <1>7, <1>8, ConnectionsMatch DEF SameRequests
<1> QED
  BY <1>8, <1>9 DEF MatchInv, RequestsMatch, Registered, Connected, NodesMatch, NodeMatches,
                    MadeByClient, AnswersMatch, AnswerMatches

LEMMA MatchNext == MatchInv /\ [Next]_vars => MatchInv'
<1> SUFFICES ASSUME MatchInv, [Next]_vars PROVE MatchInv'
  OBVIOUS
<1>0. TypeInv' /\ TypeOK'
  BY TypeNext DEF MatchInv, RequestsMatch, TypeInv
<1> SUFFICES RequestsMatch'
  BY <1>0 DEF MatchInv
<1>1. CASE \E c \in Clients : ClientLock(c) \/ ClientStep(c) \/ ClientStop(c) \/ ClientDies(c)
  BY <1>0, <1>1, ClientLockMatches, ClientEndsMatches
<1>2. CASE \E t \in Servers : HandleMessage(t) \/ OtherObject(t)
  BY <1>0, <1>2, HandleMessageMatches
<1>3. CASE \E s, t \in Servers : Forward(s, t)
  BY <1>0, <1>3, ForwardMatches
<1>4. CASE Tick
  <2>1. now' = now + 1 /\ UNCHANGED <<node, inbox, link, client, toClient>>
    BY <1>4 DEF Tick
  <2>2. now \in Nat /\ \A c \in Clients : client[c].deadline \in Nat
    BY DEF MatchInv, TypeOK, ClientState
  <2>3. \A c \in Clients : now' < client[c].deadline => now < client[c].deadline
    BY <2>1, <2>2
  <2>4. AnswersMatch'
    <3> SUFFICES ASSUME NEW c \in Clients
                 PROVE  AnswerMatches(c, node[Home[c]].ticket[<<c, client[c].service>>], toClient[c])'
      BY <2>1 DEF AnswersMatch
    <3>1. AnswerMatches(c, node[Home[c]].ticket[<<c, client[c].service>>], toClient[c])
      BY DEF MatchInv, RequestsMatch, AnswersMatch
    <3> QED
      BY <2>1, <2>3, <3>1 DEF AnswerMatches
  <2>5. MessagesMatch'
    BY <2>1 DEF MatchInv, RequestsMatch, MessagesMatch, MessageMatches, MadeByClient
  <2>6. NodesMatch'
    BY <2>1 DEF MatchInv, RequestsMatch, NodesMatch, NodeMatches, MadeByClient
  <2>7. Registered'
    BY <1>0 DEF TypeInv
  <2> QED
    BY <2>4, <2>5, <2>6, <2>7 DEF RequestsMatch
<1>5. CASE UNCHANGED vars
  BY <1>5 DEF vars, MatchInv, RequestsMatch, Registered, Connected, MessagesMatch,
              MessageMatches, NodesMatch, NodeMatches, MadeByClient, AnswersMatch, AnswerMatches
<1> QED
  BY <1>1, <1>2, <1>3, <1>4, <1>5 DEF Next

\* RequestsMatch is an invariant.
THEOREM RequestsAlwaysMatch == Spec => []RequestsMatch
<1>1. MatchInv => RequestsMatch
  BY DEF MatchInv
<1> QED
  BY <1>1, MatchInit, MatchNext, PTL DEF Spec

\* What a client reads while it waits for a lock is LOCKED: the UNLOCKED that makes
\* lock_connection::process_message() throw never comes first, and no LOCKFAILED
\* comes before the client's own deadline, however many daemons, clients, retries
\* and delays there are.
THEOREM OnlyLockedIsReadAlways == Spec => []OnlyLockedIsRead
<1>1. MatchInv => OnlyLockedIsRead
  BY DEF MatchInv, RequestsMatch, AnswersMatch, AnswerMatches, OnlyLockedIsRead, CanRead
<1> QED
  BY <1>1, MatchInit, MatchNext, PTL DEF Spec

=============================================================================
