--------------------- MODULE SnapLockRingCompleteProofs ---------------------
(***************************************************************************)
(* The ring of the snaplocks becomes complete (RingComplete of             *)
(* SnapLockRing):                                                          *)
(*   RingIsComplete  RingSpec => []RingComplete                            *)
(* The inductive invariant OrderlyRing has three layers.  Counted: as many *)
(* snapcommunicators run as were started, or one ended.  While none did,   *)
(* Links, NoDisconnect and Joined: each pair of computers has one link     *)
(* with nothing but the LOCKREADY messages of its two ends on it.  Then    *)
(* Know: of two registered snaplocks c and d, c counts d, or has a         *)
(* LOCKREADY of d to read, or d has one of c to read and will answer it.   *)
(***************************************************************************)
EXTENDS SnapLockRingProofs, FiniteSetTheorems

\* The computers whose snapcommunicator runs.
Running == {x \in Computers : running[x]}

\* No snapcommunicator ended so far: as many run as were started.
Counted == starts >= Cardinality(Running)
Calm    == starts = Cardinality(Running)

\* No snaplock was started twice.
Once == \A x \in Computers : lockStarts[x] <= 1

\* The steps but those that end a snapcommunicator leave `running` alone, or
\* start one.
LEMMA RunningSteps ==
    ASSUME RingNext
    PROVE  \/ \E c \in Computers : Start(c) \/ StartCut(c) \/ Quits(c)
           \/ UNCHANGED <<running, starts>>
<1>1. ASSUME NEW c \in Computers, NEW d \in Computers,
             Connect(c, d) \/ ProcessAccept(c, d) \/ Hangs(c, d) \/ Detect(c, d)
      PROVE  UNCHANGED <<running, starts>>
  BY <1>1, Zenon DEF Connect, ProcessAccept, Hangs, ProcessRefuse, ProcessRemoteDisconnect, ProcessRemoteHup,
                     ProcessReceived, Detect
<1>2. ASSUME NEW c \in Computers, NEW d \in Computers, NEW i,
             ProcessConnect(d, c, i) \/ ProcessGossip(d, c, i) \/ ProcessDisconnect(d, c, i) \/ ProcessHup(d, c, i)
      PROVE  UNCHANGED <<running, starts>>
  BY <1>2, Zenon DEF ProcessConnect, ProcessGossip, ProcessDisconnect, ProcessHup
<1>3. ASSUME NEW c \in Computers, NEW d \in Computers, NEW i, ForwardDown(c, d) \/ ForwardUp(d, c, i)
      PROVE  UNCHANGED <<running, starts>>
  BY <1>3, Zenon DEF ForwardDown, ForwardUp
<1>4. ASSUME NEW c \in Computers, Register(c) \/ LockStop(c) \/ LockStep(c)
      PROVE  UNCHANGED <<running, starts>>
  BY <1>4, Zenon DEF Register, LockStop, LockStep, lockready, lockgone, interpret_status, linkVars
<1> QED BY <1>1, <1>2, <1>3, <1>4, Steps, Zenon

\* While nothing ended, nothing ended before.
LEMMA Counts ==
    ASSUME TypeOK, Counted, [RingNext]_vars
    PROVE  Counted' /\ (Calm' => Calm /\ \A x \in Computers : ~Quits(x))
<1>1. IsFiniteSet(Running) /\ Cardinality(Running) \in Nat
  BY FiniteAssumption, FS_Subset, FS_CardinalityType DEF Running
<1>2. CASE UNCHANGED <<running, starts>>
  <2>1. Running' = Running
    BY <1>2 DEF Running
  <2>2. ASSUME NEW x \in Computers, Quits(x) PROVE FALSE
    <3>1. running[x] /\ running' = [running EXCEPT ![x] = FALSE]
      BY <2>2, QuitsEffect
    <3> QED BY <1>2, <3>1 DEF TypeOK
  <2> QED BY <1>2, <2>1, <2>2 DEF Counted, Calm
<1>3. ASSUME NEW c \in Computers, Start(c)
      PROVE  Counted' /\ (Calm' => Calm /\ \A x \in Computers : ~Quits(x))
  <2>1. ~running[c] /\ running' = [running EXCEPT ![c] = TRUE] /\ starts' = starts + 1
    BY <1>3 DEF Start
  <2>2. Running' = Running \cup {c} /\ c \notin Running
    BY <2>1 DEF Running, TypeOK
  <2>3. Cardinality(Running') = Cardinality(Running) + 1
    BY <1>1, <2>2, FS_AddElement
  <2>4. ASSUME NEW x \in Computers, Quits(x) PROVE FALSE
    <3>1. UNCHANGED starts
      BY <2>4, QuitsEffect
    <3> QED BY <2>1, <3>1 DEF TypeOK
  <2> QED BY <1>1, <2>1, <2>3, <2>4 DEF Counted, Calm, TypeOK
<1>4. ASSUME NEW c \in Computers, StartCut(c)
      PROVE  Counted' /\ ~Calm'
  <2>1. running' = running /\ starts' = starts + 1
    BY <1>4, StartCutEffect
  <2>2. Running' = Running
    BY <2>1 DEF Running
  <2> QED BY <1>1, <2>1, <2>2 DEF Counted, Calm, TypeOK
<1>5. ASSUME NEW x \in Computers, Quits(x)
      PROVE  Counted' /\ ~Calm'
  <2>1. running[x] /\ running' = [running EXCEPT ![x] = FALSE] /\ starts' = starts
    BY <1>5, QuitsEffect
  <2>2. Running' = Running \ {x} /\ x \in Running
    BY <2>1 DEF Running, TypeOK
  <2>3. Cardinality(Running') = Cardinality(Running) - 1
    BY <1>1, <2>2, FS_RemoveElement
  <2> QED BY <1>1, <2>1, <2>3 DEF Counted, Calm, TypeOK
<1>6. CASE UNCHANGED vars
  BY <1>2, <1>6 DEF vars, linkVars
<1> QED BY <1>2, <1>3, <1>4, <1>5, <1>6, RunningSteps

\* Nothing was started at first.
LEMMA CountInit == ASSUME RingInit PROVE Counted /\ starts \in Nat
<1>1. Running = {} /\ starts = 0
  BY DEF RingInit, Init, Running
<1> QED BY <1>1, FS_EmptySet DEF Counted

-----------------------------------------------------------------------------
(* The links between two computers while nothing ended.                    *)

\* The queue q holds the one message w, or nothing but LOCKREADY messages of who.
Says(q, w)      == Len(q) = 1 /\ q[1] = Message(w)
Readies(q, who) == \A k \in DOMAIN q : q[k] = LockReady(who, Computers)

\* The CONNECT, or the answer to it, is on its way.
Shaking(s, r) ==
    /\ Len(s) = 1
    /\ s[1].open
    /\ \/ Says(s[1].in, "CONNECT") /\ Len(r) = 0
       \/ Len(s[1].in) = 0 /\ Says(r, "ACCEPT")
       \/ Len(s[1].in) = 0 /\ Says(r, "REFUSE")

\* The link is up; there is nothing on it but the LOCKREADY of its two ends, which
\* name every computer as informed.
Established(u, l, s, r) ==
    /\ Len(s) = 1
    /\ s[1].open
    /\ Readies(s[1].in, u)
    /\ Readies(r, l)

\* The permanent connection o of u to the smaller l, the connections s that l
\* accepted from u, and the answers r to u.
LinkOK(u, l, o, s, r) ==
    /\ o \in {"none", "waiting"} => Len(s) = 0 /\ Len(r) = 0
    /\ o = "connected" => Shaking(s, r)
    /\ o = "accepted" => Established(u, l, s, r)
    /\ o = "idle" => \A i \in DOMAIN s : \A k \in DOMAIN s[i].in : s[i].in[k] = EOF

Links == \A u, l \in Computers : l < u => LinkOK(u, l, object[u][l], accepted[l][u], replies[u][l])

\* The gossip of a smaller computer to a larger one never gets a DISCONNECT.
NoDisconnect == \A u, l \in Computers : l < u => \A k \in DOMAIN replies[l][u] : replies[l][u][k].cmd # "DISCONNECT"

\* A snaplock is registered when the links of its computer are up, and a gossip that
\* comes later is behind the link in f_connections.
Joined == \A u, l \in Computers : l < u /\ (registered[u] \/ registered[l]) =>
             /\ object[u][l] = "accepted"
             /\ \A i \in DOMAIN accepted[u][l] : ~accepted[u][l][i].first

\* There are no links at first.
LEMMA LinksInit == RingInit => Links /\ NoDisconnect /\ Joined
<1> SUFFICES ASSUME RingInit PROVE Links /\ NoDisconnect /\ Joined
  OBVIOUS
<1>1. \A c, d \in Computers : object[c][d] = "none" /\ accepted[c][d] = <<>> /\ replies[c][d] = <<>> /\ ~registered[c]
  BY DEF RingInit, Init
<1>2. Len(<<>>) = 0
  OBVIOUS
<1> QED BY <1>1, <1>2 DEF Links, NoDisconnect, Joined, LinkOK

\* What d may read of a message from c, on connection i.
LEMMA MayRead ==
    ASSUME TypeOK, Pairs, Links, NEW d \in Computers, NEW c \in Computers, NEW i, NEW w, Reads(d, c, i, w)
    PROVE  /\ d < c => \/ object[c][d] = "connected" /\ i = 1 /\ w = "CONNECT"
                       \/ object[c][d] = "accepted" /\ i = 1 /\ w = "LOCKREADY"
                       \/ object[c][d] = "idle" /\ w = "EOF"
           /\ c < d => w \in {"GOSSIP", "EOF"}
           /\ c # d
<1> DEFINE s == accepted[d][c]
           q == s[i].in
<1>1. /\ c # d /\ i \in DOMAIN s /\ q \in Seq(MessageType) /\ q # <<>> /\ q[1].cmd = w
  BY ReadsFacts
<1>2. 1 \in DOMAIN q /\ Len(q) # 0
  BY <1>1
<1>3. s \in Seq(ServiceType) /\ DOMAIN s = 1 .. Len(s) /\ Len(s) \in Nat
  BY TypeFacts
<1>4. ASSUME c < d PROVE w \in {"GOSSIP", "EOF"}
  BY <1>1, <1>2, <1>4 DEF Pairs, PairOK, Gossiping
<1>5. ASSUME d < c
      PROVE  \/ object[c][d] = "connected" /\ i = 1 /\ w = "CONNECT"
             \/ object[c][d] = "accepted" /\ i = 1 /\ w = "LOCKREADY"
             \/ object[c][d] = "idle" /\ w = "EOF"
  <2> DEFINE o == object[c][d]
             r == replies[c][d]
  <2>1. LinkOK(c, d, o, s, r) /\ o \in ObjectState
    BY <1>5, TypeFacts DEF Links
  <2> HIDE DEF s, o, r
  <2>2. ~(o \in {"none", "waiting"})
    BY <1>1, <1>3, <2>1 DEF LinkOK
  <2>3. CASE o = "connected"
    <3>1. Shaking(s, r)
      BY <2>1, <2>3 DEF LinkOK
    <3>2. i = 1
      BY <1>1, <1>3, <3>1 DEF Shaking
    <3>3. q[1] = Message("CONNECT")
      BY <1>2, <3>1, <3>2 DEF Shaking, Says
    <3>4. w = "CONNECT"
      BY <1>1, <3>3, Words2 DEF Words
    <3> QED BY <2>3, <3>2, <3>4 DEF o
  <2>4. CASE o = "accepted"
    <3>1. Established(c, d, s, r)
      BY <2>1, <2>4 DEF LinkOK
    <3>2. i = 1
      BY <1>1, <1>3, <3>1 DEF Established
    <3>3. q[1] = LockReady(c, Computers)
      BY <1>2, <3>1, <3>2 DEF Established, Readies
    <3>4. w = "LOCKREADY"
      BY <1>1, <3>3 DEF LockReady
    <3> QED BY <2>4, <3>2, <3>4 DEF o
  <2>5. CASE o = "idle"
    <3>1. q[1] = EOF
      BY <1>1, <1>2, <2>1, <2>5 DEF LinkOK
    <3>2. w = "EOF"
      BY <1>1, <3>1, Words2
    <3> QED BY <2>5, <3>2 DEF o
  <2> QED BY <2>1, <2>2, <2>3, <2>4, <2>5 DEF ObjectState
<1> QED BY <1>1, <1>4, <1>5

\* What u may hear from the smaller l.
LEMMA MayHear ==
    ASSUME TypeOK, Links, NEW u \in Computers, NEW l \in Computers, l < u, NEW w, Hears(u, l, w)
    PROVE  \/ object[u][l] = "connected" /\ w \in {"ACCEPT", "REFUSE"} /\ Says(replies[u][l], w)
           \/ object[u][l] = "accepted" /\ w = "LOCKREADY"
<1> DEFINE r == replies[u][l]
           s == accepted[l][u]
           o == object[u][l]
<1>1. o \in {"connected", "accepted"} /\ r \in Seq(MessageType) /\ r # <<>> /\ 1 \in DOMAIN r /\ r[1].cmd = w
  BY HearsFacts
<1>2. LinkOK(u, l, o, s, r)
  BY DEF Links
<1>3. Len(r) # 0
  BY <1>1
<1> HIDE DEF r, s, o
<1>4. CASE o = "connected"
  <2>1. Says(r, "ACCEPT") \/ Says(r, "REFUSE")
    BY <1>2, <1>3, <1>4 DEF LinkOK, Shaking
  <2>2. r[1].cmd \in {"ACCEPT", "REFUSE"}
    BY <2>1, Words2 DEF Words, Says
  <2>3. Says(r, w)
    BY <1>1, <2>1, Words2 DEF Words, Says
  <2> QED BY <1>1, <1>4, <2>2, <2>3 DEF o, r
<1>5. CASE o = "accepted"
  <2>1. r[1] = LockReady(l, Computers)
    BY <1>1, <1>2, <1>5 DEF LinkOK, Established, Readies
  <2> QED BY <1>1, <1>5, <2>1 DEF o, LockReady
<1> QED BY <1>1, <1>4, <1>5

\* The messages on the links that are up are the same ones, and there is nothing on
\* a link that comes up.
SameTraffic(u, l) ==
    \/ object[u][l] # "accepted" /\ object'[u][l] # "accepted"
    \/ /\ object[u][l] = "accepted" /\ object'[u][l] = "accepted"
       /\ Len(replies'[u][l]) = Len(replies[u][l])
       /\ Len(accepted'[l][u][1].in) = Len(accepted[l][u][1].in)
    \/ /\ object[u][l] # "accepted" /\ object'[u][l] = "accepted"
       /\ Len(replies'[u][l]) = 0
       /\ Len(accepted'[l][u][1].in) = 0

Silent == \A u, l \in Computers : l < u => SameTraffic(u, l)

\* A permanent connection that is new waits.
LEMMA LinkSame ==
    ASSUME NEW u, NEW l, NEW o, NEW s, NEW r, NEW n, LinkOK(u, l, o, s, r),
           n = o \/ (o = "none" /\ n = "waiting")
    PROVE  LinkOK(u, l, n, s, r)
BY DEF LinkOK

\* A link that is up stays up, and no gossip gets in front of it.
LEMMA JoinedKept ==
    ASSUME Joined, \A x \in Computers : registered'[x] => registered[x],
           \A u, l \in Computers : l < u /\ object[u][l] = "accepted" =>
              /\ object'[u][l] = "accepted"
              /\ \A i \in DOMAIN accepted'[u][l] :
                    accepted'[u][l][i].first => \E j \in DOMAIN accepted[u][l] : accepted[u][l][j].first
    PROVE  Joined'
BY DEF Joined

\* add_remote_communicator() leaves the permanent connections that there are alone.
LEMMA ObjectsGrow ==
    ASSUME TypeOK, Known, NEW c \in Computers, NEW S \in SUBSET Computers,
           NEW objects \in [Computers -> ObjectState], objects[c] = "none",
           AddRemotes(c, S, objects),
           \A d \in Computers : objects[d] = "none" <=> object[c][d] = "none"
    PROVE  /\ \A d \in Computers : object'[c][d] = objects[d] \/ (objects[d] = "none" /\ object'[c][d] = "waiting")
           /\ \A x \in Computers \ {c} : object'[x] = object[x]
<1>1. /\ \A d \in Computers : object'[c][d] = IF d \in NewAddresses(c, S) THEN "waiting" ELSE objects[d]
      /\ \A x \in Computers \ {c} : object'[x] = object[x]
  BY AddRemotesType
<1>2. \A d \in NewAddresses(c, S) : d \in Computers /\ objects[d] = "none"
  BY DEF NewAddresses, Known
<1> QED BY <1>1, <1>2

\* init() only adds permanent connections that wait.
LEMMA LinksStart ==
    ASSUME TypeOK, Known, Links, NoDisconnect, Joined, NEW c \in Computers, Start(c)
    PROVE  Links' /\ NoDisconnect' /\ Joined' /\ Silent
<1>1. /\ UNCHANGED <<accepted, replies, registered>>
  BY DEF Start
<1> DEFINE S == neighbors[c].file \cup Explicit[c]
<1>2. /\ S \in SUBSET Computers /\ object[c] \in [Computers -> ObjectState] /\ object[c][c] = "none"
      /\ AddRemotes(c, S, object[c])
  BY StartEffect
<1> HIDE DEF S
<1>3. \A u, l \in Computers : object'[u][l] = object[u][l] \/ (object[u][l] = "none" /\ object'[u][l] = "waiting")
  BY <1>1, <1>2, ObjectsGrow
<1>4. Links'
  BY <1>1, <1>3, LinkSame DEF Links
<1>5. NoDisconnect'
  BY <1>1 DEF NoDisconnect
<1>6. Joined'
  BY <1>1, <1>3, JoinedKept
<1>7. Silent
  BY <1>1, <1>3 DEF Silent, SameTraffic
<1> QED BY <1>4, <1>5, <1>6, <1>7

\* init() that is cut changes neighbors.txt only.
LEMMA LinksStartCut ==
    ASSUME TypeOK, Links, NoDisconnect, Joined, NEW c \in Computers, StartCut(c)
    PROVE  Links' /\ NoDisconnect' /\ Joined'
<1>1. UNCHANGED <<object, accepted, replies, registered>>
  BY StartCutEffect
<1> QED BY <1>1 DEF Links, NoDisconnect, Joined

\* CONNECT, or GOSSIP, is the first message on a connection.
LEMMA LinksConnect ==
    ASSUME TypeOK, Links, NoDisconnect, Joined, NEW c \in Computers, NEW d \in Computers, Connect(c, d)
    PROVE  Links' /\ NoDisconnect' /\ Joined' /\ Silent
<1> DEFINE m == Message(IF d < c THEN "CONNECT" ELSE "GOSSIP")
           n == NewConnection(object[d][c] = "none", m)
<1>1. /\ c # d
      /\ OnlyAt(accepted, accepted', d, c)
      /\ DOMAIN accepted'[d][c] = 1 .. Len(accepted[d][c]) + 1
      /\ Len(accepted'[d][c]) = Len(accepted[d][c]) + 1
      /\ \A i \in DOMAIN accepted[d][c] : accepted'[d][c][i] = accepted[d][c][i]
      /\ accepted'[d][c][Len(accepted[d][c]) + 1] = n
      /\ OnlyAt(replies, replies', c, d)
      /\ replies'[c][d] = <<>>
  BY ConnectEffect
<1>2. object[c][d] = "waiting" /\ object' = [object EXCEPT ![c][d] = "connected"] /\ UNCHANGED registered
  BY DEF Connect
<1>3. OnlyAt(object, object', c, d) /\ object'[c][d] = "connected"
  BY <1>2 DEF TypeOK, OnlyAt
<1>4. n.open /\ n.in = <<m>> /\ (n.first <=> object[d][c] = "none")
  BY DEF NewConnection
<1>5. Len(accepted[d][c]) \in Nat /\ DOMAIN accepted[d][c] = 1 .. Len(accepted[d][c])
  BY TypeFacts
<1> HIDE DEF n
<1>6. d < c => LinkOK(c, d, object'[c][d], accepted'[d][c], replies'[c][d])
  <2> SUFFICES ASSUME d < c PROVE Shaking(accepted'[d][c], replies'[c][d])
    BY <1>3 DEF LinkOK
  <2>1. Len(accepted[d][c]) = 0
    BY <1>2 DEF Links, LinkOK
  <2>2. Len(accepted'[d][c]) = 1 /\ accepted'[d][c][1] = n
    BY <1>1, <2>1
  <2>3. Says(n.in, "CONNECT")
    BY <1>4 DEF Says
  <2>4. Len(replies'[c][d]) = 0
    BY <1>1
  <2> QED BY <1>4, <2>2, <2>3, <2>4 DEF Shaking
<1>7. Links'
  BY <1>1, <1>3, <1>6 DEF Links, OnlyAt
<1>8. NoDisconnect'
  BY <1>1 DEF NoDisconnect, OnlyAt
<1>9. Joined'
  <2>1. ASSUME NEW u \in Computers, NEW l \in Computers, l < u, object[u][l] = "accepted"
        PROVE  /\ object'[u][l] = "accepted"
               /\ \A i \in DOMAIN accepted'[u][l] :
                     accepted'[u][l][i].first => \E j \in DOMAIN accepted[u][l] : accepted[u][l][j].first
    <3>1. object'[u][l] = "accepted"
      BY <1>2, <1>3, <2>1 DEF OnlyAt
    <3>2. CASE u # d \/ l # c
      BY <1>1, <3>1, <3>2 DEF OnlyAt
    <3>3. CASE u = d /\ l = c
      <4>1. ~n.first
        BY <1>4, <2>1, <3>3
      <4>2. \A i \in DOMAIN accepted'[d][c] : i \in DOMAIN accepted[d][c] \/ i = Len(accepted[d][c]) + 1
        BY <1>1, <1>5
      <4> QED BY <1>1, <3>1, <3>3, <4>1, <4>2
    <3> QED BY <3>2, <3>3
  <2> QED BY <1>2, <2>1, JoinedKept
<1>10. Silent
  BY <1>1, <1>2, <1>3 DEF Silent, SameTraffic, OnlyAt
<1> QED BY <1>7, <1>8, <1>9, <1>10

\* ACCEPT is the one answer on its way; the link is up after it.
LEMMA LinksAccept ==
    ASSUME TypeOK, Known, Links, NoDisconnect, Joined, NEW c \in Computers, NEW d \in Computers, ProcessAccept(c, d)
    PROVE  Links' /\ NoDisconnect' /\ Joined' /\ Silent
<1> DEFINE objects == [object[c] EXCEPT ![d] = "accepted"]
<1>1. Hears(c, d, "ACCEPT") /\ UNCHANGED <<accepted, registered>> /\ AddNeighbors(c, Explicit[d], objects)
  BY DEF ProcessAccept
<1>2. object[c][d] \in {"connected", "accepted"} /\ c # d
  BY <1>1, HearsFacts
<1>3. /\ Explicit[d] \in SUBSET Computers /\ objects \in [Computers -> ObjectState] /\ objects[c] = "none"
      /\ \A x \in Computers : objects[x] = "none" <=> object[c][x] = "none"
      /\ \A x \in Computers \ {d} : objects[x] = object[c][x]
      /\ objects[d] = "accepted"
  BY <1>2, ExplicitAssumption DEF TypeOK, ObjectState
<1> HIDE DEF objects
<1>4. /\ object'[c][d] = "accepted"
      /\ \A u, l \in Computers : \/ u = c /\ l = d
                                 \/ object'[u][l] = object[u][l]
                                 \/ object[u][l] = "none" /\ object'[u][l] = "waiting"
  BY <1>1, <1>3, ObjectsGrow DEF AddNeighbors
<1>5. OnlyAt(replies, replies', c, d) /\ replies'[c][d] = Tail(replies[c][d])
  BY <1>1, TailEffect DEF ProcessAccept
<1>6. d < c => /\ LinkOK(c, d, object'[c][d], accepted'[d][c], replies'[c][d])
               /\ object[c][d] = "connected" /\ Len(replies'[c][d]) = 0 /\ Len(accepted'[d][c][1].in) = 0
  <2> SUFFICES ASSUME d < c
               PROVE  /\ Established(c, d, accepted'[d][c], replies'[c][d])
                      /\ object[c][d] = "connected" /\ Len(replies'[c][d]) = 0 /\ Len(accepted'[d][c][1].in) = 0
    BY <1>4 DEF LinkOK
  <2> DEFINE r == replies[c][d]
             s == accepted[d][c]
  <2>1. object[c][d] = "connected" /\ Says(r, "ACCEPT")
    BY <1>1, MayHear
  <2>2. Shaking(s, r)
    BY <2>1 DEF Links, LinkOK
  <2>3. r \in Seq(MessageType)
    BY TypeFacts
  <2>4. s[1].in \in Seq(MessageType)
    <3>1. 1 \in DOMAIN s
      BY <2>2, TypeFacts DEF Shaking
    <3> QED BY <3>1, TypeFacts
  <2> HIDE DEF r, s
  <2>5. Message("ACCEPT") # Message("REFUSE")
    BY Words2 DEF Words
  <2>6. Len(s) = 1 /\ s[1].open /\ Len(s[1].in) = 0
    BY <2>1, <2>2, <2>5 DEF Shaking, Says
  <2>7. Len(Tail(r)) = 0 /\ Tail(r) \in Seq(MessageType)
    <3>1. Len(r) = 1
      BY <2>1 DEF Says
    <3>2. r # <<>>
      BY <3>1
    <3> QED BY <2>3, <3>1, <3>2, HeadTailProperties
  <2>8. DOMAIN Tail(r) = {} /\ DOMAIN s[1].in = {}
    BY <2>4, <2>6, <2>7
  <2>9. Established(c, d, s, Tail(r))
    BY <2>6, <2>8 DEF Established, Readies
  <2> QED BY <1>1, <1>5, <2>1, <2>6, <2>7, <2>9 DEF r, s
<1>7. Links'
  <2>1. \A u, l \in Computers : l < u /\ (u # c \/ l # d) => LinkOK(u, l, object'[u][l], accepted[l][u], replies[u][l])
    BY <1>4, LinkSame DEF Links
  <2> QED BY <1>1, <1>5, <1>6, <2>1 DEF Links, OnlyAt
<1>8. NoDisconnect'
  <2>1. \A k \in DOMAIN Tail(replies[c][d]) : k + 1 \in DOMAIN replies[c][d] /\ Tail(replies[c][d])[k] = replies[c][d][k + 1]
    BY <1>1, HearsFacts
  <2> DEFINE t == Tail(replies[c][d])
  <2>2. \A k \in DOMAIN t : k + 1 \in DOMAIN replies[c][d] /\ t[k] = replies[c][d][k + 1]
    BY <2>1
  <2>3. replies'[c][d] = t
    BY <1>5
  <2> HIDE DEF t
  <2> QED BY <1>5, <2>2, <2>3 DEF NoDisconnect, OnlyAt
<1>9. Joined'
  BY <1>1, <1>4, JoinedKept
<1>10. Silent
  <2>1. ASSUME NEW u \in Computers, NEW l \in Computers, l < u PROVE SameTraffic(u, l)
    <3>1. CASE u = c /\ l = d
      BY <1>4, <1>6, <2>1, <3>1 DEF SameTraffic
    <3>2. CASE u # c \/ l # d
      <4>1. replies'[u][l] = replies[u][l] /\ accepted'[l][u] = accepted[l][u]
        BY <1>1, <1>5, <3>2 DEF OnlyAt
      <4>2. object'[u][l] = object[u][l] \/ (object[u][l] = "none" /\ object'[u][l] = "waiting")
        BY <1>4, <3>2
      <4> QED BY <4>1, <4>2 DEF SameTraffic
    <3> QED BY <3>1, <3>2
  <2> QED BY <2>1 DEF Silent
<1> QED BY <1>7, <1>8, <1>9, <1>10

\* A refused connection is closed and stays so.
LEMMA LinksHangs ==
    ASSUME TypeOK, Links, NoDisconnect, Joined, NEW c \in Computers, NEW d \in Computers, Hangs(c, d)
    PROVE  Links' /\ NoDisconnect' /\ Joined' /\ Silent
<1>1. /\ c # d /\ UNCHANGED registered
      /\ accepted' = [accepted EXCEPT ![d][c] = Closed(@)]
      /\ replies' = [replies EXCEPT ![c][d] = <<>>]
      /\ OnlyAt(object, object', c, d)
  BY HangsEffect
<1>2. /\ OnlyAt(accepted, accepted', d, c)
      /\ SameConns(accepted[d][c], accepted'[d][c])
      /\ \A i \in DOMAIN accepted[d][c] :
            accepted'[d][c][i].in = IF accepted[d][c][i].open THEN Append(accepted[d][c][i].in, EOF)
                                    ELSE accepted[d][c][i].in
      /\ OnlyAt(replies, replies', c, d)
      /\ replies'[c][d] = <<>>
  BY <1>1, CloseEffect
<1>3. d < c => object[c][d] = "connected" /\ LinkOK(c, d, object'[c][d], accepted'[d][c], replies'[c][d])
  <2> SUFFICES ASSUME d < c
               PROVE  object[c][d] = "connected" /\ LinkOK(c, d, object'[c][d], accepted'[d][c], replies'[c][d])
    OBVIOUS
  <2>1. PICK w \in {"REFUSE", "DISCONNECT", "EOF", "RECEIVED"} : Hears(c, d, w) /\ (w = "REFUSE" => ProcessRefuse(c, d))
    <3>1. ProcessRefuse(c, d) => Hears(c, d, "REFUSE") /\ ProcessRefuse(c, d)
      BY Zenon DEF ProcessRefuse
    <3>2. ProcessRemoteDisconnect(c, d) => Hears(c, d, "DISCONNECT")
      BY Zenon DEF ProcessRemoteDisconnect
    <3>3. ProcessRemoteHup(c, d) => Hears(c, d, "EOF")
      BY Zenon DEF ProcessRemoteHup
    <3>4. ProcessReceived(c, d) => Hears(c, d, "RECEIVED")
      BY Zenon DEF ProcessReceived
    <3> QED BY <3>1, <3>2, <3>3, <3>4 DEF Hangs
  <2>2. object[c][d] = "connected" /\ w = "REFUSE" /\ Says(replies[c][d], "REFUSE")
    BY <2>1, MayHear
  <2> DEFINE r == replies[c][d]
             s == accepted[d][c]
  <2>3. r \in Seq(MessageType) /\ s \in Seq(ServiceType) /\ DOMAIN s = 1 .. Len(s)
    BY TypeFacts
  <2>4. Shaking(s, r)
    BY <2>2 DEF Links, LinkOK
  <2> HIDE DEF r, s
  <2>5. Tail(r) # <<EOF>>
    <3>1. Len(r) = 1
      BY <2>2 DEF Says, r
    <3>2. r # <<>>
      BY <3>1
    <3>3. Len(Tail(r)) = 0
      BY <2>3, <3>1, <3>2, HeadTailProperties
    <3> DEFINE e == <<EOF>>
    <3>4. Len(e) = 1
      OBVIOUS
    <3> HIDE DEF e
    <3>5. Len(Tail(r)) # Len(e)
      BY <3>3, <3>4
    <3> QED BY <3>5, Zenon DEF e
  <2>6. object' = [object EXCEPT ![c][d] = "idle"]
    <3>1. Disconnected(c, d)
      BY <2>1, <2>2 DEF ProcessRefuse
    <3> QED BY <2>5, <3>1, Zenon DEF Disconnected, r
  <2>7. object'[c][d] = "idle"
    BY <2>6 DEF TypeOK
  <2>8. Len(s) = 1 /\ s[1].open /\ Len(s[1].in) = 0
    <3>1. Message("REFUSE") # Message("ACCEPT")
      BY Words2 DEF Words
    <3> QED BY <2>2, <2>4, <3>1 DEF Shaking, Says, r
  <2>9. DOMAIN accepted'[d][c] = {1} /\ accepted'[d][c][1].in = Append(s[1].in, EOF)
    <3>1. DOMAIN s = {1}
      BY <2>3, <2>8
    <3> QED BY <1>2, <2>8, <3>1 DEF SameConns, s
  <2>10. s[1].in \in Seq(MessageType)
    <3>1. 1 \in DOMAIN s
      BY <2>3, <2>8
    <3> QED BY <3>1, TypeFacts DEF s
  <2> DEFINE q == s[1].in
  <2> HIDE DEF q
  <2>11. \A k \in DOMAIN Append(q, EOF) : Append(q, EOF)[k] = EOF
    <3>1. q \in Seq(MessageType) /\ Len(q) = 0 /\ EOF \in MessageType
      BY <2>8, <2>10, WordIsMessage DEF q, EOF, Words
    <3>2. DOMAIN q = {}
      BY <3>1
    <3> QED BY <3>1, <3>2, Appended
  <2>12. \A j \in DOMAIN accepted'[d][c] : \A k \in DOMAIN accepted'[d][c][j].in : accepted'[d][c][j].in[k] = EOF
    BY <2>9, <2>11 DEF q
  <2> QED BY <2>2, <2>7, <2>12 DEF LinkOK
<1>4. Links'
  BY <1>1, <1>2, <1>3 DEF Links, OnlyAt
<1>5. NoDisconnect'
  BY <1>2 DEF NoDisconnect, OnlyAt
<1>6. Joined'
  <2>1. \A u, l \in Computers : l < u /\ object[u][l] = "accepted" =>
              /\ object'[u][l] = "accepted"
              /\ \A i \in DOMAIN accepted'[u][l] :
                    accepted'[u][l][i].first => \E j \in DOMAIN accepted[u][l] : accepted[u][l][j].first
    BY <1>1, <1>2, <1>3 DEF OnlyAt, SameConns
  <2> QED BY <1>1, <2>1, JoinedKept
<1>7. Silent
  <2>1. object'[c][d] # "accepted"
    BY HangsEffect
  <2> QED BY <1>1, <1>2, <1>3, <2>1 DEF Silent, SameTraffic, OnlyAt
<1> QED BY <1>4, <1>5, <1>6, <1>7

\* Nothing is found dead but what its own end closed.
LEMMA LinksDetect ==
    ASSUME TypeOK, Links, NoDisconnect, Joined, NEW c \in Computers, NEW d \in Computers, Detect(c, d)
    PROVE  Links' /\ NoDisconnect' /\ Joined' /\ Silent
<1>1. UNCHANGED <<object, registered>>
  BY DEF Detect
<1> DEFINE q == <<EOF>>
<1>2. q \in Seq(MessageType) /\ DOMAIN q = {1} /\ q[1] = EOF
  BY WordIsMessage DEF EOF, Words
<1>3. EOF.cmd # "DISCONNECT"
  BY Words2
<1> DEFINE s == accepted[d][c]
<1>4. s \in Seq(ServiceType) /\ DOMAIN s = 1 .. Len(s) /\ object[c][d] \in ObjectState
  BY TypeFacts
<1>5. d < c => LinkOK(c, d, object[c][d], s, replies[c][d])
  BY DEF Links
<1>6. ASSUME NEW i \in DOMAIN s, ~s[i].open, accepted' = [accepted EXCEPT ![d][c][i].in = q], UNCHANGED replies
      PROVE  Links' /\ NoDisconnect' /\ Joined' /\ Silent
  <2> HIDE DEF q
  <2>1. /\ OnlyAt(accepted, accepted', d, c)
        /\ DOMAIN accepted'[d][c] = DOMAIN s
        /\ \A j \in DOMAIN s : j # i => accepted'[d][c][j] = s[j]
        /\ accepted'[d][c][i].in = q
        /\ accepted'[d][c][i].first = s[i].first
    <3>1. accepted' = SetIn(accepted, d, c, i, q)
      BY <1>6 DEF SetIn
    <3> QED BY <1>2, <3>1, TypeFacts, InEntry
  <2> HIDE DEF s
  <2>2. d < c => object[c][d] = "idle"
    BY <1>4, <1>5, <1>6 DEF LinkOK, Shaking, Established, ObjectState
  <2>3. d < c => LinkOK(c, d, object'[c][d], accepted'[d][c], replies'[c][d])
    BY <1>1, <1>2, <1>5, <2>1, <2>2 DEF LinkOK
  <2>4. Links'
    BY <1>1, <1>6, <2>1, <2>3 DEF Links, OnlyAt
  <2>5. NoDisconnect'
    BY <1>6 DEF NoDisconnect
  <2>6. \A u, l \in Computers : \A j \in DOMAIN accepted'[u][l] :
                    accepted'[u][l][j].first => \E k \in DOMAIN accepted[u][l] : accepted[u][l][k].first
    BY <2>1 DEF OnlyAt, s
  <2>7. Joined'
    BY <1>1, <2>6, JoinedKept
  <2>8. Silent
    BY <1>1, <1>6, <2>1, <2>2 DEF Silent, SameTraffic, OnlyAt
  <2> QED BY <2>4, <2>5, <2>7, <2>8
<1>7. ASSUME Up(c, d), \A i \in DOMAIN s : ~s[i].open, replies' = [replies EXCEPT ![c][d] = q], UNCHANGED accepted
      PROVE  Links' /\ NoDisconnect' /\ Joined' /\ Silent
  <2>1. OnlyAt(replies, replies', c, d) /\ replies'[c][d] = q
    BY <1>7, TypeFacts DEF OnlyAt, RepliesType
  <2> HIDE DEF q, s
  <2>2. ~(d < c)
    BY <1>4, <1>5, <1>7 DEF LinkOK, Shaking, Established, Up
  <2>3. Links'
    BY <1>1, <1>7, <2>1, <2>2 DEF Links, OnlyAt
  <2>4. NoDisconnect'
    BY <1>2, <1>3, <2>1 DEF NoDisconnect, OnlyAt
  <2>5. Joined'
    BY <1>1, <1>7, JoinedKept
  <2>6. Silent
    BY <1>1, <1>7, <2>1, <2>2 DEF Silent, SameTraffic, OnlyAt
  <2> QED BY <2>3, <2>4, <2>5, <2>6
<1> QED BY <1>6, <1>7 DEF Detect

\* The answer to a CONNECT.
LEMMA LinksProcessConnect ==
    ASSUME TypeOK, Pairs, Known, Links, NoDisconnect, Joined, NEW c \in Computers, NEW d \in Computers, NEW i,
           ProcessConnect(d, c, i)
    PROVE  Links' /\ NoDisconnect' /\ Joined' /\ Silent
<1> DEFINE s == accepted[d][c]
           t == accepted'[d][c]
           r == replies[c][d]
<1>1. Reads(d, c, i, "CONNECT") /\ UNCHANGED registered
  BY DEF ProcessConnect
<1>2. d < c /\ i = 1 /\ object[c][d] = "connected"
  BY <1>1, MayRead, ComputersAssumption
<1>3. /\ OnlyAt(accepted, accepted', d, c)
      /\ DOMAIN t = DOMAIN s
      /\ Len(t) = Len(s)
      /\ t[i].in = Tail(s[i].in)
      /\ t[i].open = s[i].open
      /\ OnlyAt(replies, replies', c, d)
  BY ProcessConnectEffect
<1>4. PICK w \in {"ACCEPT", "REFUSE"} : replies'[c][d] = IF s[i].open THEN Append(r, Message(w)) ELSE r
  BY ProcessConnectEffect
<1>5. \A u, l \in Computers : object'[u][l] = object[u][l] \/ (object[u][l] = "none" /\ object'[u][l] = "waiting")
  <2>1. UNCHANGED object \/ AddNeighbors(d, Explicit[c] \cup {c}, object[d])
    BY Zenon DEF ProcessConnect
  <2>2. Explicit[c] \cup {c} \in SUBSET Computers /\ object[d] \in [Computers -> ObjectState] /\ object[d][d] = "none"
    BY ExplicitAssumption DEF TypeOK
  <2> QED BY <2>1, <2>2, ObjectsGrow DEF AddNeighbors
<1>6. Shaking(t, replies'[c][d])
  <2>1. Shaking(s, r)
    BY <1>2 DEF Links, LinkOK
  <2>2. s[1].in # <<>> /\ s[1].in \in Seq(MessageType) /\ r \in Seq(MessageType)
    BY <1>1, <1>2, ReadsFacts, TypeFacts
  <2>3. Message(w) \in MessageType
    BY WordIsMessage DEF Words
  <2> HIDE DEF s, t, r
  <2>4. Len(s[1].in) # 0
    BY <2>2
  <2>5. Len(s) = 1 /\ s[1].open /\ Len(s[1].in) = 1 /\ Len(r) = 0
    BY <2>1, <2>4 DEF Shaking, Says
  <2>6. Len(Tail(s[1].in)) = 0
    BY <2>2, <2>5, HeadTailProperties
  <2>7. Len(Append(r, Message(w))) = 1 /\ Append(r, Message(w))[1] = Message(w)
    BY <2>2, <2>3, <2>5, AppendProperties
  <2>8. Says(replies'[c][d], w)
    BY <1>2, <1>4, <2>5, <2>7 DEF Says
  <2> QED BY <1>2, <1>3, <2>5, <2>6, <2>8 DEF Shaking
<1>7. object'[c][d] = "connected"
  BY <1>2, <1>5
<1>8. LinkOK(c, d, object'[c][d], accepted'[d][c], replies'[c][d])
  BY <1>6, <1>7 DEF LinkOK
<1> HIDE DEF s, t, r
<1>9. Links'
  <2>1. \A u, l \in Computers : l < u => LinkOK(u, l, object'[u][l], accepted[l][u], replies[u][l])
    BY <1>5, LinkSame DEF Links
  <2> QED BY <1>3, <1>8, <2>1 DEF Links, OnlyAt
<1>10. NoDisconnect'
  <2>1. \A u, l \in Computers : l < u => replies'[l][u] = replies[l][u]
    BY <1>2, <1>3, ComputersAssumption DEF OnlyAt
  <2> QED BY <2>1 DEF NoDisconnect
<1>11. Joined'
  <2>1. \A u, l \in Computers : l < u => accepted'[u][l] = accepted[u][l]
    <3>1. OnlyAt(accepted, accepted', d, c) /\ ~(c < d)
      BY <1>2, <1>3, ComputersAssumption
    <3> QED BY <3>1 DEF OnlyAt
  <2> QED BY <1>1, <1>5, <2>1, JoinedKept
<1>12. Silent
  BY <1>2, <1>3, <1>5, <1>7 DEF Silent, SameTraffic, OnlyAt
<1> QED BY <1>9, <1>10, <1>11, <1>12

\* The answer to a GOSSIP.
LEMMA LinksProcessGossip ==
    ASSUME TypeOK, Pairs, Known, Links, NoDisconnect, Joined, NEW c \in Computers, NEW d \in Computers, NEW i,
           ProcessGossip(d, c, i)
    PROVE  Links' /\ NoDisconnect' /\ Joined' /\ Silent
<1>1. Reads(d, c, i, "GOSSIP") /\ UNCHANGED registered /\ AddNeighbors(d, {c}, object[d])
  BY Zenon DEF ProcessGossip
<1>2. c < d
  BY <1>1, MayRead, ComputersAssumption
<1>3. /\ OnlyAt(accepted, accepted', d, c)
      /\ DOMAIN accepted'[d][c] = DOMAIN accepted[d][c]
      /\ \A j \in DOMAIN accepted[d][c] : j # i => accepted'[d][c][j] = accepted[d][c][j]
      /\ accepted'[d][c][i].first = accepted[d][c][i].first
      /\ OnlyAt(replies, replies', c, d)
      /\ replies'[c][d] = IF accepted[d][c][i].open THEN Append(replies[c][d], Message("RECEIVED")) ELSE replies[c][d]
  BY ProcessGossipEffect
<1>4. \A u, l \in Computers : object'[u][l] = object[u][l] \/ (object[u][l] = "none" /\ object'[u][l] = "waiting")
  <2>1. {c} \in SUBSET Computers /\ object[d] \in [Computers -> ObjectState] /\ object[d][d] = "none"
    BY DEF TypeOK
  <2> QED BY <1>1, <2>1, ObjectsGrow DEF AddNeighbors
<1>5. Links'
  <2>1. \A u, l \in Computers : l < u => LinkOK(u, l, object'[u][l], accepted[l][u], replies[u][l])
    BY <1>4, LinkSame DEF Links
  <2>2. \A u, l \in Computers : l < u => accepted'[l][u] = accepted[l][u] /\ replies'[u][l] = replies[u][l]
    BY <1>2, <1>3, ComputersAssumption DEF OnlyAt
  <2> QED BY <2>1, <2>2 DEF Links
<1>6. NoDisconnect'
  <2> DEFINE m == Message("RECEIVED")
             r == replies[c][d]
  <2>1. m \in MessageType /\ m.cmd # "DISCONNECT" /\ r \in Seq(MessageType)
    BY WordIsMessage, Words2, TypeFacts DEF Words
  <2>2. replies'[c][d] = Append(r, m) \/ replies'[c][d] = r
    BY <1>3
  <2> HIDE DEF m, r
  <2>3. \A k \in DOMAIN replies'[c][d] : (k \in DOMAIN r /\ replies'[c][d][k] = r[k]) \/ replies'[c][d][k] = m
    BY <2>1, <2>2, Appended
  <2>4. \A k \in DOMAIN replies'[c][d] : replies'[c][d][k].cmd # "DISCONNECT"
    <3>1. \A k \in DOMAIN r : r[k].cmd # "DISCONNECT"
      BY <1>2 DEF NoDisconnect, r
    <3> QED BY <2>1, <2>3, <3>1
  <2>5. OnlyAt(replies, replies', c, d)
    BY <1>3
  <2> QED BY <2>4, <2>5 DEF NoDisconnect, OnlyAt
<1>7. Joined'
  <2>1. \A u, l \in Computers : \A j \in DOMAIN accepted'[u][l] :
                    accepted'[u][l][j].first => \E k \in DOMAIN accepted[u][l] : accepted[u][l][k].first
    BY <1>3 DEF OnlyAt
  <2> QED BY <1>1, <1>4, <2>1, JoinedKept
<1>8. Silent
  <2>1. \A u, l \in Computers : l < u => accepted'[l][u] = accepted[l][u] /\ replies'[u][l] = replies[u][l]
    BY <1>2, <1>3, ComputersAssumption DEF OnlyAt
  <2> QED BY <1>4, <2>1 DEF Silent, SameTraffic
<1> QED BY <1>5, <1>6, <1>7, <1>8

\* The connections that stay were there before.
LEMMA WithoutMembers ==
    ASSUME TypeOK, NEW d \in Computers, NEW c \in Computers, NEW i \in DOMAIN accepted[d][c],
           accepted' = [accepted EXCEPT ![d][c] = Without(@, i)]
    PROVE  \A j \in DOMAIN accepted'[d][c] : \E k \in DOMAIN accepted[d][c] : accepted'[d][c][j] = accepted[d][c][k]
<1> DEFINE s == accepted[d][c]
           t == accepted'[d][c]
           p(j) == IF j < i THEN j ELSE j + 1
<1>1. \A j \in DOMAIN t : p(j) \in DOMAIN s /\ t[j] = s[p(j)]
  BY WithoutEffect, Zenon
<1> HIDE DEF s, t, p
<1>2. \A j \in DOMAIN t : \E k \in DOMAIN s : t[j] = s[k]
  BY <1>1
<1> QED BY <1>2 DEF s, t

\* Only a connection that its own end closed is removed.
LEMMA LinksServiceEnd ==
    ASSUME TypeOK, Pairs, Links, NoDisconnect, Joined, NEW c \in Computers, NEW d \in Computers, NEW i,
           ProcessDisconnect(d, c, i) \/ ProcessHup(d, c, i)
    PROVE  /\ Links' /\ NoDisconnect' /\ Joined' /\ Silent
           /\ ProcessHup(d, c, i)
           /\ d < c => object[c][d] = "idle"
<1>1. ProcessHup(d, c, i)
  <2>1. ASSUME ProcessDisconnect(d, c, i) PROVE FALSE
    <3>1. Reads(d, c, i, "DISCONNECT")
      BY <2>1, Zenon DEF ProcessDisconnect
    <3> QED BY <3>1, MayRead, ComputersAssumption
  <2> QED BY <2>1
<1>2. /\ Reads(d, c, i, "EOF")
      /\ accepted' = [accepted EXCEPT ![d][c] = Without(@, i)]
      /\ UNCHANGED <<object, replies, registered>>
  BY <1>1, Zenon DEF ProcessHup
<1>3. i \in DOMAIN accepted[d][c]
  BY <1>2, ReadsFacts
<1>4. OnlyAt(accepted, accepted', d, c)
  BY <1>2, <1>3, WithoutEffect
<1>5. \A j \in DOMAIN accepted'[d][c] : \E k \in DOMAIN accepted[d][c] : accepted'[d][c][j] = accepted[d][c][k]
  BY <1>2, <1>3, WithoutMembers
<1>6. d < c => object[c][d] = "idle"
  BY <1>2, MayRead
<1>7. d < c => LinkOK(c, d, object'[c][d], accepted'[d][c], replies'[c][d])
  BY <1>2, <1>5, <1>6 DEF Links, LinkOK
<1>8. Links'
  BY <1>2, <1>4, <1>7 DEF Links, OnlyAt
<1>9. NoDisconnect'
  BY <1>2 DEF NoDisconnect
<1>10. Joined'
  <2>1. \A u, l \in Computers : \A j \in DOMAIN accepted'[u][l] :
                    accepted'[u][l][j].first => \E k \in DOMAIN accepted[u][l] : accepted[u][l][k].first
    BY <1>4, <1>5 DEF OnlyAt
  <2> QED BY <1>2, <2>1, JoinedKept
<1>11. Silent
  BY <1>2, <1>4, <1>6 DEF Silent, SameTraffic, OnlyAt
<1> QED BY <1>1, <1>6, <1>8, <1>9, <1>10, <1>11

\* The link of x to every other computer is up, and is the first connection for it.
AllLinked(x) ==
    \A y \in Computers :
        /\ y < x => object[x][y] = "accepted" /\ \A i \in DOMAIN accepted[x][y] : ~accepted[x][y][i].first
        /\ x < y => object[y][x] = "accepted" /\ \A i \in DOMAIN accepted[y][x] : ~accepted[y][x][i].first

\* A snaplock that is registered has all its links.
LEMMA RegisteredIsLinked == ASSUME Joined, NEW x \in Computers, registered[x] PROVE AllLinked(x)
BY DEF Joined, AllLinked

\* A snaplock may register once all its links are up.
LEMMA SettledIsLinked == ASSUME TypeOK, NEW x \in Computers, Settled(x) PROVE AllLinked(x)
<1>1. \A y \in Computers : y < x => Linked(x, y) /\ accepted[x][y] = <<>>
  BY ComputersAssumption DEF Settled
<1>2. \A y \in Computers : x < y => Linked(y, x) /\ accepted[y][x] = <<>>
  BY ComputersAssumption DEF Settled
<1>3. DOMAIN <<>> = {}
  OBVIOUS
<1> QED BY <1>1, <1>2, <1>3 DEF AllLinked, Linked

\* broadcast_message() of a snaplock whose links are all up: each other computer gets
\* the LOCKREADY, once, on its link.
LEMMA LockReadySent ==
    ASSUME TypeOK, Links, NEW x \in Computers, AllLinked(x), Broadcast(x, x, {}, accepted, replies)
    PROVE  /\ LockReady(x, Computers) \in MessageType
           /\ \A d, c \in Computers : accepted'[d][c] = IF c = x /\ d < x THEN Sent(accepted[d][c], LockReady(x, Computers))
                                                                           ELSE accepted[d][c]
           /\ \A c, d \in Computers : replies'[c][d] = IF d = x /\ x < c THEN Append(replies[c][d], LockReady(x, Computers))
                                                                          ELSE replies[c][d]
<1>1. PICK to \in SUBSET (Computers \ ({} \cup {x})) : BroadcastTo(x, x, {}, accepted, replies, to)
  <2>1. {} \in SUBSET Computers /\ accepted \in AcceptedType /\ replies \in RepliesType
    BY TypeFacts
  <2> DEFINE none == {}
  <2> HIDE DEF none
  <2>2. none \in SUBSET Computers /\ Broadcast(x, x, none, accepted, replies)
    BY <2>1 DEF none
  <2>3. \E to \in SUBSET (Computers \ (none \cup {x})) : BroadcastTo(x, x, none, accepted, replies, to)
    BY <2>1, <2>2, BroadcastEffect
  <2> QED BY <2>3 DEF none
<1>2. ASSUME NEW y \in Computers, y < x PROVE ~ViaService(x, y) /\ ViaObject(x, y)
  <2>1. object[x][y] = "accepted" /\ \A i \in DOMAIN accepted[x][y] : ~accepted[x][y][i].first
    BY <1>2 DEF AllLinked
  <2>2. accepted[x][y] # <<>> => 1 \in DOMAIN accepted[x][y]
    BY TypeFacts
  <2>3. ~(x < y)
    BY <1>2, ComputersAssumption
  <2> QED BY <1>2, <2>1, <2>2, <2>3 DEF ViaService, ViaObject
<1>3. ASSUME NEW y \in Computers, x < y PROVE ViaService(x, y) /\ ~ViaObject(x, y) /\ accepted[x][y][1].open
  <2>1. object[y][x] = "accepted"
    BY <1>3 DEF AllLinked
  <2>2. Established(y, x, accepted[x][y], replies[y][x])
    BY <1>3, <2>1 DEF Links, LinkOK
  <2>3. accepted[x][y] # <<>> /\ accepted[x][y][1].open
    BY <2>2 DEF Established
  <2> QED BY <1>3, <2>3 DEF ViaService, ViaObject
<1>4. \A y \in Computers : y # x => y < x \/ x < y
  BY ComputersAssumption
<1>5. to \subseteq Computers /\ x \notin to
  OBVIOUS
<1>6. \A y \in Computers : y \in to <=> y \notin {} \cup {x} /\ (ViaService(x, y) \/ ViaObject(x, y))
  BY <1>1 DEF BroadcastTo
<1>7. \A y \in Computers : y \in to <=> y # x
  BY <1>2, <1>3, <1>4, <1>6
<1>8. {} \cup to \cup {x} = Computers
  BY <1>5, <1>7
<1> DEFINE m == LockReady(x, {} \cup to \cup {x})
<1>9. /\ m \in MessageType
      /\ \A d, c \in Computers : accepted'[d][c] = IF c = x /\ d \in to /\ ViaObject(x, d)
                                                   THEN Sent(accepted[d][c], m) ELSE accepted[d][c]
      /\ \A c, d \in Computers : replies'[c][d] = IF d = x /\ c \in to /\ ViaService(x, c) /\ accepted[x][c][1].open
                                                  THEN Append(replies[c][d], m) ELSE replies[c][d]
  BY <1>1, Zenon DEF BroadcastTo
<1>10. m = LockReady(x, Computers)
  BY <1>8
<1> HIDE DEF m
<1>11. ~(x < x) /\ \A y \in Computers : ViaObject(x, y) => y < x
  BY ComputersAssumption DEF ViaObject
<1>12. \A d \in Computers : (d \in to /\ ViaObject(x, d)) <=> d < x
  BY <1>2, <1>7, <1>11
<1>13. \A c \in Computers : (c \in to /\ ViaService(x, c) /\ accepted[x][c][1].open) <=> x < c
  BY <1>2, <1>3, <1>4, <1>7, <1>11
<1>14. \A d, c \in Computers : accepted'[d][c] = IF c = x /\ d < x THEN Sent(accepted[d][c], m) ELSE accepted[d][c]
  BY <1>9, <1>12
<1>15. \A c, d \in Computers : replies'[c][d] = IF d = x /\ x < c THEN Append(replies[c][d], m) ELSE replies[c][d]
  BY <1>9, <1>13
<1> QED BY <1>9, <1>10, <1>14, <1>15

\* A message whose senders informed everybody is not passed on.
LEMMA NothingForwarded ==
    ASSUME TypeOK, NEW x \in Computers, NEW who \in Computers, NEW conns \in AcceptedType, NEW answers \in RepliesType,
           Broadcast(x, who, Computers, conns, answers)
    PROVE  \A d, c \in Computers : accepted'[d][c] = conns[d][c] /\ replies'[d][c] = answers[d][c]
<1>1. Computers \in SUBSET Computers
  OBVIOUS
<1>2. PICK to \in SUBSET (Computers \ (Computers \cup {x})) : BroadcastTo(x, who, Computers, conns, answers, to)
  BY <1>1, BroadcastEffect
<1>3. to = {}
  OBVIOUS
<1> DEFINE m == LockReady(who, Computers \cup to \cup {x})
<1>4. /\ \A d, c \in Computers : accepted'[d][c] = IF c = x /\ d \in to /\ ViaObject(x, d)
                                                   THEN Sent(conns[d][c], m) ELSE conns[d][c]
      /\ \A c, d \in Computers : replies'[c][d] = IF d = x /\ c \in to /\ ViaService(x, c) /\ accepted[x][c][1].open
                                                  THEN Append(answers[c][d], m) ELSE answers[c][d]
  BY <1>2, Zenon DEF BroadcastTo
<1> HIDE DEF m
<1> QED BY <1>3, <1>4

\* One more LOCKREADY of the same snaplock.
LEMMA ReadiesAppend ==
    ASSUME NEW q \in Seq(MessageType), NEW x \in Computers, LockReady(x, Computers) \in MessageType, Readies(q, x)
    PROVE  Readies(Append(q, LockReady(x, Computers)), x)
<1> DEFINE m == LockReady(x, Computers)
<1>1. \A k \in DOMAIN q : q[k] = m
  BY DEF Readies
<1>2. m \in MessageType
  OBVIOUS
<1> HIDE DEF m
<1>3. \A k \in DOMAIN Append(q, m) : Append(q, m)[k] = m
  BY <1>1, <1>2, Appended
<1> QED BY <1>3 DEF m, Readies

\* The links stay as they are when the snaplock of x sends its LOCKREADY.
LEMMA LinksSent ==
    ASSUME TypeOK, Links, NoDisconnect, NEW x \in Computers, AllLinked(x), Broadcast(x, x, {}, accepted, replies),
           UNCHANGED object
    PROVE  /\ Links' /\ NoDisconnect'
           /\ \A u, l \in Computers : l < u => accepted'[u][l] = accepted[u][l]
<1> DEFINE m == LockReady(x, Computers)
<1>1. /\ m \in MessageType
      /\ \A d, c \in Computers : accepted'[d][c] = IF c = x /\ d < x THEN Sent(accepted[d][c], m) ELSE accepted[d][c]
      /\ \A c, d \in Computers : replies'[c][d] = IF d = x /\ x < c THEN Append(replies[c][d], m) ELSE replies[c][d]
  BY LockReadySent
<1>2. m \in MessageType
  BY <1>1
<1> HIDE DEF m
<1>3. \A u, l \in Computers : l < u => accepted'[u][l] = accepted[u][l] /\ replies'[l][u] = replies[l][u]
  BY <1>1, ComputersAssumption
<1>4. ASSUME NEW u \in Computers, NEW l \in Computers, l < u
      PROVE  LinkOK(u, l, object'[u][l], accepted'[l][u], replies'[u][l])
  <2> DEFINE s == accepted[l][u]
             r == replies[u][l]
  <2>1. LinkOK(u, l, object[u][l], s, r) /\ ~(u < l) /\ u # l
    <3>1. LinkOK(u, l, object[u][l], s, r)
      BY <1>4 DEF Links
    <3>2. ~(u < l) /\ u # l
      BY <1>4, ComputersAssumption
    <3> QED BY <3>1, <3>2
  <2>2. s \in Seq(ServiceType) /\ r \in Seq(MessageType) /\ (Len(s) = 1 => s[1].in \in Seq(MessageType))
    BY TypeFacts
  <2>3. CASE u # x /\ l # x
    <3>1. accepted'[l][u] = s /\ replies'[u][l] = r
      BY <1>1, <2>3
    <3> QED BY <2>1, <3>1
  <2>4. CASE u = x
    <3>1. accepted'[l][u] = Sent(s, m) /\ replies'[u][l] = r
      BY <1>1, <1>4, <2>1, <2>4
    <3>2. object[u][l] = "accepted"
      BY <1>4, <2>4 DEF AllLinked
    <3>3. Established(u, l, s, r)
      BY <2>1, <3>2 DEF LinkOK
    <3> HIDE DEF s, r
    <3>4. 1 \in DOMAIN s /\ Len(s) = 1 /\ s[1].open
      BY <2>2, <3>3 DEF Established
    <3>5. Len(Sent(s, m)) = 1 /\ Sent(s, m)[1].open /\ Sent(s, m)[1].in = Append(s[1].in, m)
      <4>1. /\ Len(Sent(s, m)) = Len(s)
            /\ Sent(s, m)[1].open = s[1].open
            /\ Sent(s, m)[1].in = IF s[1].open THEN Append(s[1].in, m) ELSE s[1].in
        BY <1>2, <2>2, <3>4, SentConns, Zenon
      <4> QED BY <3>4, <4>1
    <3>6. Readies(s[1].in, x) /\ Readies(r, l)
      BY <2>4, <3>3 DEF Established
    <3>7. Readies(Append(s[1].in, m), x)
      <4> DEFINE q == s[1].in
      <4>1. q \in Seq(MessageType) /\ Readies(q, x)
        BY <2>2, <3>4, <3>6
      <4> HIDE DEF q
      <4>2. Readies(Append(q, m), x)
        BY <1>2, <4>1, ReadiesAppend DEF m
      <4> QED BY <4>2 DEF q
    <3>8. Established(u, l, Sent(s, m), r)
      BY <2>4, <3>5, <3>6, <3>7 DEF Established
    <3> QED BY <3>1, <3>2, <3>8 DEF LinkOK
  <2>5. CASE l = x
    <3>1. accepted'[l][u] = s /\ replies'[u][l] = Append(r, m)
      BY <1>1, <1>4, <2>1, <2>5
    <3>2. object[u][l] = "accepted"
      BY <1>4, <2>5 DEF AllLinked
    <3>3. Established(u, l, s, r)
      BY <2>1, <3>2 DEF LinkOK
    <3> HIDE DEF s, r
    <3>4. Readies(Append(r, m), l)
      BY <1>2, <2>2, <2>5, <3>3, ReadiesAppend DEF m, Established
    <3>5. Established(u, l, s, Append(r, m))
      BY <3>3, <3>4 DEF Established
    <3> QED BY <3>1, <3>2, <3>5 DEF LinkOK
  <2> QED BY <2>3, <2>4, <2>5
<1>5. Links'
  BY <1>4 DEF Links
<1>6. NoDisconnect'
  BY <1>3 DEF NoDisconnect
<1> QED BY <1>3, <1>5, <1>6

\* The LOCKREADY of c comes to d, which has the smaller address: it is for the local
\* snaplock only.
LEMMA UpEffect ==
    ASSUME TypeOK, Pairs, Links, NEW d \in Computers, NEW c \in Computers, NEW i, ForwardUp(d, c, i)
    PROVE  /\ d < c /\ i = 1 /\ object[c][d] = "accepted"
           /\ Notify(d, <<Gone("LOCKREADY", c)>>)
           /\ OnlyAt(accepted, accepted', d, c)
           /\ Len(accepted'[d][c]) = Len(accepted[d][c])
           /\ accepted'[d][c][1].in = Tail(accepted[d][c][1].in)
           /\ accepted'[d][c][1].open = accepted[d][c][1].open
           /\ \A x, y \in Computers : replies'[x][y] = replies[x][y]
<1> DEFINE a     == accepted[d][c][i]
           m     == a.in[1]
           conns == SetIn(accepted, d, c, i, Tail(a.in))
<1>1. Reads(d, c, i, "LOCKREADY")
  BY Zenon DEF ForwardUp
<1>2. d < c /\ i = 1 /\ object[c][d] = "accepted"
  BY <1>1, MayRead, ComputersAssumption
<1>3. 1 \in DOMAIN a.in /\ i \in DOMAIN accepted[d][c] /\ Tail(a.in) \in Seq(MessageType)
  BY <1>1, ReadsFacts
<1>4. m = LockReady(c, Computers)
  BY <1>2, <1>3 DEF Links, LinkOK, Established, Readies
<1>5. m.who = c /\ m.informed = Computers
  BY <1>4 DEF LockReady
<1>6. Broadcast(d, m.who, m.informed, conns, replies) /\ Notify(d, <<Gone("LOCKREADY", m.who)>>)
  BY ForwardUpFacts, Zenon
<1>7. Broadcast(d, c, Computers, conns, replies) /\ Notify(d, <<Gone("LOCKREADY", c)>>)
  BY <1>5, <1>6
<1> DEFINE q == Tail(a.in)
<1>8. q \in Seq(MessageType) /\ conns = SetIn(accepted, d, c, i, q) /\ accepted \in AcceptedType /\ replies \in RepliesType
  BY <1>3, TypeFacts
<1> HIDE DEF conns, q
<1>9. /\ conns \in AcceptedType
      /\ OnlyAt(accepted, conns, d, c)
      /\ Len(conns[d][c]) = Len(accepted[d][c])
      /\ conns[d][c][i].in = q
      /\ conns[d][c][i].open = accepted[d][c][i].open
  BY <1>3, <1>8, InEntry
<1>10. \A x, y \in Computers : accepted'[x][y] = conns[x][y] /\ replies'[x][y] = replies[x][y]
  BY <1>7, <1>8, <1>9, NothingForwarded
<1>11. OnlyAt(accepted, accepted', d, c)
  BY <1>9, <1>10 DEF OnlyAt
<1> QED BY <1>2, <1>7, <1>9, <1>10, <1>11 DEF q

\* The LOCKREADY of d comes to c, on the connection that c opened.
LEMMA DownEffect ==
    ASSUME TypeOK, Links, NEW c \in Computers, NEW d \in Computers, ForwardDown(c, d)
    PROVE  /\ c # d
           /\ d < c => object[c][d] = "accepted" /\ Notify(c, <<Gone("LOCKREADY", d)>>)
           /\ ~(d < c) => UNCHANGED notices
           /\ \A x, y \in Computers : accepted'[x][y] = accepted[x][y]
           /\ OnlyAt(replies, replies', c, d)
           /\ replies'[c][d] = Tail(replies[c][d])
<1> DEFINE m    == replies[c][d][1]
           rest == Rest(c, d)
<1>1. Hears(c, d, "LOCKREADY")
  BY Zenon DEF ForwardDown
<1>2. /\ c # d
      /\ rest \in RepliesType
      /\ OnlyAt(replies, rest, c, d)
      /\ rest[c][d] = Tail(replies[c][d])
      /\ d < c => Broadcast(c, m.who, m.informed, accepted, rest) /\ Notify(c, <<Gone("LOCKREADY", m.who)>>)
      /\ ~(d < c) => replies' = rest /\ UNCHANGED <<accepted, notices>>
  BY ForwardDownFacts
<1>3. ASSUME d < c
      PROVE  /\ object[c][d] = "accepted" /\ Notify(c, <<Gone("LOCKREADY", d)>>)
             /\ \A x, y \in Computers : accepted'[x][y] = accepted[x][y] /\ replies'[x][y] = rest[x][y]
  <2>1. object[c][d] = "accepted" /\ 1 \in DOMAIN replies[c][d]
    BY <1>1, <1>3, MayHear, HearsFacts
  <2>2. m = LockReady(d, Computers)
    BY <1>3, <2>1 DEF Links, LinkOK, Established, Readies
  <2>3. m.who = d /\ m.informed = Computers
    BY <2>2 DEF LockReady
  <2> HIDE DEF m, rest
  <2>4. Broadcast(c, d, Computers, accepted, rest) /\ Notify(c, <<Gone("LOCKREADY", d)>>)
    BY <1>2, <1>3, <2>3
  <2>5. \A x, y \in Computers : accepted'[x][y] = accepted[x][y] /\ replies'[x][y] = rest[x][y]
    BY <1>2, <2>4, TypeFacts, NothingForwarded
  <2> QED BY <2>1, <2>4, <2>5
<1> HIDE DEF rest, m
<1>4. \A x, y \in Computers : accepted'[x][y] = accepted[x][y] /\ replies'[x][y] = rest[x][y]
  BY <1>2, <1>3
<1>5. OnlyAt(replies, replies', c, d) /\ replies'[c][d] = Tail(replies[c][d])
  BY <1>2, <1>4 DEF OnlyAt
<1> QED BY <1>2, <1>3, <1>4, <1>5

\* A LOCKREADY that arrives leaves the links as they are.
LEMMA LinksForward ==
    ASSUME TypeOK, Pairs, Links, NoDisconnect, Joined, NEW c \in Computers, NEW d \in Computers,
           ForwardDown(c, d) \/ \E i \in 1 .. MaxOpen : ForwardUp(d, c, i)
    PROVE  Links' /\ NoDisconnect' /\ Joined'
<1>1. UNCHANGED <<object, registered>>
  BY Zenon DEF ForwardDown, ForwardUp
<1>2. CASE ForwardDown(c, d)
  <2> DEFINE r == replies[c][d]
  <2>1. /\ c # d
        /\ \A x, y \in Computers : accepted'[x][y] = accepted[x][y]
        /\ OnlyAt(replies, replies', c, d)
        /\ replies'[c][d] = Tail(r)
    BY <1>2, DownEffect
  <2>2. \A k \in DOMAIN Tail(r) : k + 1 \in DOMAIN r /\ Tail(r)[k] = r[k + 1]
    BY <1>2, HearsFacts, Zenon DEF ForwardDown
  <2> DEFINE q == Tail(r)
  <2>3. /\ \A k \in DOMAIN q : k + 1 \in DOMAIN r /\ q[k] = r[k + 1]
        /\ replies'[c][d] = q
    BY <2>1, <2>2
  <2> HIDE DEF q
  <2>4. ASSUME d < c PROVE LinkOK(c, d, object'[c][d], accepted'[d][c], replies'[c][d])
    <3> DEFINE s == accepted[d][c]
    <3>1. object[c][d] = "accepted"
      BY <1>2, <2>4, DownEffect
    <3>2. Established(c, d, s, r)
      BY <2>4, <3>1 DEF Links, LinkOK
    <3> HIDE DEF s, r
    <3>3. Established(c, d, s, q)
      BY <2>3, <3>2 DEF Established, Readies
    <3>4. LinkOK(c, d, object[c][d], s, q)
      BY <3>1, <3>3 DEF LinkOK
    <3> QED BY <1>1, <2>1, <2>3, <3>4 DEF s
  <2>5. Links'
    BY <1>1, <2>1, <2>4 DEF Links, OnlyAt
  <2>6. ASSUME c < d PROVE \A k \in DOMAIN replies'[c][d] : replies'[c][d][k].cmd # "DISCONNECT"
    <3>1. \A k \in DOMAIN r : r[k].cmd # "DISCONNECT"
      BY <2>6 DEF NoDisconnect
    <3> HIDE DEF r
    <3> QED BY <2>3, <3>1
  <2>7. NoDisconnect'
    <3>1. OnlyAt(replies, replies', c, d)
      BY <2>1
    <3> HIDE DEF r
    <3> QED BY <2>6, <3>1 DEF NoDisconnect, OnlyAt
  <2>8. Joined'
    BY <1>1, <2>1, JoinedKept
  <2> QED BY <2>5, <2>7, <2>8
<1>3. ASSUME NEW i, ForwardUp(d, c, i) PROVE Links' /\ NoDisconnect' /\ Joined'
  <2> DEFINE s == accepted[d][c]
             t == accepted'[d][c]
             r == replies[c][d]
  <2>1. /\ d < c /\ i = 1 /\ object[c][d] = "accepted"
        /\ OnlyAt(accepted, accepted', d, c)
        /\ Len(t) = Len(s)
        /\ t[1].in = Tail(s[1].in)
        /\ t[1].open = s[1].open
        /\ \A x, y \in Computers : replies'[x][y] = replies[x][y]
    BY <1>3, UpEffect, Zenon
  <2>2. \A k \in DOMAIN Tail(s[1].in) : k + 1 \in DOMAIN s[1].in /\ Tail(s[1].in)[k] = s[1].in[k + 1]
    <3>1. Reads(d, c, i, "LOCKREADY")
      BY <1>3, Zenon DEF ForwardUp
    <3> QED BY <2>1, <3>1, ReadsFacts
  <2>3. Established(c, d, s, r)
    BY <2>1 DEF Links, LinkOK
  <2>4. ~(c < d)
    BY <2>1, ComputersAssumption
  <2> HIDE DEF s, t, r
  <2>5. Readies(Tail(s[1].in), c)
    BY <2>2, <2>3 DEF Established, Readies
  <2>6. Established(c, d, t, r)
    BY <2>1, <2>3, <2>5 DEF Established
  <2>7. LinkOK(c, d, object[c][d], t, r)
    BY <2>1, <2>6 DEF LinkOK
  <2>8. LinkOK(c, d, object'[c][d], accepted'[d][c], replies'[c][d])
    BY <1>1, <2>1, <2>7 DEF t, r
  <2>9. Links'
    BY <1>1, <2>1, <2>8 DEF Links, OnlyAt
  <2>10. NoDisconnect'
    BY <2>1 DEF NoDisconnect
  <2>11. \A u, l \in Computers : l < u => accepted'[u][l] = accepted[u][l]
    BY <2>1, <2>4 DEF OnlyAt
  <2>12. Joined'
    BY <1>1, <2>11, JoinedKept
  <2> QED BY <2>9, <2>10, <2>12
<1> QED BY <1>2, <1>3

\* A snaplock sends its LOCKREADY only while all its links are up.
LEMMA LockConns ==
    ASSUME TypeOK, Joined, LinksFirst, NEW c \in Computers, Register(c) \/ LockStop(c) \/ LockStep(c)
    PROVE  /\ UNCHANGED object
           /\ \/ UNCHANGED <<accepted, replies>>
              \/ AllLinked(c) /\ Broadcast(c, c, {}, accepted, replies)
<1>1. UNCHANGED object
  BY Zenon DEF Register, LockStop, LockStep, lockready, lockgone, interpret_status, linkVars
<1>2. ASSUME NEW rest, SendLockReady(c, rest)
      PROVE  \/ UNCHANGED <<accepted, replies>>
             \/ registered'[c] /\ Broadcast(c, c, {}, accepted, replies)
  BY <1>2, Zenon DEF SendLockReady
<1>3. CASE Register(c)
  <2>1. AllLinked(c)
    BY <1>3, SettledIsLinked DEF Register
  <2>2. SendLockReady(c, notices[c])
    BY <1>3, Zenon DEF Register
  <2> QED BY <1>1, <1>2, <2>1, <2>2
<1>4. CASE LockStop(c)
  BY <1>1, <1>4 DEF LockStop, linkVars
<1>5. CASE LockStep(c)
  <2>1. UNCHANGED registered
    BY <1>5, Zenon DEF LockStep, lockready, lockgone, interpret_status
  <2>2. \/ UNCHANGED <<accepted, replies>>
        \/ registered'[c] /\ Broadcast(c, c, {}, accepted, replies)
    BY <1>2, <1>5, Zenon DEF LockStep, lockready, lockgone, interpret_status, linkVars
  <2> QED BY <1>1, <2>1, <2>2, RegisteredIsLinked
<1> QED BY <1>3, <1>4, <1>5

\* What a snaplock does leaves the links as they are.
LEMMA LinksLock ==
    ASSUME TypeOK, Links, NoDisconnect, Joined, LinksFirst, NEW c \in Computers,
           Register(c) \/ LockStop(c) \/ LockStep(c)
    PROVE  Links' /\ NoDisconnect' /\ Joined'
<1>1. UNCHANGED object
  BY LockConns
<1>2. /\ Links' /\ NoDisconnect'
      /\ \A u, l \in Computers : l < u => accepted'[u][l] = accepted[u][l]
  <2>1. CASE UNCHANGED <<accepted, replies>>
    BY <1>1, <2>1 DEF Links, NoDisconnect
  <2>2. CASE AllLinked(c) /\ Broadcast(c, c, {}, accepted, replies)
    BY <1>1, <2>2, LinksSent
  <2> QED BY <2>1, <2>2, LockConns
<1>3. Joined'
  <2>1. CASE Register(c)
    <3>1. AllLinked(c) /\ registered' = [registered EXCEPT ![c] = TRUE]
      BY <2>1, SettledIsLinked DEF Register
    <3>2. \A x \in Computers : registered'[x] => registered[x] \/ x = c
      BY <3>1 DEF TypeOK
    <3>3. AllLinked(c)'
      BY <1>1, <1>2, <3>1 DEF AllLinked
    <3> QED BY <1>1, <1>2, <3>2, <3>3 DEF Joined, AllLinked
  <2>2. CASE LockStop(c) \/ LockStep(c)
    <3>1. registered' = [registered EXCEPT ![c] = FALSE] \/ UNCHANGED registered
      BY <2>2, Zenon DEF LockStop, LockStep, lockready, lockgone, interpret_status
    <3>2. \A x \in Computers : registered'[x] => registered[x]
      BY <3>1 DEF TypeOK
    <3> QED BY <1>1, <1>2, <3>2, JoinedKept
  <2> QED BY <2>1, <2>2
<1> QED BY <1>2, <1>3

\* Every step keeps the links, as long as no process ends.
LEMMA LinksKept ==
    ASSUME TypeOK, Pairs, Known, Links, NoDisconnect, Joined, LinksFirst, [RingNext]_vars,
           \A x \in Computers : ~Quits(x)
    PROVE  Links' /\ NoDisconnect' /\ Joined'
<1>1. CASE UNCHANGED vars
  BY <1>1 DEF vars, linkVars, Links, NoDisconnect, Joined
<1>2. ASSUME NEW c \in Computers, NEW d \in Computers,
             Connect(c, d) \/ ProcessAccept(c, d) \/ Hangs(c, d) \/ Detect(c, d)
      PROVE  Links' /\ NoDisconnect' /\ Joined'
  BY <1>2, LinksConnect, LinksAccept, LinksHangs, LinksDetect
<1>3. ASSUME NEW c \in Computers, NEW d \in Computers, NEW i \in 1 .. MaxOpen,
             ProcessConnect(d, c, i) \/ ProcessGossip(d, c, i) \/ ProcessDisconnect(d, c, i) \/ ProcessHup(d, c, i)
      PROVE  Links' /\ NoDisconnect' /\ Joined'
  BY <1>3, LinksProcessConnect, LinksProcessGossip, LinksServiceEnd
<1>4. ASSUME NEW c \in Computers, Start(c) \/ StartCut(c) \/ Quits(c)
      PROVE  Links' /\ NoDisconnect' /\ Joined'
  BY <1>4, LinksStart, LinksStartCut
<1>5. ASSUME NEW c \in Computers, NEW d \in Computers, ForwardDown(c, d) \/ \E i \in 1 .. MaxOpen : ForwardUp(d, c, i)
      PROVE  Links' /\ NoDisconnect' /\ Joined'
  BY <1>5, LinksForward
<1>6. ASSUME NEW c \in Computers, Register(c) \/ LockStop(c) \/ LockStep(c)
      PROVE  Links' /\ NoDisconnect' /\ Joined'
  BY <1>6, LinksLock
<1> QED BY <1>1, <1>2, <1>3, <1>4, <1>5, <1>6, Steps, Zenon

-----------------------------------------------------------------------------
(* The LOCKREADY messages on their way.                                    *)

\* A LOCKREADY of d is on the link to c.
Transit(d, c) == IF d < c THEN object[c][d] = "accepted" /\ Len(replies[c][d]) # 0
                          ELSE object[d][c] = "accepted" /\ Len(accepted[c][d][1].in) # 0

\* The snaplock of c was sent a LOCKREADY of d that it has not processed.
Noticed(d, c) == \E k \in DOMAIN notices[c] : notices[c][k] = Gone("LOCKREADY", d)

\* A snaplock is registered from its start to its end, and hears of no computer
\* that is lost.
Locks  == \A c \in Computers : (registered[c] <=> lockd[c]) /\ (lockd[c] => lockStarts[c] # 0)
NoLoss == \A c \in Computers : \A k \in DOMAIN notices[c] : notices[c][k].cmd \in {"LOCKREADY", "STATUS"}

\* Nobody knows of a snaplock that was never started.
Fresh == \A d \in Computers : lockStarts[d] = 0 =>
             \A c \in Computers : d \notin computers[c] /\ ~Noticed(d, c) /\ (c # d => ~Transit(d, c))

\* c counts d, or will once it read what was sent to it ...
WillHear(c, d) == d \in computers[c] \/ Noticed(d, c) \/ (c # d /\ Transit(d, c))

\* ... or d will answer to c.
WillAnswer(d, c) == c # d /\ c \notin computers[d] /\ (Noticed(c, d) \/ Transit(c, d))

\* Of two registered snaplocks each one will know the other.
Know == \A c, d \in Computers : registered[c] /\ registered[d] => WillHear(c, d) \/ WillAnswer(d, c)

\* No snaplock was started at first.
LEMMA RingInitially == RingInit => Locks /\ NoLoss /\ Fresh /\ Know
<1> SUFFICES ASSUME RingInit PROVE Locks /\ NoLoss /\ Fresh /\ Know
  OBVIOUS
<1>1. \A c, d \in Computers : /\ object[c][d] = "none" /\ ~registered[c] /\ ~lockd[c] /\ computers[c] = {}
                              /\ notices[c] = <<>>
  BY DEF RingInit, Init
<1> QED BY <1>1 DEF Locks, NoLoss, Fresh, Know, Noticed, Transit

\* Nothing happens to the LOCKREADY messages and to the snaplocks.
LEMMA RingSame ==
    ASSUME Locks, Fresh, Know, UNCHANGED <<registered, ringVars>>,
           \A c, d \in Computers : c # d => (Transit(d, c)' <=> Transit(d, c)),
           \A c, d \in Computers : Noticed(d, c)' <=> Noticed(d, c)
    PROVE  Locks' /\ Fresh' /\ Know'
<1>1. Locks'
  BY DEF Locks, ringVars
<1>2. UNCHANGED <<registered, lockStarts, computers>>
  BY DEF ringVars
<1>3. Fresh'
  BY <1>2 DEF Fresh
<1>4. Know'
  BY <1>2 DEF Know, WillHear, WillAnswer
<1> QED BY <1>1, <1>3, <1>4

\* The LOCKREADY of f came to g.
LEMMA RingArrives ==
    ASSUME Locks, Fresh, Know, UNCHANGED <<registered, ringVars>>, NEW f \in Computers, NEW g \in Computers, f # g,
           Transit(f, g),
           \A c, d \in Computers : c # d /\ (d # f \/ c # g) => (Transit(d, c)' <=> Transit(d, c)),
           \A c, d \in Computers : Noticed(d, c) => Noticed(d, c)',
           \A c, d \in Computers : Noticed(d, c)' => Noticed(d, c) \/ (d = f /\ c = g),
           registered[g] => Noticed(f, g)'
    PROVE  Locks' /\ Fresh' /\ Know'
<1>1. Locks'
  BY DEF Locks, ringVars
<1>2. UNCHANGED <<registered, lockStarts, computers>>
  BY DEF ringVars
<1>3. lockStarts[f] # 0
  BY DEF Fresh
<1>4. Fresh'
  BY <1>2, <1>3 DEF Fresh
<1>5. ASSUME NEW c \in Computers, NEW d \in Computers, registered[c], registered[d]
      PROVE  (WillHear(c, d) \/ WillAnswer(d, c))'
  <2>1. WillHear(c, d) \/ WillAnswer(d, c)
    BY <1>5 DEF Know
  <2>2. CASE WillHear(c, d)
    BY <1>2, <1>5, <2>2 DEF WillHear
  <2>3. CASE WillAnswer(d, c)
    BY <1>2, <1>5, <2>3 DEF WillAnswer
  <2> QED BY <2>1, <2>2, <2>3
<1>6. Know'
  BY <1>2, <1>5 DEF Know
<1> QED BY <1>1, <1>4, <1>6

\* The snaplock of c starts: it sends its LOCKREADY to everybody, and nobody knows it.
LEMMA RingRegister ==
    ASSUME Locks, Fresh, Know, NEW c \in Computers,
           \A x \in Computers : registered'[x] = IF x = c THEN TRUE ELSE registered[x],
           \A x \in Computers : lockd'[x] = IF x = c THEN TRUE ELSE lockd[x],
           \A x \in Computers \ {c} : lockStarts'[x] = lockStarts[x],
           lockStarts[c] = 0, lockStarts'[c] # 0, UNCHANGED computers,
           \A y \in Computers \ {c} : Transit(c, y)',
           \A x, d \in Computers : x # d /\ d # c => (Transit(d, x)' <=> Transit(d, x)),
           \A x, d \in Computers : d # c \/ x # c => (Noticed(d, x)' <=> Noticed(d, x)),
           Noticed(c, c)'
    PROVE  Locks' /\ Fresh' /\ Know'
<1>1. Locks'
  BY DEF Locks
<1>2. Fresh'
  BY DEF Fresh
<1>3. ASSUME NEW x \in Computers, NEW d \in Computers, registered'[x], registered'[d]
      PROVE  (WillHear(x, d) \/ WillAnswer(d, x))'
  <2>1. CASE d = c
    BY <2>1 DEF WillHear
  <2>2. CASE d # c /\ x = c
    BY <2>2 DEF WillAnswer, Fresh
  <2>3. CASE d # c /\ x # c
    <3>1. WillHear(x, d) \/ WillAnswer(d, x)
      BY <1>3, <2>3 DEF Know
    <3>2. CASE WillHear(x, d)
      BY <2>3, <3>2 DEF WillHear
    <3>3. CASE WillAnswer(d, x)
      BY <2>3, <3>3 DEF WillAnswer
    <3> QED BY <3>1, <3>2, <3>3
  <2> QED BY <2>1, <2>2, <2>3
<1>4. Know'
  BY <1>3 DEF Know
<1> QED BY <1>1, <1>2, <1>4

\* The snaplock of c ends.
LEMMA RingStop ==
    ASSUME Locks, Fresh, Know, NEW c \in Computers,
           \A x \in Computers : registered'[x] = IF x = c THEN FALSE ELSE registered[x],
           \A x \in Computers : lockd'[x] = IF x = c THEN FALSE ELSE lockd[x],
           UNCHANGED lockStarts,
           \A x \in Computers : computers'[x] = IF x = c THEN {} ELSE computers[x],
           \A x, d \in Computers : x # d => (Transit(d, x)' <=> Transit(d, x)),
           \A x, d \in Computers : Noticed(d, x)' <=> x # c /\ Noticed(d, x)
    PROVE  Locks' /\ Fresh' /\ Know'
<1>1. Locks'
  BY DEF Locks
<1>2. Fresh'
  BY DEF Fresh
<1>3. ASSUME NEW x \in Computers, NEW d \in Computers, registered'[x], registered'[d]
      PROVE  (WillHear(x, d) \/ WillAnswer(d, x))'
  <2>1. x # c /\ d # c /\ (WillHear(x, d) \/ WillAnswer(d, x))
    BY <1>3 DEF Know
  <2>2. CASE WillHear(x, d)
    BY <2>1, <2>2 DEF WillHear
  <2>3. CASE WillAnswer(d, x)
    BY <2>1, <2>3 DEF WillAnswer
  <2> QED BY <2>1, <2>2, <2>3
<1>4. Know'
  BY <1>3 DEF Know
<1> QED BY <1>1, <1>2, <1>4

\* lockready() of c processes the LOCKREADY of w, and answers if w is new.
LEMMA RingReady ==
    ASSUME Locks, Fresh, Know, NEW c \in Computers, NEW w \in Computers, Noticed(w, c), registered[c],
           UNCHANGED <<registered, lockd, lockStarts>>,
           \A x \in Computers : computers'[x] = IF x = c THEN computers[c] \cup {w} ELSE computers[x],
           \A x, d \in Computers : x # d => (Transit(d, x) => Transit(d, x)'),
           \A x, d \in Computers : x # d /\ d # c => (Transit(d, x)' => Transit(d, x)),
           w # c /\ w \notin computers[c] => Transit(c, w)',
           \A x, d \in Computers : x # c \/ d # w => (Noticed(d, x) => Noticed(d, x)'),
           \A x, d \in Computers : Noticed(d, x)' => Noticed(d, x) \/ (d = c /\ x = c)
    PROVE  Locks' /\ Fresh' /\ Know'
<1>1. Locks'
  BY DEF Locks
<1>2. lockStarts[w] # 0 /\ lockStarts[c] # 0
  BY DEF Fresh, Locks
<1>3. Fresh'
  BY <1>2 DEF Fresh
<1>4. ASSUME NEW x \in Computers, NEW d \in Computers, registered'[x], registered'[d]
      PROVE  (WillHear(x, d) \/ WillAnswer(d, x))'
  <2>1. WillHear(x, d) \/ WillAnswer(d, x)
    BY <1>4 DEF Know
  <2>2. CASE WillHear(x, d)
    BY <2>2 DEF WillHear
  <2>3. CASE WillAnswer(d, x)
    <3>1. CASE d = c /\ x = w
      BY <2>3, <3>1 DEF WillAnswer, WillHear
    <3>2. CASE d # c \/ x # w
      BY <2>3, <3>2 DEF WillAnswer
    <3> QED BY <3>1, <3>2
  <2> QED BY <2>1, <2>2, <2>3
<1>5. Know'
  BY <1>4 DEF Know
<1> QED BY <1>1, <1>3, <1>5

-----------------------------------------------------------------------------
(* The steps, and the LOCKREADY messages.                                  *)

\* A silent step neither sends nor delivers a LOCKREADY.
LEMMA SilentTransit ==
    ASSUME Silent
    PROVE  \A c, d \in Computers : c # d => (Transit(d, c)' <=> Transit(d, c))
<1> SUFFICES ASSUME NEW c \in Computers, NEW d \in Computers, c # d
             PROVE  Transit(d, c)' <=> Transit(d, c)
  OBVIOUS
<1>1. CASE d < c
  <2>1. SameTraffic(c, d)
    BY <1>1 DEF Silent
  <2> QED BY <1>1, <2>1 DEF SameTraffic, Transit
<1>2. CASE c < d
  <2>1. SameTraffic(d, c) /\ ~(d < c)
    BY <1>2, ComputersAssumption DEF Silent
  <2> QED BY <2>1 DEF SameTraffic, Transit
<1> QED BY <1>1, <1>2, ComputersAssumption

\* Notify() adds the notice if the local snaplock is registered.
LEMMA NotifyOne ==
    ASSUME TypeOK, NEW c \in Computers, NEW m \in NoticeType, Notify(c, <<m>>)
    PROVE  /\ \A x \in Computers \ {c} : notices'[x] = notices[x]
           /\ notices'[c] = IF registered[c] THEN Append(notices[c], m) ELSE notices[c]
<1>1. notices[c] \o <<m>> = Append(notices[c], m)
  <2>1. notices[c] \in Seq(NoticeType)
    BY TypeFacts
  <2> QED BY <2>1, AppendIsConcat
<1>2. notices' = [notices EXCEPT ![c] = IF registered[c] THEN notices[c] \o <<m>> ELSE notices[c]]
  BY DEF Notify
<1> DEFINE s == IF registered[c] THEN notices[c] \o <<m>> ELSE notices[c]
<1>3. notices' = [notices EXCEPT ![c] = s] /\ s = IF registered[c] THEN Append(notices[c], m) ELSE notices[c]
  BY <1>1, <1>2
<1>4. DOMAIN notices = Computers
  BY DEF TypeOK
<1> HIDE DEF s
<1> QED BY <1>3, <1>4

\* A notice is added, or none is.
LEMMA NoticeAdded ==
    ASSUME TypeOK, NoLoss, NEW c \in Computers, NEW m \in NoticeType, m.cmd \in {"LOCKREADY", "STATUS"},
           \A x \in Computers \ {c} : notices'[x] = notices[x],
           notices'[c] = Append(notices[c], m) \/ notices'[c] = notices[c]
    PROVE  /\ NoLoss'
           /\ \A x, d \in Computers : Noticed(d, x) => Noticed(d, x)'
           /\ \A x, d \in Computers : Noticed(d, x)' => Noticed(d, x) \/ (x = c /\ m = Gone("LOCKREADY", d))
           /\ notices'[c] = Append(notices[c], m) => \E k \in DOMAIN notices'[c] : notices'[c][k] = m
<1> DEFINE s == notices[c]
           t == notices'[c]
<1>1. s \in Seq(NoticeType)
  BY TypeFacts
<1>2. t = Append(s, m) \/ t = s
  OBVIOUS
<1>3. s = notices[c] /\ t = notices'[c]
  OBVIOUS
<1> HIDE DEF s, t
<1>4. /\ \A k \in DOMAIN s : k \in DOMAIN t /\ t[k] = s[k]
      /\ \A k \in DOMAIN t : (k \in DOMAIN s /\ t[k] = s[k]) \/ t[k] = m
      /\ t = Append(s, m) => \E k \in DOMAIN t : t[k] = m
  <2>1. /\ \A k \in DOMAIN s : k \in DOMAIN Append(s, m) /\ Append(s, m)[k] = s[k]
        /\ Len(s) + 1 \in DOMAIN Append(s, m) /\ Append(s, m)[Len(s) + 1] = m
    BY <1>1
  <2>2. \A k \in DOMAIN Append(s, m) : (k \in DOMAIN s /\ Append(s, m)[k] = s[k]) \/ Append(s, m)[k] = m
    BY <1>1, Appended
  <2> QED BY <1>2, <2>1, <2>2
<1>5. NoLoss'
  BY <1>3, <1>4 DEF NoLoss
<1>6. \A x, d \in Computers : Noticed(d, x) => Noticed(d, x)'
  BY <1>3, <1>4 DEF Noticed
<1>7. \A x, d \in Computers : Noticed(d, x)' => Noticed(d, x) \/ (x = c /\ m = Gone("LOCKREADY", d))
  BY <1>3, <1>4 DEF Noticed
<1> QED BY <1>3, <1>4, <1>5, <1>6, <1>7

\* While nothing ends, a snapcommunicator tells its services of the state of a
\* connection, and of nothing that is lost.
LEMMA LinkNotices ==
    ASSUME TypeOK, Pairs, Links, NoDisconnect, Joined, NEW c \in Computers, NEW d \in Computers, NEW i,
           \/ Connect(c, d) \/ ProcessAccept(c, d) \/ Hangs(c, d) \/ Detect(c, d)
           \/ ProcessConnect(d, c, i) \/ ProcessGossip(d, c, i) \/ ProcessDisconnect(d, c, i) \/ ProcessHup(d, c, i)
    PROVE  \/ UNCHANGED notices
           \/ \E x, y \in Computers : Notify(x, <<Status(ConnectionFrom(y))>>) \/ Notify(x, <<Status(ConnectionTo(y))>>)
<1>1. ASSUME NEW x \in Computers, NEW ms, ~registered[x] \/ ms = <<>>, Notify(x, ms) PROVE UNCHANGED notices
  <2>1. notices[x] \o <<>> = notices[x]
    <3>1. notices[x] \in Seq(NoticeType)
      BY TypeFacts
    <3> QED BY <3>1, ConcatEmptySeq
  <2>2. notices' = [notices EXCEPT ![x] = notices[x]]
    BY <1>1, <2>1 DEF Notify
  <2>3. notices' = notices
    BY <2>2 DEF TypeOK
  <2> QED BY <2>3
<1>2. CASE Connect(c, d)
  <2>1. CASE d < c
    BY <1>2, <2>1, Zenon DEF Connect
  <2>2. CASE ~(d < c)
    <3>1. Notify(c, <<>>)
      BY <1>2, <2>2, Zenon DEF Connect
    <3> QED BY <1>1, <3>1
  <2> QED BY <2>1, <2>2
<1>3. CASE ProcessAccept(c, d) \/ Detect(c, d) \/ ProcessGossip(d, c, i)
  BY <1>3, Zenon DEF ProcessAccept, Detect, ProcessGossip
<1>4. CASE Hangs(c, d)
  <2>1. ASSUME ProcessRemoteDisconnect(c, d) PROVE FALSE
    <3>1. Hears(c, d, "DISCONNECT")
      BY <2>1, Zenon DEF ProcessRemoteDisconnect
    <3>2. ~(d < c)
      BY <3>1, MayHear
    <3>3. c < d /\ 1 \in DOMAIN replies[c][d] /\ replies[c][d][1].cmd = "DISCONNECT"
      <4>1. c # d /\ 1 \in DOMAIN replies[c][d] /\ replies[c][d][1].cmd = "DISCONNECT"
        BY <3>1, HearsFacts
      <4> QED BY <3>2, <4>1, ComputersAssumption
    <3> QED BY <3>3 DEF NoDisconnect
  <2> QED BY <1>4, <2>1, Zenon DEF Hangs, ProcessRefuse, ProcessRemoteHup, ProcessReceived
<1>5. CASE ProcessConnect(d, c, i)
  BY <1>5, Zenon DEF ProcessConnect
<1>6. CASE ProcessDisconnect(d, c, i) \/ ProcessHup(d, c, i)
  <2>1. ProcessHup(d, c, i) /\ (d < c => object[c][d] = "idle")
    BY <1>6, LinksServiceEnd
  <2> DEFINE ms == (IF accepted[d][c][i].named THEN <<Gone("HANGUP", c)>> ELSE <<>>) \o <<Status(ConnectionFrom(c))>>
  <2>2. Notify(d, ms) /\ Reads(d, c, i, "EOF")
    BY <2>1, Zenon DEF ProcessHup
  <2>3. CASE ~registered[d]
    <3> HIDE DEF ms
    <3> QED BY <1>1, <2>2, <2>3
  <2>4. CASE registered[d]
    <3>1. ~(d < c)
      BY <2>1, <2>4 DEF Joined
    <3>2. c # d /\ i \in DOMAIN accepted[d][c]
      BY <2>2, ReadsFacts
    <3>3. c < d
      BY <3>1, <3>2, ComputersAssumption
    <3>4. ~accepted[d][c][i].named
      BY <3>2, <3>3 DEF Pairs, PairOK, Gossiping
    <3>5. ms = <<>> \o <<Status(ConnectionFrom(c))>>
      BY <3>4
    <3>6. <<Status(ConnectionFrom(c))>> \in Seq(NoticeType)
      BY NoticeTypes
    <3>7. ms = <<Status(ConnectionFrom(c))>>
      <4> DEFINE e == <<Status(ConnectionFrom(c))>>
      <4> HIDE DEF e
      <4>1. e \in Seq(NoticeType)
        BY <3>6 DEF e
      <4>2. <<>> \o e = e
        BY <4>1, ConcatEmptySeq
      <4> QED BY <3>5, <4>2, Zenon DEF e
    <3> HIDE DEF ms
    <3> QED BY <2>2, <3>7, Zenon
  <2> QED BY <2>3, <2>4
<1> QED BY <1>2, <1>3, <1>4, <1>5, <1>6

\* A STATUS is not a LOCKREADY.
LEMMA StatusIsNoReady ==
    ASSUME NEW n PROVE Status(n).cmd = "STATUS" /\ \A d \in Computers : Status(n) # Gone("LOCKREADY", d)
<1>1. Status(n).cmd = "STATUS" /\ \A d \in Computers : Gone("LOCKREADY", d).cmd = "LOCKREADY"
  BY DEF Status, Gone
<1> QED BY <1>1

\* The Notify() of a STATUS changes nothing for the ring.
LEMMA StatusNoticed ==
    ASSUME TypeOK, NoLoss, NEW x \in Computers, NEW y \in Computers,
           Notify(x, <<Status(ConnectionFrom(y))>>) \/ Notify(x, <<Status(ConnectionTo(y))>>)
    PROVE  NoLoss' /\ \A c, d \in Computers : Noticed(d, c)' <=> Noticed(d, c)
<1>1. ASSUME NEW m \in NoticeType, m.cmd = "STATUS", \A d \in Computers : m # Gone("LOCKREADY", d), Notify(x, <<m>>)
      PROVE  NoLoss' /\ \A c, d \in Computers : Noticed(d, c)' <=> Noticed(d, c)
  <2>1. /\ \A z \in Computers \ {x} : notices'[z] = notices[z]
        /\ notices'[x] = Append(notices[x], m) \/ notices'[x] = notices[x]
    BY <1>1, NotifyOne
  <2>2. m.cmd \in {"LOCKREADY", "STATUS"}
    BY <1>1
  <2>3. /\ NoLoss'
        /\ \A z, d \in Computers : Noticed(d, z) => Noticed(d, z)'
        /\ \A z, d \in Computers : Noticed(d, z)' => Noticed(d, z) \/ (z = x /\ m = Gone("LOCKREADY", d))
    BY <1>1, <2>1, <2>2, NoticeAdded
  <2> QED BY <1>1, <2>3
<1>2. Status(ConnectionFrom(y)) \in NoticeType /\ Status(ConnectionTo(y)) \in NoticeType
  BY NoticeTypes
<1> DEFINE m1 == Status(ConnectionFrom(y))
           m2 == Status(ConnectionTo(y))
<1>3. /\ m1 \in NoticeType /\ m1.cmd = "STATUS" /\ \A d \in Computers : m1 # Gone("LOCKREADY", d)
      /\ m2 \in NoticeType /\ m2.cmd = "STATUS" /\ \A d \in Computers : m2 # Gone("LOCKREADY", d)
  BY <1>2, StatusIsNoReady
<1>4. Notify(x, <<m1>>) \/ Notify(x, <<m2>>)
  OBVIOUS
<1> HIDE DEF m1, m2
<1> QED BY <1>1, <1>3, <1>4

\* The snapcommunicators connect, and talk to each other about their links.
LEMMA RingLink ==
    ASSUME TypeOK, Pairs, Known, Links, NoDisconnect, Joined, Locks, NoLoss, Fresh, Know,
           UNCHANGED ringVars, NEW c \in Computers, NEW d \in Computers, NEW i,
           \/ Connect(c, d) \/ ProcessAccept(c, d) \/ Hangs(c, d) \/ Detect(c, d)
           \/ ProcessConnect(d, c, i) \/ ProcessGossip(d, c, i) \/ ProcessDisconnect(d, c, i) \/ ProcessHup(d, c, i)
    PROVE  Locks' /\ NoLoss' /\ Fresh' /\ Know'
<1>1. Silent
  BY LinksConnect, LinksAccept, LinksHangs, LinksDetect, LinksProcessConnect, LinksProcessGossip, LinksServiceEnd
<1>2. UNCHANGED registered
  BY Zenon DEF Connect, ProcessAccept, Hangs, ProcessRefuse, ProcessRemoteDisconnect, ProcessRemoteHup,
               ProcessReceived, Detect, ProcessConnect, ProcessGossip, ProcessDisconnect, ProcessHup
<1>3. NoLoss' /\ \A x, y \in Computers : Noticed(y, x)' <=> Noticed(y, x)
  <2>1. CASE UNCHANGED notices
    BY <2>1 DEF NoLoss, Noticed
  <2>2. ASSUME NEW x \in Computers, NEW y \in Computers,
               Notify(x, <<Status(ConnectionFrom(y))>>) \/ Notify(x, <<Status(ConnectionTo(y))>>)
        PROVE  NoLoss' /\ \A z, w \in Computers : Noticed(w, z)' <=> Noticed(w, z)
    BY <2>2, StatusNoticed
  <2> QED BY <2>1, <2>2, LinkNotices
<1>4. \A x, y \in Computers : x # y => (Transit(y, x)' <=> Transit(y, x))
  BY <1>1, SilentTransit
<1>5. UNCHANGED <<registered, ringVars>>
  BY <1>2
<1> QED BY <1>3, <1>4, <1>5, RingSame

\* A snapcommunicator starts.
LEMMA RingStart ==
    ASSUME TypeOK, Known, Links, NoDisconnect, Joined, Locks, NoLoss, Fresh, Know,
           UNCHANGED ringVars, NEW c \in Computers, Start(c)
    PROVE  Locks' /\ NoLoss' /\ Fresh' /\ Know'
<1>1. Silent
  BY LinksStart
<1>2. UNCHANGED <<registered, notices>>
  BY DEF Start
<1>3. NoLoss' /\ \A x, y \in Computers : Noticed(y, x)' <=> Noticed(y, x)
  BY <1>2 DEF NoLoss, Noticed
<1>4. \A x, y \in Computers : x # y => (Transit(y, x)' <=> Transit(y, x))
  BY <1>1, SilentTransit
<1>5. UNCHANGED <<registered, ringVars>>
  BY <1>2
<1> QED BY <1>3, <1>4, <1>5, RingSame

\* init() is cut.
LEMMA RingStartCut ==
    ASSUME Locks, NoLoss, Fresh, Know, TypeOK, UNCHANGED ringVars, NEW c \in Computers, StartCut(c)
    PROVE  Locks' /\ NoLoss' /\ Fresh' /\ Know'
<1>1. UNCHANGED <<object, accepted, replies, registered, notices, ringVars>>
  BY StartCutEffect
<1>2. NoLoss' /\ \A x, y \in Computers : Noticed(y, x)' <=> Noticed(y, x)
  BY <1>1 DEF NoLoss, Noticed
<1>3. \A x, y \in Computers : Transit(y, x)' <=> Transit(y, x)
  BY <1>1 DEF Transit
<1>4. UNCHANGED <<registered, ringVars>>
  BY <1>1
<1> QED BY <1>2, <1>3, <1>4, RingSame

\* The LOCKREADY of f is passed on to the snaplock of g.
LEMMA RingPassed ==
    ASSUME TypeOK, Locks, NoLoss, Fresh, Know, UNCHANGED <<registered, ringVars>>,
           NEW f \in Computers, NEW g \in Computers, f # g, Transit(f, g), Notify(g, <<Gone("LOCKREADY", f)>>),
           \A c, d \in Computers : c # d /\ (d # f \/ c # g) => (Transit(d, c)' <=> Transit(d, c))
    PROVE  Locks' /\ NoLoss' /\ Fresh' /\ Know'
<1> DEFINE m == Gone("LOCKREADY", f)
<1>1. m \in NoticeType /\ m.cmd \in {"LOCKREADY", "STATUS"} /\ \A d \in Computers : m = Gone("LOCKREADY", d) => d = f
  BY NoticeTypes DEF Gone
<1>2. Notify(g, <<m>>) /\ m = Gone("LOCKREADY", f)
  OBVIOUS
<1> HIDE DEF m
<1>3. /\ \A x \in Computers \ {g} : notices'[x] = notices[x]
      /\ notices'[g] = IF registered[g] THEN Append(notices[g], m) ELSE notices[g]
  BY <1>1, <1>2, NotifyOne
<1>4. /\ NoLoss'
      /\ \A x, d \in Computers : Noticed(d, x) => Noticed(d, x)'
      /\ \A x, d \in Computers : Noticed(d, x)' => Noticed(d, x) \/ (x = g /\ m = Gone("LOCKREADY", d))
      /\ notices'[g] = Append(notices[g], m) => \E k \in DOMAIN notices'[g] : notices'[g][k] = m
  BY <1>1, <1>3, NoticeAdded
<1>5. registered[g] => Noticed(f, g)'
  BY <1>2, <1>3, <1>4 DEF Noticed
<1>6. \A x, d \in Computers : Noticed(d, x)' => Noticed(d, x) \/ (d = f /\ x = g)
  BY <1>1, <1>4
<1> HIDE DEF m
<1> QED BY <1>4, <1>5, <1>6, RingArrives

\* A LOCKREADY comes from another computer.
LEMMA RingForward ==
    ASSUME TypeOK, Pairs, Links, Locks, NoLoss, Fresh, Know, NEW c \in Computers, NEW d \in Computers,
           ForwardDown(c, d) \/ \E i \in 1 .. MaxOpen : ForwardUp(d, c, i)
    PROVE  Locks' /\ NoLoss' /\ Fresh' /\ Know'
<1>1. UNCHANGED object /\ UNCHANGED <<registered, ringVars>>
  BY Zenon DEF ForwardDown, ForwardUp
<1>2. CASE ForwardDown(c, d)
  <2>1. /\ c # d
        /\ \A x, y \in Computers : accepted'[x][y] = accepted[x][y]
        /\ OnlyAt(replies, replies', c, d)
    BY <1>2, DownEffect
  <2>2. CASE d < c
    <3>1. Transit(d, c)
      <4>1. object[c][d] = "accepted" /\ 1 \in DOMAIN replies[c][d] /\ replies[c][d] \in Seq(MessageType)
        BY <1>2, <2>2, DownEffect, HearsFacts, Zenon DEF ForwardDown
      <4>2. Len(replies[c][d]) # 0
        BY <4>1
      <4> QED BY <2>2, <4>1, <4>2 DEF Transit
    <3>2. Notify(c, <<Gone("LOCKREADY", d)>>)
      BY <1>2, <2>2, DownEffect
    <3>3. \A x, y \in Computers : x # y /\ (y # d \/ x # c) => (Transit(y, x)' <=> Transit(y, x))
      BY <1>1, <2>1 DEF OnlyAt, Transit
    <3> QED BY <1>1, <2>1, <3>1, <3>2, <3>3, RingPassed
  <2>3. CASE ~(d < c)
    <3>1. UNCHANGED notices
      BY <1>2, <2>3, DownEffect
    <3>2. \A x, y \in Computers : x # y => (Transit(y, x)' <=> Transit(y, x))
      BY <1>1, <2>1, <2>3 DEF OnlyAt, Transit
    <3>3. NoLoss' /\ \A x, y \in Computers : Noticed(y, x)' <=> Noticed(y, x)
      BY <3>1 DEF NoLoss, Noticed
    <3> QED BY <1>1, <3>2, <3>3, RingSame
  <2> QED BY <2>2, <2>3
<1>3. ASSUME NEW i, ForwardUp(d, c, i) PROVE Locks' /\ NoLoss' /\ Fresh' /\ Know'
  <2>1. /\ d < c /\ i = 1 /\ object[c][d] = "accepted"
        /\ Notify(d, <<Gone("LOCKREADY", c)>>)
        /\ OnlyAt(accepted, accepted', d, c)
        /\ \A x, y \in Computers : replies'[x][y] = replies[x][y]
    BY <1>3, UpEffect, Zenon
  <2>2. c # d /\ ~(c < d)
    BY <2>1, ComputersAssumption
  <2>3. Transit(c, d)
    <3>1. Reads(d, c, i, "LOCKREADY")
      BY <1>3, Zenon DEF ForwardUp
    <3>2. accepted[d][c][1].in # <<>> /\ accepted[d][c][1].in \in Seq(MessageType)
      BY <2>1, <3>1, ReadsFacts
    <3>3. Len(accepted[d][c][1].in) # 0
      BY <3>2
    <3> QED BY <2>1, <2>2, <3>3 DEF Transit
  <2>4. \A x, y \in Computers : x # y /\ (y # c \/ x # d) => (Transit(y, x)' <=> Transit(y, x))
    BY <1>1, <2>1 DEF OnlyAt, Transit
  <2> QED BY <1>1, <2>1, <2>2, <2>3, <2>4, RingPassed
<1> QED BY <1>2, <1>3

\* The LOCKREADY of a snaplock is on its way to every other one.
LEMMA SentTransit ==
    ASSUME TypeOK, Links, NEW c \in Computers, AllLinked(c), Broadcast(c, c, {}, accepted, replies), UNCHANGED object
    PROVE  /\ \A y \in Computers \ {c} : Transit(c, y)'
           /\ \A x, d \in Computers : x # d /\ d # c => (Transit(d, x)' <=> Transit(d, x))
<1> DEFINE m == LockReady(c, Computers)
<1>1. /\ m \in MessageType
      /\ \A d, x \in Computers : accepted'[d][x] = IF x = c /\ d < c THEN Sent(accepted[d][x], m) ELSE accepted[d][x]
      /\ \A x, d \in Computers : replies'[x][d] = IF d = c /\ c < x THEN Append(replies[x][d], m) ELSE replies[x][d]
  BY LockReadySent
<1> HIDE DEF m
<1>2. m \in MessageType
  BY <1>1
<1>3. \A x, d \in Computers : x # d /\ d # c => (Transit(d, x)' <=> Transit(d, x))
  BY <1>1 DEF Transit
<1>4. ASSUME NEW y \in Computers, c < y PROVE Transit(c, y)'
  <2>1. replies'[y][c] = Append(replies[y][c], m) /\ replies[y][c] \in Seq(MessageType)
    BY <1>1, <1>4, TypeFacts
  <2>2. Len(Append(replies[y][c], m)) # 0
    BY <1>2, <2>1
  <2>3. object[y][c] = "accepted"
    BY <1>4 DEF AllLinked
  <2> QED BY <1>4, <2>1, <2>2, <2>3 DEF Transit
<1>5. ASSUME NEW y \in Computers, y < c PROVE Transit(c, y)'
  <2> DEFINE s == accepted[y][c]
  <2>1. accepted'[y][c] = Sent(s, m) /\ s \in Seq(ServiceType) /\ ~(c < y)
    <3>1. ~(c < y)
      BY <1>5, ComputersAssumption
    <3> QED BY <1>1, <1>5, <3>1, TypeFacts
  <2>2. object[c][y] = "accepted"
    BY <1>5 DEF AllLinked
  <2>3. Established(c, y, s, replies[c][y])
    BY <1>5, <2>2 DEF Links, LinkOK
  <2>4. 1 \in DOMAIN s /\ s[1].open
    BY <2>1, <2>3 DEF Established
  <2>5. s[1].in \in Seq(MessageType)
    BY <2>4, TypeFacts
  <2> HIDE DEF s
  <2>6. Sent(s, m)[1].in = Append(s[1].in, m)
    <3>1. Sent(s, m)[1].in = IF s[1].open THEN Append(s[1].in, m) ELSE s[1].in
      BY <1>2, <2>1, <2>4, SentConns, Zenon
    <3> QED BY <2>4, <3>1
  <2>7. Len(Append(s[1].in, m)) # 0
    BY <1>2, <2>5
  <2>8. Len(accepted'[y][c][1].in) # 0
    BY <2>1, <2>6, <2>7
  <2> QED BY <2>1, <2>2, <2>8 DEF Transit
<1>6. \A y \in Computers \ {c} : c < y \/ y < c
  BY ComputersAssumption
<1> QED BY <1>3, <1>4, <1>5, <1>6

\* send_lockready(): what c has not read yet becomes rest, and its own LOCKREADY.
LEMMA SendsNotice ==
    ASSUME TypeOK, NEW c \in Computers, NEW rest, registered'[c], SendLockReady(c, rest)
    PROVE  /\ \A x \in Computers \ {c} : notices'[x] = notices[x]
           /\ notices'[c] = Append(rest, Gone("LOCKREADY", c))
           /\ Broadcast(c, c, {}, accepted, replies)
<1>1. notices' = [notices EXCEPT ![c] = Append(rest, Gone("LOCKREADY", c))] /\ Broadcast(c, c, {}, accepted, replies)
  BY Zenon DEF SendLockReady
<1> DEFINE s == Append(rest, Gone("LOCKREADY", c))
<1> HIDE DEF s
<1>2. notices' = [notices EXCEPT ![c] = s] /\ DOMAIN notices = Computers
  BY <1>1 DEF s, TypeOK
<1>3. (\A x \in Computers \ {c} : notices'[x] = notices[x]) /\ notices'[c] = s
  BY <1>2
<1> QED BY <1>1, <1>3 DEF s

\* A LOCKREADY names its sender.
LEMMA GoneFacts ==
    ASSUME NEW c \in Computers
    PROVE  /\ Gone("LOCKREADY", c) \in NoticeType
           /\ Gone("LOCKREADY", c).cmd \in {"LOCKREADY", "STATUS"}
           /\ \A d \in Computers : Gone("LOCKREADY", c) = Gone("LOCKREADY", d) => d = c
BY NoticeTypes DEF Gone

\* The snaplock of c starts.
LEMMA RingRegisters ==
    ASSUME TypeOK, Links, Joined, Locks, NoLoss, Fresh, Know, LinksFirst, NEW c \in Computers, Register(c), Once'
    PROVE  Locks' /\ NoLoss' /\ Fresh' /\ Know'
<1>1. /\ ~registered[c]
      /\ lockd' = [lockd EXCEPT ![c] = TRUE]
      /\ lockStarts' = [lockStarts EXCEPT ![c] = IF lockd[c] THEN lockStarts[c] ELSE lockStarts[c] + 1]
      /\ registered' = [registered EXCEPT ![c] = TRUE]
      /\ SendLockReady(c, notices[c])
      /\ UNCHANGED <<object, computers>>
      /\ Settled(c)
  BY DEF Register
<1>2. ~lockd[c] /\ lockStarts[c] = 0
  <2>1. ~lockd[c]
    BY <1>1 DEF Locks
  <2>2. lockStarts[c] \in Nat /\ lockStarts'[c] = lockStarts[c] + 1
    BY <1>1, <2>1 DEF TypeOK
  <2> QED BY <2>1, <2>2 DEF Once
<1>3. /\ \A x \in Computers : registered'[x] = IF x = c THEN TRUE ELSE registered[x]
      /\ \A x \in Computers : lockd'[x] = IF x = c THEN TRUE ELSE lockd[x]
      /\ \A x \in Computers \ {c} : lockStarts'[x] = lockStarts[x]
      /\ lockStarts'[c] # 0
  BY <1>1, <1>2 DEF TypeOK
<1>4. registered'[c]
  BY <1>3
<1> DEFINE m == Gone("LOCKREADY", c)
<1>5. /\ \A x \in Computers \ {c} : notices'[x] = notices[x]
      /\ notices'[c] = Append(notices[c], m)
      /\ Broadcast(c, c, {}, accepted, replies)
  BY <1>1, <1>4, SendsNotice
<1>6. AllLinked(c)
  BY <1>1, SettledIsLinked
<1>7. /\ \A y \in Computers \ {c} : Transit(c, y)'
      /\ \A x, d \in Computers : x # d /\ d # c => (Transit(d, x)' <=> Transit(d, x))
  BY <1>1, <1>5, <1>6, SentTransit
<1>8. m \in NoticeType /\ m.cmd \in {"LOCKREADY", "STATUS"} /\ \A d \in Computers : m = Gone("LOCKREADY", d) => d = c
  BY GoneFacts
<1>9. m = Gone("LOCKREADY", c)
  OBVIOUS
<1> HIDE DEF m
<1>10. /\ NoLoss'
       /\ \A x, d \in Computers : Noticed(d, x) => Noticed(d, x)'
       /\ \A x, d \in Computers : Noticed(d, x)' => Noticed(d, x) \/ (x = c /\ m = Gone("LOCKREADY", d))
       /\ \E k \in DOMAIN notices'[c] : notices'[c][k] = m
  BY <1>5, <1>8, NoticeAdded
<1>11. Noticed(c, c)'
  BY <1>9, <1>10 DEF Noticed
<1>12. \A x, d \in Computers : d # c \/ x # c => (Noticed(d, x)' <=> Noticed(d, x))
  BY <1>8, <1>10
<1>13. UNCHANGED computers
  BY <1>1
<1>14. Locks' /\ Fresh' /\ Know'
  BY ONLY Locks, Fresh, Know, c \in Computers, <1>2, <1>3, <1>7, <1>11, <1>12, <1>13, RingRegister
<1> QED BY <1>10, <1>14

\* The snaplock of c ends.
LEMMA RingStops ==
    ASSUME TypeOK, Locks, NoLoss, Fresh, Know, NEW c \in Computers, LockStop(c)
    PROVE  Locks' /\ NoLoss' /\ Fresh' /\ Know'
<1>1. /\ lockd' = [lockd EXCEPT ![c] = FALSE]
      /\ computers' = [computers EXCEPT ![c] = {}]
      /\ registered' = [registered EXCEPT ![c] = FALSE]
      /\ notices' = [notices EXCEPT ![c] = <<>>]
      /\ UNCHANGED <<object, accepted, replies, lockStarts>>
  BY DEF LockStop, linkVars
<1>2. /\ \A x \in Computers : registered'[x] = IF x = c THEN FALSE ELSE registered[x]
      /\ \A x \in Computers : lockd'[x] = IF x = c THEN FALSE ELSE lockd[x]
      /\ \A x \in Computers : computers'[x] = IF x = c THEN {} ELSE computers[x]
  BY <1>1 DEF TypeOK
<1>3. \A x \in Computers : notices'[x] = IF x = c THEN <<>> ELSE notices[x]
  <2>1. DOMAIN notices = Computers
    BY DEF TypeOK
  <2> QED BY <1>1, <2>1
<1>4. DOMAIN <<>> = {}
  OBVIOUS
<1>5. NoLoss'
  BY <1>3, <1>4 DEF NoLoss
<1>6. \A x, d \in Computers : Noticed(d, x)' <=> x # c /\ Noticed(d, x)
  BY <1>3, <1>4 DEF Noticed
<1>7. \A x, d \in Computers : x # d => (Transit(d, x)' <=> Transit(d, x))
  BY <1>1 DEF Transit
<1>8. UNCHANGED lockStarts
  BY <1>1
<1>9. Locks' /\ Fresh' /\ Know'
  BY <1>2, <1>6, <1>7, <1>8, RingStop
<1> QED BY <1>5, <1>9

\* The first notice of c was processed.
LEMMA NoticeRead ==
    ASSUME TypeOK, NoLoss, NEW c \in Computers, NEW cmds, Gets(c, cmds),
           NEW m \in NoticeType, m.cmd \in {"LOCKREADY", "STATUS"},
           \A x \in Computers \ {c} : notices'[x] = notices[x],
           notices'[c] = Append(Tail(notices[c]), m) \/ notices'[c] = Tail(notices[c])
    PROVE  /\ NoLoss'
           /\ \A x, d \in Computers : Noticed(d, x) => Noticed(d, x)' \/ (x = c /\ notices[c][1] = Gone("LOCKREADY", d))
           /\ \A x, d \in Computers : Noticed(d, x)' => Noticed(d, x) \/ (x = c /\ notices'[c] # Tail(notices[c]) /\ m = Gone("LOCKREADY", d))
<1> DEFINE q == notices[c]
           s == Tail(notices[c])
           t == notices'[c]
<1>1. /\ s \in Seq(NoticeType)
      /\ \A k \in DOMAIN s : k + 1 \in DOMAIN q /\ s[k] = q[k + 1]
      /\ \A k \in DOMAIN q : k # 1 => k - 1 \in DOMAIN s /\ s[k - 1] = q[k]
  BY GetsFacts
<1>2. t = Append(s, m) \/ t = s
  OBVIOUS
<1>3. q = notices[c] /\ t = notices'[c] /\ s = Tail(notices[c])
  OBVIOUS
<1> HIDE DEF q, s, t
<1>4. /\ \A k \in DOMAIN s : k \in DOMAIN t /\ t[k] = s[k]
      /\ \A k \in DOMAIN t : (k \in DOMAIN s /\ t[k] = s[k]) \/ (t # s /\ t[k] = m)
  <2>1. \A k \in DOMAIN s : k \in DOMAIN Append(s, m) /\ Append(s, m)[k] = s[k]
    BY <1>1
  <2>2. \A k \in DOMAIN Append(s, m) : (k \in DOMAIN s /\ Append(s, m)[k] = s[k]) \/ Append(s, m)[k] = m
    BY <1>1, Appended
  <2>3. Append(s, m) # s
    BY <1>1
  <2> QED BY <1>2, <2>1, <2>2, <2>3
<1>5. /\ \A k \in DOMAIN q : q[k] = q[1] \/ \E j \in DOMAIN t : t[j] = q[k]
      /\ \A k \in DOMAIN t : (\E j \in DOMAIN q : t[k] = q[j]) \/ (t # s /\ t[k] = m)
  <2>1. \A k \in DOMAIN q : k # 1 => k - 1 \in DOMAIN t /\ t[k - 1] = q[k]
    BY <1>1, <1>4
  <2>2. \A k \in DOMAIN t : (k + 1 \in DOMAIN q /\ t[k] = q[k + 1]) \/ (t # s /\ t[k] = m)
    BY <1>1, <1>4
  <2> QED BY <2>1, <2>2
<1>6. NoLoss'
  BY <1>3, <1>5 DEF NoLoss
<1>7. \A x, d \in Computers : Noticed(d, x) => Noticed(d, x)' \/ (x = c /\ q[1] = Gone("LOCKREADY", d))
  BY <1>3, <1>5 DEF Noticed
<1>8. \A x, d \in Computers : Noticed(d, x)' => Noticed(d, x) \/ (x = c /\ t # s /\ m = Gone("LOCKREADY", d))
  BY <1>3, <1>5 DEF Noticed
<1> QED BY <1>3, <1>6, <1>7, <1>8

\* lockready() of c
LEMMA RingReadies ==
    ASSUME TypeOK, Links, Joined, Locks, NoLoss, Fresh, Know, NEW c \in Computers, lockready(c)
    PROVE  Locks' /\ NoLoss' /\ Fresh' /\ Know'
<1>1. Gets(c, {"LOCKREADY"}) /\ UNCHANGED registered /\ UNCHANGED <<object, lockd, lockStarts>>
  BY DEF lockready
<1>2. /\ lockd[c]
      /\ 1 \in DOMAIN notices[c]
      /\ Head(notices[c]) = notices[c][1]
      /\ notices[c][1] \in NoticeType
      /\ notices[c][1].cmd \in {"LOCKREADY"}
  BY <1>1, GetsFacts
<1>3. PICK w \in Computers : Head(notices[c]).who = w /\ notices[c][1] = Gone("LOCKREADY", w)
  <2> DEFINE h == notices[c][1]
  <2>1. h \in NoticeType /\ h.cmd = "LOCKREADY" /\ Head(notices[c]) = h
    BY <1>2
  <2> HIDE DEF h
  <2>2. h \in [cmd : {"LOCKREADY", "HANGUP", "DISCONNECTED"}, who : Computers]
    BY <2>1 DEF NoticeType
  <2>3. h.who \in Computers /\ h = Gone("LOCKREADY", h.who)
    BY <2>1, <2>2 DEF Gone
  <2> QED BY <2>1, <2>3 DEF h
<1>4. /\ computers' = [computers EXCEPT ![c] = computers[c] \cup {w}]
      /\ IF Answers(c, w)
         THEN SendLockReady(c, Tail(notices[c]))
         ELSE /\ notices' = [notices EXCEPT ![c] = Tail(notices[c])]
              /\ UNCHANGED <<accepted, replies>>
  BY <1>3 DEF lockready
<1>5. registered[c] /\ registered'[c] /\ AllLinked(c)
  BY <1>1, <1>2, RegisteredIsLinked DEF Locks
<1>6. \A x \in Computers : computers'[x] = IF x = c THEN computers[c] \cup {w} ELSE computers[x]
  BY <1>4 DEF TypeOK
<1> DEFINE s == Tail(notices[c])
           m == Gone("LOCKREADY", c)
<1>7. Noticed(w, c)
  BY <1>2, <1>3 DEF Noticed
<1>8. m \in NoticeType /\ m.cmd \in {"LOCKREADY", "STATUS"} /\ \A d \in Computers : m = Gone("LOCKREADY", d) => d = c
  BY GoneFacts
<1>9. \A d \in Computers : Gone("LOCKREADY", w) = Gone("LOCKREADY", d) => d = w
  BY <1>3, GoneFacts
<1>10. /\ \A x, d \in Computers : x # d => (Transit(d, x) => Transit(d, x)')
       /\ \A x, d \in Computers : x # d /\ d # c => (Transit(d, x)' => Transit(d, x))
       /\ Answers(c, w) => Transit(c, w)'
       /\ \A x \in Computers \ {c} : notices'[x] = notices[x]
       /\ notices'[c] = Append(s, m) \/ notices'[c] = s
  <2>1. CASE Answers(c, w)
    <3>1. SendLockReady(c, s)
      BY <1>4, <2>1
    <3>2. w \in Computers \ {c}
      BY <1>3, <2>1 DEF Answers
    <3> HIDE DEF s, m
    <3>3. /\ \A x \in Computers \ {c} : notices'[x] = notices[x]
          /\ notices'[c] = Append(s, m)
          /\ Broadcast(c, c, {}, accepted, replies)
      BY <1>5, <3>1, SendsNotice DEF m
    <3>4. UNCHANGED object
      BY <1>1
    <3>5. /\ \A y \in Computers \ {c} : Transit(c, y)'
          /\ \A x, d \in Computers : x # d /\ d # c => (Transit(d, x)' <=> Transit(d, x))
      BY <1>5, <3>3, <3>4, SentTransit
    <3>6. /\ \A x, d \in Computers : x # d => (Transit(d, x) => Transit(d, x)')
          /\ \A x, d \in Computers : x # d /\ d # c => (Transit(d, x)' => Transit(d, x))
      BY <3>5
    <3>7. Transit(c, w)'
      BY <3>2, <3>5
    <3> QED BY <3>3, <3>6, <3>7
  <2>2. CASE ~Answers(c, w)
    <3>1. notices' = [notices EXCEPT ![c] = s] /\ UNCHANGED <<accepted, replies, object>>
      BY <1>1, <1>4, <2>2
    <3>2. DOMAIN notices = Computers
      BY DEF TypeOK
    <3> HIDE DEF s, m
    <3>3. \A x, d \in Computers : Transit(d, x)' <=> Transit(d, x)
      BY <3>1 DEF Transit
    <3> QED BY <2>2, <3>1, <3>2, <3>3
  <2> QED BY <2>1, <2>2
<1>11. s = Tail(notices[c])
  OBVIOUS
<1> HIDE DEF s, m
<1>12. /\ NoLoss'
       /\ \A x, d \in Computers : Noticed(d, x) => Noticed(d, x)' \/ (x = c /\ notices[c][1] = Gone("LOCKREADY", d))
       /\ \A x, d \in Computers : Noticed(d, x)' => Noticed(d, x) \/ (x = c /\ notices'[c] # Tail(notices[c]) /\ m = Gone("LOCKREADY", d))
  BY <1>1, <1>8, <1>10, <1>11, NoticeRead
<1>13. \A x, d \in Computers : x # c \/ d # w => (Noticed(d, x) => Noticed(d, x)')
  BY <1>3, <1>9, <1>12
<1>14. \A x, d \in Computers : Noticed(d, x)' => Noticed(d, x) \/ (d = c /\ x = c)
  BY <1>8, <1>12
<1>15. w # c /\ w \notin computers[c] => Transit(c, w)'
  BY <1>10 DEF Answers
<1>16. UNCHANGED <<registered, lockd, lockStarts>>
  BY <1>1
<1>17. /\ \A x, d \in Computers : x # d => (Transit(d, x) => Transit(d, x)')
       /\ \A x, d \in Computers : x # d /\ d # c => (Transit(d, x)' => Transit(d, x))
  BY <1>10
<1>18. w \in Computers /\ registered[c]
  BY <1>3, <1>5
<1>19. Locks' /\ Fresh' /\ Know'
  BY ONLY Locks, Fresh, Know, c \in Computers, <1>6, <1>7, <1>13, <1>14, <1>15, <1>16, <1>17, <1>18, RingReady
<1> QED BY <1>12, <1>19

\* interpret_status() of c: a STATUS never names one of the two connections.
LEMMA RingStatus ==
    ASSUME TypeOK, Locks, NoLoss, Fresh, Know, NEW c \in Computers, interpret_status(c)
    PROVE  Locks' /\ NoLoss' /\ Fresh' /\ Know'
<1> DEFINE odd == {<<"remote connection">>, <<"remote communicator connection">>}
<1>1. Gets(c, {"STATUS"}) /\ UNCHANGED <<registered, object, ringVars>>
  BY Zenon DEF interpret_status
<1>2. /\ Head(notices[c]) = notices[c][1]
      /\ notices[c][1] \in NoticeType
      /\ notices[c][1].cmd \in {"STATUS"}
  BY <1>1, GetsFacts
<1>3. Head(notices[c]).service \notin odd
  <2> DEFINE h == notices[c][1]
  <2>1. h \in NoticeType /\ h.cmd = "STATUS" /\ Head(notices[c]) = h
    BY <1>2
  <2> HIDE DEF h
  <2>2. h.service \in {ConnectionFrom(x) : x \in Computers} \cup {ConnectionTo(x) : x \in Computers}
    BY <2>1 DEF NoticeType
  <2>3. \A x \in Computers : Len(ConnectionFrom(x)) = 2 /\ Len(ConnectionTo(x)) = 2
    BY DEF ConnectionFrom, ConnectionTo
  <2>4. \A e \in odd : Len(e) = 1
    <3>1. Len(<<"remote connection">>) = 1 /\ Len(<<"remote communicator connection">>) = 1
      OBVIOUS
    <3>2. \A e \in odd : e = <<"remote connection">> \/ e = <<"remote communicator connection">>
      BY Zenon
    <3> QED BY <3>1, <3>2, Zenon
  <2> HIDE DEF odd
  <2>5. ASSUME h.service \in odd PROVE FALSE
    <3>1. PICK x \in Computers : h.service = ConnectionFrom(x) \/ h.service = ConnectionTo(x)
      BY <2>2
    <3> QED BY <2>3, <2>4, <2>5, <3>1
  <2> QED BY <2>1, <2>5
<1>4. notices' = [notices EXCEPT ![c] = Tail(notices[c])] /\ UNCHANGED <<accepted, replies>>
  BY <1>3, Zenon DEF interpret_status
<1> DEFINE s == Tail(notices[c])
<1>5. notices' = [notices EXCEPT ![c] = s] /\ DOMAIN notices = Computers /\ s = Tail(notices[c])
  BY <1>4 DEF TypeOK
<1> HIDE DEF s
<1>6. (\A x \in Computers \ {c} : notices'[x] = notices[x]) /\ notices'[c] = s
  BY <1>5
<1> DEFINE m == Gone("LOCKREADY", c)
<1>7. m \in NoticeType /\ m.cmd \in {"LOCKREADY", "STATUS"}
  BY GoneFacts
<1> HIDE DEF m
<1>8. /\ NoLoss'
      /\ \A x, d \in Computers : Noticed(d, x) => Noticed(d, x)' \/ (x = c /\ notices[c][1] = Gone("LOCKREADY", d))
      /\ \A x, d \in Computers : Noticed(d, x)' => Noticed(d, x) \/ (x = c /\ notices'[c] # Tail(notices[c]) /\ m = Gone("LOCKREADY", d))
  BY <1>1, <1>5, <1>6, <1>7, NoticeRead
<1>9. \A d \in Computers : notices[c][1] # Gone("LOCKREADY", d)
  BY <1>2 DEF Gone
<1>10. \A x, d \in Computers : Noticed(d, x)' <=> Noticed(d, x)
  BY <1>5, <1>6, <1>8, <1>9
<1>11. \A x, d \in Computers : x # d => (Transit(d, x)' <=> Transit(d, x))
  BY <1>1, <1>4 DEF Transit
<1>12. UNCHANGED <<registered, ringVars>>
  BY <1>1
<1> QED BY <1>8, <1>10, <1>11, <1>12, RingSame

\* While nothing ends, no snaplock is told that a computer is lost.
LEMMA NobodyIsGone == ASSUME TypeOK, NoLoss, NEW c \in Computers, lockgone(c) PROVE FALSE
<1>1. Gets(c, {"HANGUP", "DISCONNECTED"})
  BY DEF lockgone
<1>2. 1 \in DOMAIN notices[c] /\ notices[c][1].cmd \in {"HANGUP", "DISCONNECTED"}
  BY <1>1, GetsFacts
<1> QED BY <1>2 DEF NoLoss

\* Every step keeps the promise that each snaplock hears of the others, as long as
\* no process ends.
LEMMA RingKept ==
    ASSUME TypeOK, Pairs, Known, Links, NoDisconnect, Joined, Locks, NoLoss, Fresh, Know, LinksFirst,
           [RingNext]_vars, \A x \in Computers : ~Quits(x), Once'
    PROVE  Locks' /\ NoLoss' /\ Fresh' /\ Know'
<1>1. CASE UNCHANGED vars
  <2>1. UNCHANGED <<object, accepted, replies, notices, registered, lockd, lockStarts, computers>>
    BY <1>1 DEF vars, linkVars, ringVars
  <2>2. /\ \A x, d \in Computers : Transit(d, x)' <=> Transit(d, x)
        /\ \A x, d \in Computers : Noticed(d, x)' <=> Noticed(d, x)
    BY <2>1 DEF Transit, Noticed
  <2>3. NoLoss'
    BY <2>1 DEF NoLoss
  <2>4. UNCHANGED <<registered, ringVars>>
    BY <2>1 DEF ringVars
  <2> QED BY <2>2, <2>3, <2>4, RingSame
<1>2. ASSUME UNCHANGED ringVars, NEW c \in Computers, NEW d \in Computers,
             Connect(c, d) \/ ProcessAccept(c, d) \/ Hangs(c, d) \/ Detect(c, d)
      PROVE  Locks' /\ NoLoss' /\ Fresh' /\ Know'
  BY <1>2, RingLink
<1>3. ASSUME UNCHANGED ringVars, NEW c \in Computers, NEW d \in Computers, NEW i \in 1 .. MaxOpen,
             ProcessConnect(d, c, i) \/ ProcessGossip(d, c, i) \/ ProcessDisconnect(d, c, i) \/ ProcessHup(d, c, i)
      PROVE  Locks' /\ NoLoss' /\ Fresh' /\ Know'
  BY <1>3, RingLink
<1>4. ASSUME UNCHANGED ringVars, NEW c \in Computers, Start(c) \/ StartCut(c) \/ Quits(c)
      PROVE  Locks' /\ NoLoss' /\ Fresh' /\ Know'
  BY <1>4, RingStart, RingStartCut
<1>5. ASSUME NEW c \in Computers, NEW d \in Computers, ForwardDown(c, d) \/ \E i \in 1 .. MaxOpen : ForwardUp(d, c, i)
      PROVE  Locks' /\ NoLoss' /\ Fresh' /\ Know'
  BY <1>5, RingForward
<1>6. ASSUME NEW c \in Computers, Register(c) \/ LockStop(c) \/ LockStep(c)
      PROVE  Locks' /\ NoLoss' /\ Fresh' /\ Know'
  BY <1>6, RingRegisters, RingStops, RingReadies, RingStatus, NobodyIsGone DEF LockStep
<1> QED BY <1>1, <1>2, <1>3, <1>4, <1>5, <1>6, Steps, Zenon

-----------------------------------------------------------------------------
(* The ring.                                                               *)

\* What holds while nothing ended.
Orderly == /\ Links /\ NoDisconnect /\ Joined
           /\ Locks /\ NoLoss /\ Fresh /\ Know

OrderlyRing == Counted /\ (LinksFirst /\ Calm /\ Once => Orderly)

\* The starts of a snaplock are only ever counted up.
LEMMA OnceBefore == ASSUME TypeOK, [RingNext]_vars, Once' PROVE Once
<1>1. CASE UNCHANGED lockStarts
  BY <1>1 DEF Once
<1>2. ASSUME NEW c \in Computers, Register(c) PROVE Once
  <2>1. lockStarts' = [lockStarts EXCEPT ![c] = IF lockd[c] THEN lockStarts[c] ELSE lockStarts[c] + 1]
    BY <1>2 DEF Register
  <2>2. \A x \in Computers : lockStarts[x] \in Nat /\ (lockStarts'[x] = lockStarts[x] \/ lockStarts'[x] = lockStarts[x] + 1)
    BY <2>1 DEF TypeOK
  <2> QED BY <2>2 DEF Once
<1>3. CASE UNCHANGED vars \/ UNCHANGED ringVars
  BY <1>1, <1>3 DEF vars, ringVars
<1>4. ASSUME NEW c \in Computers, NEW d \in Computers, NEW i, ForwardDown(c, d) \/ ForwardUp(d, c, i) PROVE UNCHANGED ringVars
  BY <1>4, Zenon DEF ForwardDown, ForwardUp
<1>5. ASSUME NEW c \in Computers, LockStop(c) \/ LockStep(c) PROVE UNCHANGED lockStarts
  BY <1>5, Zenon DEF LockStop, LockStep, lockready, lockgone, interpret_status, ringVars
<1> QED BY <1>1, <1>2, <1>3, <1>4, <1>5, Steps, Zenon

\* Each step keeps it.
LEMMA OrderlyKept ==
    ASSUME TypeOK, Pairs, Known, OrderlyRing, [RingNext]_vars
    PROVE  OrderlyRing'
<1>1. Counted' /\ (Calm' => Calm /\ \A x \in Computers : ~Quits(x))
  BY Counts DEF OrderlyRing
<1>2. ASSUME LinksFirst, Calm', Once' PROVE Orderly'
  <2>1. /\ \A x \in Computers : ~Quits(x)
        /\ Links /\ NoDisconnect /\ Joined
        /\ Locks /\ NoLoss /\ Fresh /\ Know
    BY <1>1, <1>2, OnceBefore DEF OrderlyRing, Orderly
  <2>2. Links' /\ NoDisconnect' /\ Joined'
    BY <1>2, <2>1, LinksKept
  <2>3. Locks' /\ NoLoss' /\ Fresh' /\ Know'
    BY <1>2, <2>1, RingKept
  <2> QED BY <2>2, <2>3 DEF Orderly
<1> QED BY <1>1, <1>2 DEF OrderlyRing

\* Once everything was read, Know says that the snaplocks count each other.
LEMMA OrderlyIsComplete ==
    ASSUME TypeOK, OrderlyRing PROVE RingComplete
<1> SUFFICES ASSUME Quiet, LinksFirst, starts = Cardinality(Computers), \A x \in Computers : running[x] /\ lockStarts[x] <= 1,
                    NEW c \in Computers, NEW d \in Computers, registered[c], registered[d]
             PROVE  d \in computers[c]
  BY DEF RingComplete
<1>1. Running = Computers
  BY DEF Running
<1>2. Calm /\ Once
  BY <1>1 DEF Calm, Once
<1>3. Links /\ Know
  BY <1>2 DEF OrderlyRing, Orderly
<1>4. \A x, y \in Computers : ~Noticed(x, y)
  <2>1. \A x \in Computers : notices[x] = <<>>
    BY DEF Quiet
  <2> QED BY <2>1 DEF Noticed
<1>5. ASSUME NEW x \in Computers, NEW y \in Computers, x # y PROVE ~Transit(x, y)
  <2>1. CASE x < y
    <3>1. replies[y][x] = <<>>
      BY DEF Quiet
    <3>2. Len(<<>>) = 0
      OBVIOUS
    <3> QED BY <2>1, <3>1, <3>2 DEF Transit
  <2>2. CASE y < x
    <3>1. ~(x < y)
      BY <2>2, ComputersAssumption
    <3>2. ASSUME object[x][y] = "accepted" PROVE Len(accepted[y][x][1].in) = 0
      <4>1. Len(accepted[y][x]) = 1 /\ accepted[y][x] \in Seq(ServiceType)
        BY <2>2, <3>2, <1>3, TypeFacts DEF Links, LinkOK, Established
      <4>2. 1 \in DOMAIN accepted[y][x]
        BY <4>1
      <4>3. accepted[y][x][1].in = <<>>
        BY <4>2 DEF Quiet
      <4> QED BY <4>3
    <3> QED BY <3>1, <3>2 DEF Transit
  <2> QED BY <1>5, <2>1, <2>2, ComputersAssumption
<1>6. WillHear(c, d) \/ WillAnswer(d, c)
  BY <1>3 DEF Know
<1> QED BY <1>4, <1>5, <1>6 DEF WillHear, WillAnswer

\* lockready(): on a cluster of any size, while no snapcommunicator ended and no
\* snaplock was started twice, with the links up before a snaplock registers, all the
\* registered snaplocks count each other as soon as no message is left to read, in
\* whatever order they registered, stopped and read the messages.  (A snaplock that
\* is started again gets no answer from those that still have its computer.)
THEOREM RingIsComplete == RingSpec => []RingComplete
<1>1. RingInit => OrderlyRing
  BY CountInit, LinksInit, RingInitially DEF OrderlyRing, Orderly
<1>2. TypeOK /\ Pairs /\ Known /\ OrderlyRing /\ [RingNext]_vars => OrderlyRing'
  BY OrderlyKept
<1>3. TypeOK /\ OrderlyRing => RingComplete
  BY OrderlyIsComplete
<1>4. RingSpec => [](TypeOK /\ Pairs)
  BY PairsHold
<1>5. RingSpec => [](TypeOK /\ Stopped /\ Known /\ Told /\ Remembered /\ Saved)
  BY GossipHolds
<1> QED BY <1>1, <1>2, <1>3, <1>4, <1>5, PTL DEF RingSpec

=============================================================================
