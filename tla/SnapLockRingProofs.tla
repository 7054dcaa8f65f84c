------------------------- MODULE SnapLockRingProofs -------------------------
(***************************************************************************)
(* What is proved of SnapLockRing, and of the RemoteConnections below it,  *)
(* for every set of computers, every "neighbors" parameter and every       *)
(* number of starts and connections:                                       *)
(*   TypeCorrect  RingSpec => []TypeOK                                     *)
(*   NamedOnce    RingSpec => []OneConnection                              *)
(*   GossipSaved  RingSpec => []GossipIsDurable                            *)
(***************************************************************************)
EXTENDS SnapLockRing, SequenceTheorems, TLAPS

\* The messages that have no parameters.
Words == {"CONNECT", "ACCEPT", "REFUSE", "GOSSIP", "RECEIVED", "DISCONNECT", "EOF"}

\* A message without parameters is a message of the links.
LEMMA WordIsMessage == \A w \in Words : Message(w) \in MessageType
BY DEF Words, Message, MessageType

\* So is a LOCKREADY.
LEMMA LockReadyIsMessage ==
    ASSUME NEW who \in Computers, NEW informed \in SUBSET Computers
    PROVE  LockReady(who, informed) \in MessageType
BY DEF LockReady, MessageType

\* A message that is a LOCKREADY has the fields of one.
LEMMA ReadyMessage ==
    ASSUME NEW m \in MessageType, m.cmd = "LOCKREADY"
    PROVE  m.who \in Computers /\ m.informed \in SUBSET Computers
BY DEF MessageType

\* What Notify() is called with has the type of a notice.
LEMMA NoticeTypes ==
    ASSUME NEW c \in Computers
    PROVE  /\ Gone("LOCKREADY", c) \in NoticeType
           /\ Gone("HANGUP", c) \in NoticeType
           /\ Gone("DISCONNECTED", c) \in NoticeType
           /\ Status(ConnectionFrom(c)) \in NoticeType
           /\ Status(ConnectionTo(c)) \in NoticeType
<1>1. \A w \in {"LOCKREADY", "HANGUP", "DISCONNECTED"} :
        Gone(w, c) \in [cmd : {"LOCKREADY", "HANGUP", "DISCONNECTED"}, who : Computers]
  BY DEF Gone
<1>2. /\ Status(ConnectionFrom(c)) \in NoticeType
      /\ Status(ConnectionTo(c)) \in NoticeType
  BY DEF Status, NoticeType
<1> QED BY <1>1, <1>2 DEF NoticeType

\* The notices that name a computer.
LEMMA NoticeWho ==
    ASSUME NEW m \in NoticeType, m.cmd \in {"LOCKREADY", "HANGUP", "DISCONNECTED"}
    PROVE  m.who \in Computers
BY DEF NoticeType

\* What a service_connection is after its fields were assigned.
LEMMA InExcept ==
    ASSUME NEW a \in ServiceType, NEW in \in Seq(MessageType)
    PROVE  /\ [a EXCEPT !.in = in] \in ServiceType
           /\ [a EXCEPT !.in = in].in = in
           /\ [a EXCEPT !.in = in].named = a.named
           /\ [a EXCEPT !.in = in].remote = a.remote
           /\ [a EXCEPT !.in = in].open = a.open
           /\ [a EXCEPT !.in = in].first = a.first
BY DEF ServiceType

\* The fields of a service_connection.
LEMMA ServiceFields ==
    ASSUME NEW a \in ServiceType
    PROVE  /\ a.in \in Seq(MessageType)
           /\ a.named \in BOOLEAN
           /\ a.remote \in BOOLEAN
           /\ a.open \in BOOLEAN
           /\ a.first \in BOOLEAN
BY DEF ServiceType

\* process_accept() makes a service_connection.
LEMMA NewConnectionType ==
    ASSUME NEW b \in BOOLEAN, NEW m \in MessageType
    PROVE  /\ NewConnection(b, m) \in ServiceType
           /\ NewConnection(b, m).in = <<m>>
           /\ NewConnection(b, m).named = FALSE
           /\ NewConnection(b, m).remote = FALSE
           /\ NewConnection(b, m).open = TRUE
           /\ NewConnection(b, m).first = b
<1>1. <<m>> \in Seq(MessageType)
  OBVIOUS
<1> QED BY <1>1 DEF NewConnection, ServiceType

\* A sequence of the same length with other elements is a sequence.
LEMMA Mapped ==
    ASSUME NEW S, NEW T, NEW s \in Seq(S), NEW t, t = [i \in DOMAIN s |-> t[i]],
           \A i \in DOMAIN s : t[i] \in T
    PROVE  t \in Seq(T) /\ Len(t) = Len(s) /\ DOMAIN t = DOMAIN s
<1>1. DOMAIN s = 1 .. Len(s) /\ Len(s) \in Nat
  BY LenProperties
<1>2. t \in [1 .. Len(s) -> T]
  BY <1>1
<1>3. t \in Seq(T) /\ DOMAIN t = 1 .. Len(s)
  BY <1>1, <1>2, SeqDef
<1>4. Len(t) = Len(s)
  BY <1>1, <1>3, LenProperties
<1> QED BY <1>1, <1>3, <1>4

\* An element of Append(s, e) is an element of s, or e.
LEMMA Appended ==
    ASSUME NEW S, NEW s \in Seq(S), NEW e \in S, NEW k \in DOMAIN Append(s, e)
    PROVE  \/ k \in DOMAIN s /\ Append(s, e)[k] = s[k]
           \/ k = Len(s) + 1 /\ Append(s, e)[k] = e
OBVIOUS

\* An element of s \o t is an element of s or one of t.
LEMMA Joins ==
    ASSUME NEW S, NEW s \in Seq(S), NEW t \in Seq(S), NEW k \in DOMAIN (s \o t)
    PROVE  \/ k \in DOMAIN s /\ (s \o t)[k] = s[k]
           \/ \E j \in DOMAIN t : (s \o t)[k] = t[j]
<1>1. /\ DOMAIN s = 1 .. Len(s) /\ Len(s) \in Nat
      /\ DOMAIN t = 1 .. Len(t) /\ Len(t) \in Nat
  BY LenProperties
<1>2. /\ s \o t \in Seq(S)
      /\ Len(s \o t) = Len(s) + Len(t)
      /\ \A j \in 1 .. Len(s) + Len(t) : (s \o t)[j] = IF j <= Len(s) THEN s[j] ELSE t[j - Len(s)]
  BY ConcatProperties
<1>3. k \in 1 .. Len(s) + Len(t)
  BY <1>2, LenProperties
<1>4. CASE k <= Len(s)
  BY <1>1, <1>2, <1>3, <1>4
<1>5. CASE ~(k <= Len(s))
  <2>1. k - Len(s) \in DOMAIN t /\ (s \o t)[k] = t[k - Len(s)]
    BY <1>1, <1>2, <1>3, <1>5
  <2> QED BY <2>1
<1> QED BY <1>4, <1>5

\* Sending a message on the connections changes what is to be read, and nothing else.
LEMMA SentConns ==
    ASSUME NEW conns \in Seq(ServiceType), NEW m \in MessageType
    PROVE  /\ Sent(conns, m) \in Seq(ServiceType)
           /\ DOMAIN Sent(conns, m) = DOMAIN conns
           /\ Len(Sent(conns, m)) = Len(conns)
           /\ \A i \in DOMAIN conns : /\ Sent(conns, m)[i].in = IF conns[i].open THEN Append(conns[i].in, m)
                                                               ELSE conns[i].in
                                      /\ Sent(conns, m)[i].named = conns[i].named
                                      /\ Sent(conns, m)[i].remote = conns[i].remote
                                      /\ Sent(conns, m)[i].open = conns[i].open
                                      /\ Sent(conns, m)[i].first = conns[i].first
<1> DEFINE t == Sent(conns, m)
<1>1. t = [i \in DOMAIN conns |-> t[i]]
  BY DEF Sent
<1>2. ASSUME NEW i \in DOMAIN conns
      PROVE  /\ t[i] \in ServiceType
             /\ t[i].in = IF conns[i].open THEN Append(conns[i].in, m) ELSE conns[i].in
             /\ t[i].named = conns[i].named
             /\ t[i].remote = conns[i].remote
             /\ t[i].open = conns[i].open
             /\ t[i].first = conns[i].first
  <2>1. conns[i] \in ServiceType
    BY LenProperties, ElementOfSeq
  <2>2. Append(conns[i].in, m) \in Seq(MessageType)
    BY <2>1, ServiceFields, AppendProperties
  <2>3. t[i] = IF conns[i].open THEN [conns[i] EXCEPT !.in = Append(conns[i].in, m)] ELSE conns[i]
    BY DEF Sent
  <2>4. CASE conns[i].open
    <3> DEFINE r == [conns[i] EXCEPT !.in = Append(conns[i].in, m)]
    <3>1. t[i] = r
      BY <2>3, <2>4
    <3>2. r \in ServiceType /\ r.in = Append(conns[i].in, m) /\ r.named = conns[i].named
          /\ r.remote = conns[i].remote /\ r.open = conns[i].open /\ r.first = conns[i].first
      BY <2>1, <2>2, InExcept
    <3> HIDE DEF r, t
    <3> QED BY <3>1, <3>2, <2>4
  <2>5. CASE ~conns[i].open
    BY <2>1, <2>3, <2>5
  <2> QED BY <2>4, <2>5
<1> HIDE DEF t
<1>3. t \in Seq(ServiceType) /\ Len(t) = Len(conns) /\ DOMAIN t = DOMAIN conns
  BY <1>1, <1>2, Mapped
<1> QED BY <1>2, <1>3 DEF t

\* Closing the connections adds the end of the open ones.
LEMMA ClosedConns ==
    ASSUME NEW conns \in Seq(ServiceType)
    PROVE  /\ Closed(conns) \in Seq(ServiceType)
           /\ DOMAIN Closed(conns) = DOMAIN conns
           /\ Len(Closed(conns)) = Len(conns)
           /\ \A i \in DOMAIN conns : /\ Closed(conns)[i].in = IF conns[i].open THEN Append(conns[i].in, EOF)
                                                              ELSE conns[i].in
                                      /\ Closed(conns)[i].named = conns[i].named
                                      /\ Closed(conns)[i].remote = conns[i].remote
                                      /\ ~Closed(conns)[i].open
                                      /\ Closed(conns)[i].first = conns[i].first
<1> DEFINE t == Closed(conns)
<1>1. t = [i \in DOMAIN conns |-> t[i]]
  BY DEF Closed
<1>2. ASSUME NEW i \in DOMAIN conns
      PROVE  /\ t[i] \in ServiceType
             /\ t[i].in = IF conns[i].open THEN Append(conns[i].in, EOF) ELSE conns[i].in
             /\ t[i].named = conns[i].named
             /\ t[i].remote = conns[i].remote
             /\ ~t[i].open
             /\ t[i].first = conns[i].first
  <2>1. conns[i] \in ServiceType
    BY LenProperties, ElementOfSeq
  <2>2. Append(conns[i].in, EOF) \in Seq(MessageType)
    <3>1. EOF \in MessageType
      BY WordIsMessage DEF EOF, Words
    <3> QED BY <2>1, <3>1, ServiceFields, AppendProperties
  <2>3. t[i] = IF conns[i].open THEN [conns[i] EXCEPT !.in = Append(conns[i].in, EOF), !.open = FALSE]
               ELSE conns[i]
    BY DEF Closed
  <2>4. CASE conns[i].open
    <3> DEFINE r == [conns[i] EXCEPT !.in = Append(conns[i].in, EOF), !.open = FALSE]
    <3>1. t[i] = r
      BY <2>3, <2>4
    <3>2. r \in ServiceType /\ r.in = Append(conns[i].in, EOF) /\ r.named = conns[i].named
          /\ r.remote = conns[i].remote /\ ~r.open /\ r.first = conns[i].first
      <4> DEFINE a == conns[i]
                 in == Append(conns[i].in, EOF)
      <4>1. a \in ServiceType /\ in \in Seq(MessageType) /\ r = [a EXCEPT !.in = in, !.open = FALSE]
        BY <2>1, <2>2
      <4> HIDE DEF a, in, r
      <4>2. r \in ServiceType /\ r.in = in /\ r.named = a.named
            /\ r.remote = a.remote /\ ~r.open /\ r.first = a.first
        BY <4>1 DEF ServiceType
      <4> QED BY <4>2 DEF a, in
    <3> HIDE DEF r, t
    <3> QED BY <3>1, <3>2, <2>4
  <2>5. CASE ~conns[i].open
    BY <2>1, <2>3, <2>5, ServiceFields
  <2> QED BY <2>4, <2>5
<1> HIDE DEF t
<1>3. t \in Seq(ServiceType) /\ Len(t) = Len(conns) /\ DOMAIN t = DOMAIN conns
  BY <1>1, <1>2, Mapped
<1> QED BY <1>2, <1>3 DEF t

\* A list of connections without connection i.
LEMMA WithoutConns ==
    ASSUME NEW conns \in Seq(ServiceType), NEW i \in DOMAIN conns
    PROVE  /\ Without(conns, i) \in Seq(ServiceType)
           /\ Len(Without(conns, i)) = Len(conns) - 1
           /\ DOMAIN Without(conns, i) = 1 .. Len(conns) - 1
           /\ \A j \in DOMAIN Without(conns, i) :
                 /\ (IF j < i THEN j ELSE j + 1) \in DOMAIN conns
                 /\ Without(conns, i)[j] = conns[IF j < i THEN j ELSE j + 1]
<1>1. DOMAIN conns = 1 .. Len(conns) /\ Len(conns) \in Nat
  BY LenProperties
<1> DEFINE s == SubSeq(conns, 1, i - 1)
           t == SubSeq(conns, i + 1, Len(conns))
<1>2. /\ s \in Seq(ServiceType)
      /\ Len(s) = i - 1
      /\ \A j \in 1 .. i - 1 : s[j] = conns[j]
  BY <1>1
<1>3. /\ t \in Seq(ServiceType)
      /\ Len(t) = Len(conns) - i
      /\ \A j \in 1 .. Len(conns) - i : t[j] = conns[i + j]
  BY <1>1
<1> HIDE DEF s, t
<1>4. /\ s \o t \in Seq(ServiceType)
      /\ Len(s \o t) = Len(s) + Len(t)
      /\ \A j \in 1 .. Len(s) + Len(t) : (s \o t)[j] = IF j <= Len(s) THEN s[j] ELSE t[j - Len(s)]
  BY <1>2, <1>3, ConcatProperties
<1>5. Without(conns, i) = s \o t
  BY DEF Without, s, t
<1>6. Len(s \o t) = Len(conns) - 1 /\ DOMAIN (s \o t) = 1 .. Len(conns) - 1
  <2>1. i \in 1 .. Len(conns)
    BY <1>1
  <2>2. Len(s \o t) = Len(conns) - 1
    BY <1>1, <1>2, <1>3, <1>4, <2>1
  <2>3. DOMAIN (s \o t) = 1 .. Len(s \o t)
    BY <1>4, LenProperties
  <2> QED BY <2>2, <2>3
<1>7. ASSUME NEW j \in DOMAIN (s \o t)
      PROVE /\ (IF j < i THEN j ELSE j + 1) \in DOMAIN conns
            /\ (s \o t)[j] = conns[IF j < i THEN j ELSE j + 1]
  <2>1. j \in 1 .. Len(conns) - 1 /\ i \in 1 .. Len(conns) /\ j \in 1 .. Len(s) + Len(t)
    <3>1. i \in 1 .. Len(conns)
      BY <1>1
    <3>2. j \in 1 .. Len(conns) - 1
      BY <1>6
    <3> QED BY <1>1, <1>2, <1>3, <3>1, <3>2
  <2>2. CASE j < i
    BY <1>1, <1>2, <1>4, <2>1, <2>2
  <2>3. CASE ~(j < i)
    <3>1. (s \o t)[j] = t[j - (i - 1)]
      BY <1>1, <1>2, <1>4, <2>1, <2>3
    <3>2. j - (i - 1) \in 1 .. Len(conns) - i /\ i + (j - (i - 1)) = j + 1
      BY <1>1, <2>1, <2>3
    <3>3. t[j - (i - 1)] = conns[i + (j - (i - 1))]
      BY <1>3, <3>2
    <3>4. (s \o t)[j] = conns[j + 1] /\ j + 1 \in 1 .. Len(conns)
      <4>1. (s \o t)[j] = conns[j + 1]
        BY <3>1, <3>2, <3>3
      <4>2. j + 1 \in 1 .. Len(conns)
        BY <1>1, <2>1
      <4> QED BY <4>1, <4>2
    <3> QED BY <1>1, <2>3, <3>4
  <2> QED BY <2>2, <2>3
<1> QED BY <1>4, <1>5, <1>6, <1>7

-----------------------------------------------------------------------------
(* The connections of all the computers.                                   *)

Conns        == Seq(ServiceType)
Texts        == Seq(MessageType)
AcceptedType == [Computers -> [Computers -> Conns]]
RepliesType  == [Computers -> [Computers -> Texts]]

\* g is f but for the entry of d and c.
OnlyAt(f, g, d, c) == \A e, b \in Computers : e # d \/ b # c => g[e][b] = f[e][b]

\* The connections f with another sequence of messages on connection i, and with
\* a name.
SetIn(f, d, c, i, q)         == [f EXCEPT ![d][c][i].in = q]
SetNamed(f, d, c, i, q, n, e) == [f EXCEPT ![d][c][i] = [f[d][c][i] EXCEPT !.in = q, !.named = n, !.remote = e]]

\* A message was taken from connection i, or put there.
LEMMA InEntry ==
    ASSUME NEW f \in AcceptedType, NEW d \in Computers, NEW c \in Computers,
           NEW i \in DOMAIN f[d][c], NEW q \in Seq(MessageType),
           NEW g, g = SetIn(f, d, c, i, q)
    PROVE  /\ g \in AcceptedType
           /\ OnlyAt(f, g, d, c)
           /\ DOMAIN g[d][c] = DOMAIN f[d][c]
           /\ Len(g[d][c]) = Len(f[d][c])
           /\ \A j \in DOMAIN f[d][c] : j # i => g[d][c][j] = f[d][c][j]
           /\ g[d][c][i].in = q
           /\ g[d][c][i].named = f[d][c][i].named
           /\ g[d][c][i].remote = f[d][c][i].remote
           /\ g[d][c][i].open = f[d][c][i].open
           /\ g[d][c][i].first = f[d][c][i].first
<1> DEFINE s == f[d][c]
           r == [s[i] EXCEPT !.in = q]
           t == [s EXCEPT ![i] = r]
<1>1. s \in Seq(ServiceType)
  BY DEF AcceptedType, Conns
<1>2. s[i] \in ServiceType /\ i \in 1 .. Len(s) /\ DOMAIN s = 1 .. Len(s)
  BY <1>1, LenProperties, ElementOfSeq
<1>3. /\ r \in ServiceType /\ r.in = q /\ r.named = s[i].named /\ r.remote = s[i].remote
      /\ r.open = s[i].open /\ r.first = s[i].first
  BY <1>2, InExcept
<1>4. g = [f EXCEPT ![d][c] = t]
  BY DEF AcceptedType, SetIn
<1> HIDE DEF s, r
<1>5. /\ t \in Seq(ServiceType)
      /\ Len(t) = Len(s)
      /\ \A j \in 1 .. Len(s) : t[j] = IF j = i THEN r ELSE s[j]
  BY <1>1, <1>2, <1>3, ExceptSeq
<1> HIDE DEF t
<1>6. DOMAIN t = DOMAIN s
  BY <1>1, <1>5, LenProperties
<1>7. /\ g \in AcceptedType
      /\ g[d][c] = t
      /\ OnlyAt(f, g, d, c)
  <2>1. t \in Conns
    BY <1>5 DEF Conns
  <2> QED BY ONLY <1>4, <2>1, f \in AcceptedType, d \in Computers, c \in Computers DEF AcceptedType, OnlyAt
<1> QED BY <1>2, <1>3, <1>5, <1>6, <1>7 DEF s

\* CONNECT was read on connection i.
LEMMA NameEntry ==
    ASSUME NEW f \in AcceptedType, NEW d \in Computers, NEW c \in Computers,
           NEW i \in DOMAIN f[d][c], NEW q \in Seq(MessageType),
           NEW n \in BOOLEAN, NEW e \in BOOLEAN,
           NEW g, g = SetNamed(f, d, c, i, q, n, e)
    PROVE  /\ g \in AcceptedType
           /\ OnlyAt(f, g, d, c)
           /\ DOMAIN g[d][c] = DOMAIN f[d][c]
           /\ Len(g[d][c]) = Len(f[d][c])
           /\ \A j \in DOMAIN f[d][c] : j # i => g[d][c][j] = f[d][c][j]
           /\ g[d][c][i].in = q
           /\ g[d][c][i].named = n
           /\ g[d][c][i].remote = e
           /\ g[d][c][i].open = f[d][c][i].open
           /\ g[d][c][i].first = f[d][c][i].first
<1> DEFINE s == f[d][c]
           a == s[i]
           r == [a EXCEPT !.in = q, !.named = n, !.remote = e]
           t == [s EXCEPT ![i] = r]
<1>1. s \in Seq(ServiceType)
  BY DEF AcceptedType, Conns
<1>2. a \in ServiceType /\ i \in 1 .. Len(s) /\ DOMAIN s = 1 .. Len(s)
  BY <1>1, LenProperties, ElementOfSeq
<1>4. g = [f EXCEPT ![d][c] = t]
  BY DEF AcceptedType, SetNamed
<1> HIDE DEF s, a
<1>3. /\ r \in ServiceType /\ r.in = q /\ r.named = n /\ r.remote = e
      /\ r.open = a.open /\ r.first = a.first
  BY <1>2 DEF ServiceType
<1> HIDE DEF r
<1>5. /\ t \in Seq(ServiceType)
      /\ Len(t) = Len(s)
      /\ \A j \in 1 .. Len(s) : t[j] = IF j = i THEN r ELSE s[j]
  BY <1>1, <1>2, <1>3, ExceptSeq
<1> HIDE DEF t
<1>6. DOMAIN t = DOMAIN s
  BY <1>1, <1>5, LenProperties
<1>7. /\ g \in AcceptedType
      /\ g[d][c] = t
      /\ OnlyAt(f, g, d, c)
  <2>1. t \in Conns
    BY <1>5 DEF Conns
  <2> QED BY ONLY <1>4, <2>1, f \in AcceptedType, d \in Computers, c \in Computers DEF AcceptedType, OnlyAt
<1> QED BY <1>2, <1>3, <1>5, <1>6, <1>7 DEF s, a

\* What comes to the local service is a notice.
LEMMA NotifyType ==
    ASSUME TypeOK, NEW c \in Computers, NEW ms \in Seq(NoticeType), Notify(c, ms)
    PROVE  notices' \in [Computers -> Seq(NoticeType)]
<1> DEFINE S == Seq(NoticeType)
<1>1. notices[c] \o ms \in S /\ notices \in [Computers -> S]
  <2>1. notices[c] \in Seq(NoticeType)
    BY DEF TypeOK
  <2> QED BY <2>1, ConcatProperties DEF TypeOK
<1> HIDE DEF S
<1>2. notices' \in [Computers -> S]
  BY <1>1 DEF Notify
<1> QED BY <1>2 DEF S

\* The answer to a message is a message.
LEMMA AnswerType ==
    ASSUME TypeOK, NEW d \in Computers, NEW c \in Computers, NEW i, NEW m \in MessageType, Answer(d, c, i, m)
    PROVE  /\ replies' \in RepliesType
           /\ OnlyAt(replies, replies', c, d)
           /\ replies'[c][d] = IF accepted[d][c][i].open THEN Append(replies[c][d], m) ELSE replies[c][d]
<1>1. replies \in RepliesType /\ replies[c][d] \in Seq(MessageType)
  BY DEF TypeOK, RepliesType, Texts
<1> DEFINE x == IF accepted[d][c][i].open THEN Append(replies[c][d], m) ELSE replies[c][d]
<1>2. x \in Texts
  BY <1>1, AppendProperties DEF Texts
<1>3. replies' = [replies EXCEPT ![c][d] = x]
  BY DEF Answer
<1> HIDE DEF x
<1>4. replies' \in RepliesType /\ replies'[c][d] = x /\ OnlyAt(replies, replies', c, d)
  BY <1>1, <1>2, <1>3 DEF RepliesType, OnlyAt
<1> QED BY <1>4 DEF x

\* What is in memory and in neighbors.txt after add_neighbors().
LEMMA AddedType ==
    ASSUME NEW c \in Computers, NEW nb \in NeighborsType, NEW S \in SUBSET Computers,
           NEW new \in Added(c, nb, S)
    PROVE  /\ new \in NeighborsType
           /\ new.intact /\ nb.file = nb.all => /\ nb.intact
                                                /\ new.file = new.all
                                                /\ nb.file \cup S \subseteq new.file
<1>1. CASE S \subseteq nb.all
  BY <1>1 DEF Added, NeighborsType
<1>2. CASE ~(S \subseteq nb.all)
  <2>1. \/ new = [all |-> nb.all \cup S, file |-> nb.all \cup S, intact |-> nb.intact]
        \/ new = [all |-> nb.all \cup S, file |-> nb.file, intact |-> FALSE]
    BY <1>2 DEF Added, SaveNeighbors
  <2>2. nb.all \in SUBSET Computers /\ nb.file \in SUBSET Computers /\ nb.intact \in BOOLEAN
    BY DEF NeighborsType
  <2>3. CASE new = [all |-> nb.all \cup S, file |-> nb.all \cup S, intact |-> nb.intact]
    BY <2>2, <2>3 DEF NeighborsType
  <2>4. CASE new = [all |-> nb.all \cup S, file |-> nb.file, intact |-> FALSE]
    BY <2>2, <2>4 DEF NeighborsType
  <2> QED BY <2>1, <2>3, <2>4
<1> QED BY <1>1, <1>2

\* A save that failed is not made good by a later one.
LEMMA AddedIntact ==
    ASSUME NEW c, NEW nb \in NeighborsType, NEW S, NEW new \in Added(c, nb, S), new.intact
    PROVE  nb.intact
<1>1. CASE S \subseteq nb.all
  BY <1>1 DEF Added
<1>2. CASE ~(S \subseteq nb.all)
  BY <1>2 DEF Added, SaveNeighbors
<1> QED BY <1>1, <1>2

\* add_remote_communicator(): no address that is known is added again, and no
\* computer adds itself.
LEMMA AddRemotesType ==
    ASSUME TypeOK, NEW c \in Computers, NEW S \in SUBSET Computers,
           NEW objects \in [Computers -> ObjectState], objects[c] = "none", AddRemotes(c, S, objects)
    PROVE  /\ allIps' \in [Computers -> SUBSET Computers]
           /\ object' \in [Computers -> [Computers -> ObjectState]]
           /\ \A x \in Computers : object'[x][x] = "none"
           /\ allIps'[c] = allIps[c] \cup NewAddresses(c, S)
           /\ \A d \in Computers : object'[c][d] = IF d \in NewAddresses(c, S) THEN "waiting" ELSE objects[d]
           /\ \A x \in Computers \ {c} : allIps'[x] = allIps[x] /\ object'[x] = object[x]
<1>1. allIps' = [allIps EXCEPT ![c] = allIps[c] \cup NewAddresses(c, S)]
  BY DEF AddRemotes
<1>2. object' = [object EXCEPT ![c] = [d \in Computers |-> IF d \in NewAddresses(c, S) THEN "waiting" ELSE objects[d]]]
  BY DEF AddRemotes
<1>3. NewAddresses(c, S) \in SUBSET Computers /\ c \notin NewAddresses(c, S)
  BY DEF NewAddresses
<1>4. /\ allIps' \in [Computers -> SUBSET Computers]
      /\ allIps'[c] = allIps[c] \cup NewAddresses(c, S)
      /\ \A x \in Computers \ {c} : allIps'[x] = allIps[x]
  BY <1>1, <1>3 DEF TypeOK
<1>5. /\ object' \in [Computers -> [Computers -> ObjectState]]
      /\ \A d \in Computers : object'[c][d] = IF d \in NewAddresses(c, S) THEN "waiting" ELSE objects[d]
      /\ \A x \in Computers \ {c} : object'[x] = object[x]
  BY <1>2 DEF TypeOK, ObjectState
<1>6. \A x \in Computers : object'[x][x] = "none"
  BY <1>3, <1>5 DEF TypeOK
<1> QED BY <1>4, <1>5, <1>6

\* add_neighbors() keeps the types.
LEMMA AddNeighborsType ==
    ASSUME TypeOK, NEW c \in Computers, NEW S \in SUBSET Computers, NEW objects, AddNeighbors(c, S, objects)
    PROVE  /\ neighbors' \in [Computers -> NeighborsType]
           /\ neighbors'[c] \in Added(c, neighbors[c], S)
           /\ \A x \in Computers \ {c} : neighbors'[x] = neighbors[x]
           /\ AddRemotes(c, S, objects)
<1>1. PICK nb \in Added(c, neighbors[c], S) : neighbors' = [neighbors EXCEPT ![c] = nb]
  BY DEF AddNeighbors
<1>2. neighbors[c] \in NeighborsType
  BY DEF TypeOK
<1>3. nb \in NeighborsType
  BY <1>1, <1>2, AddedType
<1> QED BY <1>1, <1>3 DEF AddNeighbors, TypeOK

\* The consequences of the type invariant that most steps below need.
LEMMA TypeFacts ==
    ASSUME TypeOK
    PROVE  /\ accepted \in AcceptedType
           /\ replies \in RepliesType
           /\ \A d, c \in Computers : /\ accepted[d][c] \in Seq(ServiceType)
                                      /\ accepted[d][c] \in Conns
                                      /\ DOMAIN accepted[d][c] = 1 .. Len(accepted[d][c])
                                      /\ Len(accepted[d][c]) \in Nat
                                      /\ replies[d][c] \in Seq(MessageType)
                                      /\ replies[d][c] \in Texts
                                      /\ object[d][c] \in ObjectState
           /\ \A d, c \in Computers : \A i \in DOMAIN accepted[d][c] : /\ accepted[d][c][i] \in ServiceType
                                                                     /\ accepted[d][c][i].in \in Seq(MessageType)
           /\ \A d \in Computers : notices[d] \in Seq(NoticeType)
<1>1. /\ accepted \in AcceptedType
      /\ replies \in RepliesType
  BY DEF TypeOK, AcceptedType, RepliesType, Conns, Texts
<1>2. \A d, c \in Computers : /\ accepted[d][c] \in Conns
                              /\ replies[d][c] \in Texts
                              /\ object[d][c] \in ObjectState
  BY <1>1 DEF AcceptedType, RepliesType, TypeOK
<1>3. ASSUME NEW d \in Computers, NEW c \in Computers
      PROVE  /\ accepted[d][c] \in Seq(ServiceType)
             /\ DOMAIN accepted[d][c] = 1 .. Len(accepted[d][c])
             /\ Len(accepted[d][c]) \in Nat
             /\ replies[d][c] \in Seq(MessageType)
  BY <1>2, LenProperties DEF Conns, Texts
<1>4. ASSUME NEW d \in Computers, NEW c \in Computers, NEW i \in DOMAIN accepted[d][c]
      PROVE  accepted[d][c][i] \in ServiceType /\ accepted[d][c][i].in \in Seq(MessageType)
  BY <1>3, ElementOfSeq, ServiceFields
<1>5. \A d \in Computers : notices[d] \in Seq(NoticeType)
  BY DEF TypeOK
<1> QED BY <1>1, <1>2, <1>3, <1>4, <1>5

\* Two lists of connections with the same names, kinds and ages.
SameConns(s, t) ==
    /\ DOMAIN t = DOMAIN s
    /\ Len(t) = Len(s)
    /\ \A i \in DOMAIN s : t[i].named = s[i].named /\ t[i].remote = s[i].remote /\ t[i].first = s[i].first

\* What broadcast_message() does to the connections: a LOCKREADY is added to
\* the links to the computers of `to`.
BroadcastTo(x, who, informed, conns, answers, to) ==
    /\ \A y \in Computers : y \in to <=> y \notin informed \cup {x} /\ (ViaService(x, y) \/ ViaObject(x, y))
    /\ LockReady(who, informed \cup to \cup {x}) \in MessageType
    /\ \A d, c \in Computers :
          accepted'[d][c] = IF c = x /\ d \in to /\ ViaObject(x, d)
                            THEN Sent(conns[d][c], LockReady(who, informed \cup to \cup {x}))
                            ELSE conns[d][c]
    /\ \A c, d \in Computers :
          replies'[c][d] = IF d = x /\ c \in to /\ ViaService(x, c) /\ accepted[x][c][1].open
                           THEN Append(answers[c][d], LockReady(who, informed \cup to \cup {x}))
                           ELSE answers[c][d]

\* broadcast_message() is BroadcastTo, for some set of targets.
LEMMA BroadcastEffect ==
    ASSUME TypeOK, NEW x \in Computers, NEW who \in Computers, NEW informed \in SUBSET Computers,
           NEW conns \in AcceptedType, NEW answers \in RepliesType,
           Broadcast(x, who, informed, conns, answers)
    PROVE  /\ accepted' \in AcceptedType
           /\ replies' \in RepliesType
           /\ \E to \in SUBSET (Computers \ (informed \cup {x})) :
                 BroadcastTo(x, who, informed, conns, answers, to)
<1> DEFINE to == {y \in Computers \ (informed \cup {x}) : ViaService(x, y) \/ ViaObject(x, y)}
           m  == LockReady(who, informed \cup to \cup {x})
           A(d, c) == IF c = x /\ d \in to /\ ViaObject(x, d) THEN Sent(conns[d][c], m) ELSE conns[d][c]
           R(c, d) == IF d = x /\ c \in to /\ ViaService(x, c) /\ accepted[x][c][1].open
                      THEN Append(answers[c][d], m) ELSE answers[c][d]
<1>1. accepted' = [d \in Computers |-> [c \in Computers |-> A(d, c)]]
  BY DEF Broadcast
<1>2. replies' = [c \in Computers |-> [d \in Computers |-> R(c, d)]]
  BY DEF Broadcast
<1>3. m \in MessageType
  <2>1. informed \cup to \cup {x} \in SUBSET Computers
    OBVIOUS
  <2> HIDE DEF to
  <2> QED BY <2>1, LockReadyIsMessage
<1>4. \A y \in Computers : y \in to <=> y \notin informed \cup {x} /\ (ViaService(x, y) \/ ViaObject(x, y))
  OBVIOUS
<1>5. to \in SUBSET (Computers \ (informed \cup {x}))
  OBVIOUS
<1> HIDE DEF to, m
<1>6. \A d, c \in Computers : A(d, c) \in Conns
  <2> SUFFICES ASSUME NEW d \in Computers, NEW c \in Computers
               PROVE  A(d, c) \in Conns
    OBVIOUS
  <2>1. conns[d][c] \in Conns
    BY DEF AcceptedType
  <2>2. Sent(conns[d][c], m) \in Conns
    BY <1>3, <2>1, SentConns DEF Conns
  <2> QED BY <2>1, <2>2
<1>7. \A c, d \in Computers : R(c, d) \in Texts
  <2> SUFFICES ASSUME NEW d \in Computers, NEW c \in Computers
               PROVE  R(c, d) \in Texts
    OBVIOUS
  <2>1. answers[c][d] \in Texts
    BY DEF RepliesType
  <2>2. Append(answers[c][d], m) \in Texts
    BY <1>3, <2>1, AppendProperties DEF Texts
  <2> QED BY <2>1, <2>2
<1> HIDE DEF A, R
<1>8. /\ accepted' \in AcceptedType
      /\ \A d, c \in Computers : accepted'[d][c] = A(d, c)
  BY <1>1, <1>6 DEF AcceptedType
<1>9. /\ replies' \in RepliesType
      /\ \A c, d \in Computers : replies'[c][d] = R(c, d)
  BY <1>2, <1>7 DEF RepliesType
<1>10. BroadcastTo(x, who, informed, conns, answers, to)
  BY <1>3, <1>4, <1>8, <1>9 DEF BroadcastTo, A, R, m
<1> QED BY <1>5, <1>8, <1>9, <1>10

\* What the end of a process does to the connections.
LEMMA EndsEffect ==
    ASSUME TypeOK, NEW x \in Computers, NEW last \in Seq(MessageType), NEW fin \in BOOLEAN,
           last \in {<<>>, <<Message("DISCONNECT")>>}, Ends(x, last, fin)
    PROVE  /\ accepted' \in AcceptedType
           /\ replies' \in RepliesType
           /\ \A c \in Computers : accepted'[x][c] = <<>> /\ replies'[x][c] = <<>>
           /\ \A d, c \in Computers : d # x /\ c # x => /\ accepted'[d][c] = accepted[d][c]
                                                       /\ replies'[d][c] = replies[d][c]
           /\ \A d \in Computers \ {x} :
                 /\ SameConns(accepted[d][x], accepted'[d][x])
                 /\ \A i \in DOMAIN accepted[d][x] : \A k \in DOMAIN accepted'[d][x][i].in :
                       \/ k \in DOMAIN accepted[d][x][i].in /\ accepted'[d][x][i].in[k] = accepted[d][x][i].in[k]
                       \/ accepted'[d][x][i].in[k] = EOF
                       \/ d < x /\ accepted'[d][x][i].in[k] = Message("DISCONNECT")
           /\ \A c \in Computers \ {x} : \A k \in DOMAIN replies'[c][x] :
                       \/ k \in DOMAIN replies[c][x] /\ replies'[c][x][k] = replies[c][x][k]
                       \/ replies'[c][x][k] \in {EOF, Message("DISCONNECT")}
<1> DEFINE end == IF fin THEN <<EOF>> ELSE <<>>
           add(d) == IF d < x THEN last ELSE <<>>
           F(d, a) == IF a.open THEN [a EXCEPT !.in = a.in \o add(d) \o end, !.open = FALSE] ELSE a
           FI(d, conns) == [i \in DOMAIN conns |-> F(d, conns[i])]
           some(c) == IF \E i \in {i \in DOMAIN accepted[x][c] : accepted[x][c][i].open} : accepted[x][c][i].remote
                      THEN last ELSE <<>>
           FA(c) == IF {i \in DOMAIN accepted[x][c] : accepted[x][c][i].open} = {} THEN <<>> ELSE some(c) \o end
           A(d, c) == IF d = x THEN <<>> ELSE IF c = x THEN FI(d, accepted[d][c]) ELSE accepted[d][c]
           R(c, d) == IF c = x THEN <<>> ELSE IF d = x THEN replies[c][d] \o FA(c) ELSE replies[c][d]
<1>1. accepted' = [d \in Computers |-> [c \in Computers |-> A(d, c)]]
  BY Zenon DEF Ends
<1>2. replies' = [c \in Computers |-> [d \in Computers |-> R(c, d)]]
  BY Zenon DEF Ends
<1>3. EOF \in MessageType /\ Message("DISCONNECT") \in MessageType
  BY WordIsMessage DEF EOF, Words
<1>4. end \in Seq(MessageType) /\ \A k \in DOMAIN end : end[k] = EOF
  BY <1>3
<1>5. \A k \in DOMAIN last : last[k] = Message("DISCONNECT")
  OBVIOUS
<1>6. \A d \in Computers : /\ add(d) \in Seq(MessageType)
                           /\ \A k \in DOMAIN add(d) : d < x /\ add(d)[k] = Message("DISCONNECT")
  BY <1>5
<1>7. \A c \in Computers : /\ some(c) \in Seq(MessageType)
                           /\ \A k \in DOMAIN some(c) : some(c)[k] = Message("DISCONNECT")
  BY <1>5
<1> HIDE DEF end, add, some
<1>8. ASSUME NEW d \in Computers
      PROVE  /\ FI(d, accepted[d][x]) \in Conns
             /\ SameConns(accepted[d][x], FI(d, accepted[d][x]))
             /\ \A i \in DOMAIN accepted[d][x] : \A k \in DOMAIN FI(d, accepted[d][x])[i].in :
                   \/ /\ k \in DOMAIN accepted[d][x][i].in
                      /\ FI(d, accepted[d][x])[i].in[k] = accepted[d][x][i].in[k]
                   \/ FI(d, accepted[d][x])[i].in[k] = EOF
                   \/ d < x /\ FI(d, accepted[d][x])[i].in[k] = Message("DISCONNECT")
  <2> DEFINE s == accepted[d][x]
             t == FI(d, s)
  <2>1. s \in Seq(ServiceType)
    BY TypeFacts
  <2> HIDE DEF F
  <2>2. t = [i \in DOMAIN s |-> t[i]]
    OBVIOUS
  <2>3. ASSUME NEW i \in DOMAIN s
        PROVE  /\ t[i] \in ServiceType
               /\ t[i].named = s[i].named /\ t[i].remote = s[i].remote /\ t[i].first = s[i].first
               /\ \A k \in DOMAIN t[i].in : \/ k \in DOMAIN s[i].in /\ t[i].in[k] = s[i].in[k]
                                            \/ t[i].in[k] = EOF
                                            \/ d < x /\ t[i].in[k] = Message("DISCONNECT")
    <3> DEFINE a == s[i]
               in == a.in \o add(d) \o end
               r == [a EXCEPT !.in = in, !.open = FALSE]
    <3>1. a \in ServiceType /\ a.in \in Seq(MessageType)
      BY <2>1, ElementOfSeq, LenProperties, ServiceFields
    <3>2. t[i] = IF a.open THEN r ELSE a
      <4>1. t[i] = F(d, a)
        OBVIOUS
      <4> HIDE DEF t, a
      <4> QED BY <4>1 DEF F
    <3>3. a.in \o add(d) \in Seq(MessageType)
      BY <1>6, <3>1, ConcatProperties
    <3>4. in \in Seq(MessageType)
      BY <1>4, <3>3, ConcatProperties
    <3>5. ASSUME NEW k \in DOMAIN in
          PROVE  \/ k \in DOMAIN a.in /\ in[k] = a.in[k]
                 \/ in[k] = EOF
                 \/ d < x /\ in[k] = Message("DISCONNECT")
      <4>1. CASE k \in DOMAIN (a.in \o add(d)) /\ in[k] = (a.in \o add(d))[k]
        <5>1. \/ k \in DOMAIN a.in /\ (a.in \o add(d))[k] = a.in[k]
              \/ \E j \in DOMAIN add(d) : (a.in \o add(d))[k] = add(d)[j]
          BY <4>1, <1>6, <3>1, Joins
        <5> QED BY <4>1, <5>1, <1>6
      <4>2. CASE \E j \in DOMAIN end : in[k] = end[j]
        BY <4>2, <1>4
      <4> QED BY <4>1, <4>2, <1>4, <3>3, Joins
    <3> HIDE DEF in, a, t
    <3>6. r \in ServiceType /\ r.in = in /\ r.named = a.named /\ r.remote = a.remote /\ r.first = a.first
      BY <3>1, <3>4 DEF ServiceType
    <3> HIDE DEF r
    <3>7. CASE a.open
      BY <3>2, <3>5, <3>6, <3>7 DEF a
    <3>8. CASE ~a.open
      BY <3>1, <3>2, <3>8 DEF a
    <3> QED BY <3>7, <3>8
  <2> HIDE DEF t, s
  <2>4. t \in Seq(ServiceType) /\ Len(t) = Len(s) /\ DOMAIN t = DOMAIN s
    BY <2>1, <2>2, <2>3, Mapped
  <2> HIDE DEF FI
  <2> QED BY <2>3, <2>4 DEF t, s, SameConns, Conns
<1>9. ASSUME NEW c \in Computers
      PROVE  /\ replies[c][x] \o FA(c) \in Texts
             /\ \A k \in DOMAIN (replies[c][x] \o FA(c)) :
                   \/ k \in DOMAIN replies[c][x] /\ (replies[c][x] \o FA(c))[k] = replies[c][x][k]
                   \/ (replies[c][x] \o FA(c))[k] \in {EOF, Message("DISCONNECT")}
  <2>1. some(c) \o end \in Seq(MessageType)
    BY <1>4, <1>7, ConcatProperties
  <2>2. \A k \in DOMAIN (some(c) \o end) : (some(c) \o end)[k] \in {EOF, Message("DISCONNECT")}
    BY <1>4, <1>7, Joins
  <2>3. FA(c) \in Seq(MessageType) /\ \A k \in DOMAIN FA(c) : FA(c)[k] \in {EOF, Message("DISCONNECT")}
    BY <2>1, <2>2
  <2> HIDE DEF FA
  <2>4. replies[c][x] \in Seq(MessageType)
    BY TypeFacts
  <2>5. replies[c][x] \o FA(c) \in Texts
    BY <2>3, <2>4, ConcatProperties DEF Texts
  <2> QED BY <2>3, <2>4, <2>5, Joins
<1> HIDE DEF FI, FA
<1>10. <<>> \in Conns /\ <<>> \in Texts
  BY DEF Conns, Texts
<1>11. \A d, c \in Computers : A(d, c) \in Conns /\ R(d, c) \in Texts
  BY <1>8, <1>9, <1>10, TypeFacts
<1>12. /\ A(x, x) = <<>>
       /\ \A c \in Computers : A(x, c) = <<>> /\ R(x, c) = <<>>
       /\ \A d, c \in Computers : d # x /\ c # x => A(d, c) = accepted[d][c] /\ R(d, c) = replies[d][c]
       /\ \A d \in Computers \ {x} : A(d, x) = FI(d, accepted[d][x]) /\ R(d, x) = replies[d][x] \o FA(d)
  OBVIOUS
<1> HIDE DEF A, R
<1>13. /\ accepted' \in AcceptedType
       /\ \A d, c \in Computers : accepted'[d][c] = A(d, c)
  BY <1>1, <1>11 DEF AcceptedType
<1>14. /\ replies' \in RepliesType
       /\ \A d, c \in Computers : replies'[d][c] = R(d, c)
  BY <1>2, <1>11 DEF RepliesType
<1>15. ASSUME NEW d \in Computers \ {x}
       PROVE  accepted'[d][x] = FI(d, accepted[d][x]) /\ replies'[d][x] = replies[d][x] \o FA(d)
  BY <1>12, <1>13, <1>14
<1>16. \A d \in Computers \ {x} :
          /\ SameConns(accepted[d][x], accepted'[d][x])
          /\ \A i \in DOMAIN accepted[d][x] : \A k \in DOMAIN accepted'[d][x][i].in :
                \/ k \in DOMAIN accepted[d][x][i].in /\ accepted'[d][x][i].in[k] = accepted[d][x][i].in[k]
                \/ accepted'[d][x][i].in[k] = EOF
                \/ d < x /\ accepted'[d][x][i].in[k] = Message("DISCONNECT")
  BY <1>8, <1>15
<1>17. \A c \in Computers \ {x} : \A k \in DOMAIN replies'[c][x] :
                       \/ k \in DOMAIN replies[c][x] /\ replies'[c][x][k] = replies[c][x][k]
                       \/ replies'[c][x][k] \in {EOF, Message("DISCONNECT")}
  BY <1>9, <1>15
<1> QED BY <1>12, <1>13, <1>14, <1>16, <1>17
-----------------------------------------------------------------------------
(* What each of the other operations does to the connections.              *)

ConnsOK == /\ accepted \in AcceptedType
           /\ replies \in RepliesType
           /\ \A c \in Computers : accepted[c][c] = <<>>

\* The part of the type invariant that is about the connections.
LEMMA ConnsHold == TypeOK => ConnsOK
BY TypeFacts DEF ConnsOK, TypeOK

\* c connects to d: one more connection at the end, and no answer yet.
LEMMA ConnectEffect ==
    ASSUME TypeOK, NEW c \in Computers, NEW d \in Computers, Connect(c, d)
    PROVE  LET n == NewConnection(object[d][c] = "none", Message(IF d < c THEN "CONNECT" ELSE "GOSSIP"))
           IN  /\ ConnsOK'
               /\ c # d
               /\ OnlyAt(accepted, accepted', d, c)
               /\ n \in ServiceType
               /\ accepted'[d][c] = Append(accepted[d][c], n)
               /\ DOMAIN accepted'[d][c] = 1 .. Len(accepted[d][c]) + 1
               /\ Len(accepted'[d][c]) = Len(accepted[d][c]) + 1
               /\ \A i \in DOMAIN accepted[d][c] : accepted'[d][c][i] = accepted[d][c][i]
               /\ accepted'[d][c][Len(accepted[d][c]) + 1] = n
               /\ OnlyAt(replies, replies', c, d)
               /\ replies'[c][d] = <<>>
<1> DEFINE m == Message(IF d < c THEN "CONNECT" ELSE "GOSSIP")
           n == NewConnection(object[d][c] = "none", m)
           s == accepted[d][c]
           t == Append(s, n)
<1>1. c # d
  BY DEF Connect, TypeOK
<1>2. m \in MessageType
  BY WordIsMessage DEF Words
<1> HIDE DEF m
<1>3. n \in ServiceType
  BY <1>2, NewConnectionType
<1>4. accepted' = [accepted EXCEPT ![d][c] = t] /\ replies' = [replies EXCEPT ![c][d] = <<>>]
  BY DEF Connect, m
<1> HIDE DEF n
<1>5. s \in Seq(ServiceType) /\ DOMAIN s = 1 .. Len(s) /\ Len(s) \in Nat
  BY TypeFacts
<1> HIDE DEF s
<1>6. /\ t \in Seq(ServiceType)
      /\ Len(t) = Len(s) + 1
      /\ \A i \in 1 .. Len(s) : t[i] = s[i]
      /\ t[Len(s) + 1] = n
  BY <1>3, <1>5, AppendProperties
<1> HIDE DEF t
<1>7. DOMAIN t = 1 .. Len(s) + 1
  BY <1>6, LenProperties
<1>8. t \in Conns /\ <<>> \in Texts
  BY <1>6 DEF Conns, Texts
<1>9. accepted' \in AcceptedType /\ accepted'[d][c] = t /\ OnlyAt(accepted, accepted', d, c)
  BY <1>4, <1>8, TypeFacts DEF AcceptedType, OnlyAt
<1>10. replies' \in RepliesType /\ replies'[c][d] = <<>> /\ OnlyAt(replies, replies', c, d)
  BY <1>4, <1>8, TypeFacts DEF RepliesType, OnlyAt
<1>11. ConnsOK'
  BY <1>1, <1>9, <1>10 DEF ConnsOK, OnlyAt, TypeOK
<1> QED BY <1>1, <1>3, <1>5, <1>6, <1>7, <1>9, <1>10, <1>11 DEF n, t, s, m

\* There is something to read on connection i.
LEMMA ReadsFacts ==
    ASSUME TypeOK, NEW d \in Computers, NEW c \in Computers, NEW i, NEW w, Reads(d, c, i, w)
    PROVE  LET a == accepted[d][c][i]
           IN  /\ c # d
               /\ i \in DOMAIN accepted[d][c]
               /\ a \in ServiceType
               /\ a.in \in Seq(MessageType)
               /\ a.in # <<>>
               /\ Head(a.in) = a.in[1]
               /\ a.in[1] \in MessageType
               /\ a.in[1].cmd = w
               /\ Tail(a.in) \in Seq(MessageType)
               /\ \A k \in DOMAIN Tail(a.in) : k + 1 \in DOMAIN a.in /\ Tail(a.in)[k] = a.in[k + 1]
<1> DEFINE q == accepted[d][c][i].in
<1>1. i \in DOMAIN accepted[d][c] /\ q # <<>> /\ Head(q).cmd = w
  BY DEF Reads
<1>2. accepted[d][c][i] \in ServiceType /\ q \in Seq(MessageType)
  BY <1>1, TypeFacts
<1>3. c # d
  BY <1>1, TypeFacts DEF TypeOK
<1> HIDE DEF q
<1>4. Head(q) = q[1] /\ q[1] \in MessageType
  BY <1>1, <1>2
<1>5. Tail(q) \in Seq(MessageType) /\ \A k \in DOMAIN Tail(q) : k + 1 \in DOMAIN q /\ Tail(q)[k] = q[k + 1]
  BY <1>1, <1>2
<1> QED BY <1>1, <1>2, <1>3, <1>4, <1>5 DEF q

\* Something came on the connection that c opened.
LEMMA HearsFacts ==
    ASSUME TypeOK, NEW d \in Computers, NEW c \in Computers, NEW w, Hears(c, d, w)
    PROVE  LET q == replies[c][d]
           IN  /\ c # d
               /\ object[c][d] \in {"connected", "accepted"}
               /\ q \in Seq(MessageType)
               /\ q # <<>>
               /\ Head(q) = q[1]
               /\ 1 \in DOMAIN q
               /\ q[1] \in MessageType
               /\ q[1].cmd = w
               /\ Tail(q) \in Seq(MessageType)
               /\ \A k \in DOMAIN Tail(q) : k + 1 \in DOMAIN q /\ Tail(q)[k] = q[k + 1]
<1> DEFINE q == replies[c][d]
<1>1. object[c][d] \in {"connected", "accepted"} /\ q # <<>> /\ Head(q).cmd = w
  BY DEF Hears, Up
<1>2. q \in Seq(MessageType)
  BY TypeFacts
<1>3. c # d
  BY <1>1 DEF TypeOK
<1> HIDE DEF q
<1>4. Head(q) = q[1] /\ q[1] \in MessageType /\ 1 \in DOMAIN q
  BY <1>1, <1>2
<1>5. Tail(q) \in Seq(MessageType) /\ \A k \in DOMAIN Tail(q) : k + 1 \in DOMAIN q /\ Tail(q)[k] = q[k + 1]
  BY <1>1, <1>2
<1> QED BY <1>1, <1>2, <1>3, <1>4, <1>5 DEF q

\* A message on connection i was read, or the end of the connection found out.
LEMMA InEffect ==
    ASSUME TypeOK, NEW d \in Computers, NEW c \in Computers, NEW i \in DOMAIN accepted[d][c],
           NEW q \in Seq(MessageType), accepted' = [accepted EXCEPT ![d][c][i].in = q]
    PROVE  /\ accepted' \in AcceptedType
           /\ \A x \in Computers : accepted'[x][x] = <<>>
           /\ OnlyAt(accepted, accepted', d, c)
           /\ DOMAIN accepted'[d][c] = DOMAIN accepted[d][c]
           /\ Len(accepted'[d][c]) = Len(accepted[d][c])
           /\ \A j \in DOMAIN accepted[d][c] : j # i => accepted'[d][c][j] = accepted[d][c][j]
           /\ accepted'[d][c][i].in = q
           /\ accepted'[d][c][i].named = accepted[d][c][i].named
           /\ accepted'[d][c][i].remote = accepted[d][c][i].remote
           /\ accepted'[d][c][i].open = accepted[d][c][i].open
           /\ accepted'[d][c][i].first = accepted[d][c][i].first
<1> DEFINE f == accepted
           g == accepted'
<1>1. f \in AcceptedType /\ i \in DOMAIN f[d][c]
  BY TypeFacts
<1>5. g = SetIn(f, d, c, i, q)
  BY DEF SetIn
<1>2. d # c /\ \A x \in Computers : f[x][x] = <<>>
  <2>1. \A x \in Computers : f[x][x] = <<>>
    BY DEF TypeOK
  <2> QED BY <2>1
<1> HIDE DEF f, g
<1>3. /\ g \in AcceptedType
      /\ OnlyAt(f, g, d, c)
      /\ DOMAIN g[d][c] = DOMAIN f[d][c]
      /\ Len(g[d][c]) = Len(f[d][c])
      /\ \A j \in DOMAIN f[d][c] : j # i => g[d][c][j] = f[d][c][j]
      /\ g[d][c][i].in = q
      /\ g[d][c][i].named = f[d][c][i].named
      /\ g[d][c][i].remote = f[d][c][i].remote
      /\ g[d][c][i].open = f[d][c][i].open
      /\ g[d][c][i].first = f[d][c][i].first
  BY <1>1, <1>5, InEntry
<1>4. \A x \in Computers : g[x][x] = <<>>
  BY <1>2, <1>3 DEF OnlyAt
<1> QED BY <1>3, <1>4 DEF f, g

\* CONNECT: only connection i, and the answer to it, change.
LEMMA ProcessConnectEffect ==
    ASSUME TypeOK, NEW d \in Computers, NEW c \in Computers, NEW i, ProcessConnect(d, c, i)
    PROVE  LET a       == accepted[d][c][i]
               refuse  == Refuses(d, c, i)
           IN  /\ ConnsOK'
               /\ OnlyAt(accepted, accepted', d, c)
               /\ DOMAIN accepted'[d][c] = DOMAIN accepted[d][c]
               /\ Len(accepted'[d][c]) = Len(accepted[d][c])
               /\ \A j \in DOMAIN accepted[d][c] : j # i => accepted'[d][c][j] = accepted[d][c][j]
               /\ accepted'[d][c][i].in = Tail(a.in)
               /\ accepted'[d][c][i].named <=> ~Conflict(d, c, i)
               /\ accepted'[d][c][i].remote <=> ~refuse
               /\ accepted'[d][c][i].open = a.open
               /\ accepted'[d][c][i].first = a.first
               /\ OnlyAt(replies, replies', c, d)
               /\ replies'[c][d] = IF a.open THEN Append(replies[c][d], Message(IF refuse THEN "REFUSE" ELSE "ACCEPT"))
                                             ELSE replies[c][d]
<1> DEFINE f == accepted
           g == accepted'
           refuse == Refuses(d, c, i)
           q == Tail(accepted[d][c][i].in)
           n == ~Conflict(d, c, i)
           e == ~refuse
           m == Message(IF refuse THEN "REFUSE" ELSE "ACCEPT")
<1>1. Reads(d, c, i, "CONNECT") /\ Answer(d, c, i, m) /\ g = SetNamed(f, d, c, i, q, n, e)
  <2>1. Reads(d, c, i, "CONNECT") /\ Answer(d, c, i, m)
    BY Zenon DEF ProcessConnect
  <2>2. g = SetNamed(f, d, c, i, q, n, e)
    BY Zenon DEF ProcessConnect, SetNamed
  <2> QED BY <2>1, <2>2
<1>2. d # c /\ i \in DOMAIN f[d][c] /\ q \in Seq(MessageType)
  BY <1>1, ReadsFacts
<1>3. f \in AcceptedType /\ \A x \in Computers : f[x][x] = <<>>
  BY TypeFacts DEF TypeOK
<1>4. m \in MessageType
  BY WordIsMessage DEF Words
<1>5. n \in BOOLEAN /\ e \in BOOLEAN
  OBVIOUS
<1> HIDE DEF m
<1>6. /\ replies' \in RepliesType
      /\ OnlyAt(replies, replies', c, d)
      /\ replies'[c][d] = IF accepted[d][c][i].open THEN Append(replies[c][d], m) ELSE replies[c][d]
  BY <1>1, <1>4, AnswerType
<1> HIDE DEF f, g, q, n, e
<1>7. /\ g \in AcceptedType
      /\ OnlyAt(f, g, d, c)
      /\ DOMAIN g[d][c] = DOMAIN f[d][c]
      /\ Len(g[d][c]) = Len(f[d][c])
      /\ \A j \in DOMAIN f[d][c] : j # i => g[d][c][j] = f[d][c][j]
      /\ g[d][c][i].in = q
      /\ g[d][c][i].named = n
      /\ g[d][c][i].remote = e
      /\ g[d][c][i].open = f[d][c][i].open
      /\ g[d][c][i].first = f[d][c][i].first
  BY <1>1, <1>2, <1>3, <1>5, NameEntry
<1>8. \A x \in Computers : g[x][x] = <<>>
  BY <1>2, <1>3, <1>7 DEF OnlyAt
<1>9. ConnsOK'
  BY <1>6, <1>7, <1>8 DEF ConnsOK, g
<1> QED BY <1>6, <1>7, <1>9 DEF f, g, q, n, e, m

\* Connection i was removed.
LEMMA WithoutEffect ==
    ASSUME TypeOK, NEW d \in Computers, NEW c \in Computers, NEW i \in DOMAIN accepted[d][c],
           accepted' = [accepted EXCEPT ![d][c] = Without(@, i)]
    PROVE  /\ accepted' \in AcceptedType
           /\ \A x \in Computers : accepted'[x][x] = <<>>
           /\ OnlyAt(accepted, accepted', d, c)
           /\ Len(accepted'[d][c]) = Len(accepted[d][c]) - 1
           /\ DOMAIN accepted'[d][c] = 1 .. Len(accepted[d][c]) - 1
           /\ \A j \in DOMAIN accepted'[d][c] :
                 /\ (IF j < i THEN j ELSE j + 1) \in DOMAIN accepted[d][c]
                 /\ accepted'[d][c][j] = accepted[d][c][IF j < i THEN j ELSE j + 1]
<1> DEFINE s == accepted[d][c]
           t == Without(s, i)
<1>1. s \in Seq(ServiceType) /\ i \in DOMAIN s
  BY TypeFacts
<1>2. accepted' = [accepted EXCEPT ![d][c] = t]
  OBVIOUS
<1>3. d # c
  BY TypeFacts DEF TypeOK
<1> HIDE DEF s
<1>4. /\ t \in Seq(ServiceType)
      /\ Len(t) = Len(s) - 1
      /\ DOMAIN t = 1 .. Len(s) - 1
      /\ \A j \in DOMAIN t :
                 /\ (IF j < i THEN j ELSE j + 1) \in DOMAIN s
                 /\ t[j] = s[IF j < i THEN j ELSE j + 1]
  BY <1>1, WithoutConns
<1> HIDE DEF t
<1>5. t \in Conns
  BY <1>4 DEF Conns
<1>6. accepted' \in AcceptedType /\ accepted'[d][c] = t /\ OnlyAt(accepted, accepted', d, c)
  BY <1>2, <1>5, TypeFacts DEF AcceptedType, OnlyAt
<1>7. \A x \in Computers : accepted'[x][x] = <<>>
  BY <1>3, <1>6 DEF OnlyAt, TypeOK
<1> QED BY <1>4, <1>6, <1>7 DEF s

\* c closed its end of the connections to d.
LEMMA CloseEffect ==
    ASSUME TypeOK, NEW d \in Computers, NEW c \in Computers, c # d,
           accepted' = [accepted EXCEPT ![d][c] = Closed(@)],
           replies' = [replies EXCEPT ![c][d] = <<>>]
    PROVE  /\ ConnsOK'
           /\ OnlyAt(accepted, accepted', d, c)
           /\ SameConns(accepted[d][c], accepted'[d][c])
           /\ \A i \in DOMAIN accepted[d][c] :
                 /\ ~accepted'[d][c][i].open
                 /\ accepted'[d][c][i].in = IF accepted[d][c][i].open THEN Append(accepted[d][c][i].in, EOF)
                                            ELSE accepted[d][c][i].in
           /\ OnlyAt(replies, replies', c, d)
           /\ replies'[c][d] = <<>>
<1> DEFINE s == accepted[d][c]
           t == Closed(s)
<1>1. s \in Seq(ServiceType)
  BY TypeFacts
<1>2. accepted' = [accepted EXCEPT ![d][c] = t]
  OBVIOUS
<1> HIDE DEF s
<1>4. /\ t \in Seq(ServiceType)
      /\ Len(t) = Len(s)
      /\ DOMAIN t = DOMAIN s
      /\ \A i \in DOMAIN s : /\ t[i].in = IF s[i].open THEN Append(s[i].in, EOF) ELSE s[i].in
                             /\ t[i].named = s[i].named
                             /\ t[i].remote = s[i].remote
                             /\ ~t[i].open
                             /\ t[i].first = s[i].first
  BY <1>1, ClosedConns
<1> HIDE DEF t
<1>5. t \in Conns /\ <<>> \in Texts
  BY <1>4 DEF Conns, Texts
<1>6. accepted' \in AcceptedType /\ accepted'[d][c] = t /\ OnlyAt(accepted, accepted', d, c)
  BY <1>2, <1>5, TypeFacts DEF AcceptedType, OnlyAt
<1>7. replies' \in RepliesType /\ replies'[c][d] = <<>> /\ OnlyAt(replies, replies', c, d)
  BY <1>5, TypeFacts DEF RepliesType, OnlyAt
<1>8. ConnsOK'
  BY <1>6, <1>7 DEF ConnsOK, OnlyAt, TypeOK
<1> QED BY <1>4, <1>6, <1>7, <1>8 DEF s, SameConns

-----------------------------------------------------------------------------
(* Type correctness.                                                       *)

ProcessesOK ==
    /\ running \in [Computers -> BOOLEAN]
    /\ starts \in Nat
    /\ smooth \in BOOLEAN
    /\ registered \in [Computers -> BOOLEAN]
    /\ lockd \in [Computers -> BOOLEAN]
    /\ lockStarts \in [Computers -> Nat]
    /\ computers \in [Computers -> SUBSET Computers]

NeighborsOK ==
    /\ neighbors \in [Computers -> NeighborsType]
    /\ allIps \in [Computers -> SUBSET Computers]
    /\ object \in [Computers -> [Computers -> ObjectState]]
    /\ \A c \in Computers : object[c][c] = "none"

NoticesOK == notices \in [Computers -> Seq(NoticeType)]

\* The type invariant in parts.
LEMMA Parts == TypeOK <=> ProcessesOK /\ NeighborsOK /\ ConnsOK /\ NoticesOK
BY DEF TypeOK, ProcessesOK, NeighborsOK, ConnsOK, NoticesOK, AcceptedType, RepliesType, Conns, Texts

\* read_neighbors(): what is in memory is what the file holds.
LEMMA ReadType ==
    ASSUME NEW nb \in NeighborsType
    PROVE  /\ [nb EXCEPT !.all = nb.file] \in NeighborsType
           /\ [nb EXCEPT !.all = nb.file].all = nb.file
           /\ [nb EXCEPT !.all = nb.file].file = nb.file
           /\ [nb EXCEPT !.all = nb.file].intact = nb.intact
           /\ nb.file \in SUBSET Computers
BY DEF NeighborsType

\* init() reads neighbors.txt and adds the explicit neighbors.
LEMMA StartEffect ==
    ASSUME TypeOK, NEW c \in Computers, Start(c)
    PROVE  LET S    == neighbors[c].file \cup Explicit[c]
               read == [neighbors[c] EXCEPT !.all = neighbors[c].file]
           IN  /\ S \in SUBSET Computers
               /\ object[c] \in [Computers -> ObjectState] /\ object[c][c] = "none"
               /\ AddRemotes(c, S, object[c])
               /\ read \in NeighborsType
               /\ read.file = read.all /\ read.file = neighbors[c].file /\ read.intact = neighbors[c].intact
               /\ neighbors' \in [Computers -> NeighborsType]
               /\ neighbors'[c] \in Added(c, read, Explicit[c])
               /\ \A x \in Computers \ {c} : neighbors'[x] = neighbors[x]
<1> DEFINE read == [neighbors[c] EXCEPT !.all = neighbors[c].file]
<1>1. /\ read \in NeighborsType
      /\ read.all = neighbors[c].file /\ read.file = neighbors[c].file /\ read.intact = neighbors[c].intact
      /\ neighbors[c].file \in SUBSET Computers
  <2>1. neighbors[c] \in NeighborsType
    BY DEF TypeOK
  <2> QED BY <2>1, ReadType
<1>2. Explicit[c] \in SUBSET Computers /\ object[c] \in [Computers -> ObjectState] /\ object[c][c] = "none"
  BY ExplicitAssumption DEF TypeOK
<1>3. /\ AddRemotes(c, read.all \cup Explicit[c], object[c])
      /\ \E nb \in Added(c, read, Explicit[c]) : neighbors' = [neighbors EXCEPT ![c] = nb]
  BY DEF Start
<1> HIDE DEF read
<1>4. PICK nb \in Added(c, read, Explicit[c]) : neighbors' = [neighbors EXCEPT ![c] = nb]
  BY <1>3
<1>5. nb \in NeighborsType
  BY <1>1, <1>2, <1>4, AddedType
<1>6. /\ neighbors' \in [Computers -> NeighborsType]
      /\ neighbors'[c] \in Added(c, read, Explicit[c])
      /\ \A x \in Computers \ {c} : neighbors'[x] = neighbors[x]
  BY <1>4, <1>5 DEF TypeOK
<1> QED BY <1>1, <1>2, <1>3, <1>6 DEF read

\* A process that ends leaves a file in which each name is one that it was told.
Leaves(x, file, S) ==
    /\ file \in SUBSET Computers /\ S \in SUBSET Computers
    /\ LeavesFile(x, file, S)
    /\ neighbors[x].file = neighbors[x].all => neighbors[x].file \subseteq S

\* The file that is left has the right type, and a part of it is not taken for all of it.
LEMMA LeavesEffect ==
    ASSUME TypeOK, NEW x \in Computers, NEW file, NEW S, Leaves(x, file, S)
    PROVE  /\ neighbors' \in [Computers -> NeighborsType]
           /\ neighbors'[x].intact => /\ neighbors[x].intact
                                      /\ neighbors'[x].file = S
           /\ \A y \in Computers \ {x} : neighbors'[y] = neighbors[y]
<1> DEFINE nb == [all |-> {}, file |-> file, intact |-> neighbors[x].intact /\ file = S]
<1>1. neighbors' = [neighbors EXCEPT ![x] = nb]
  BY DEF Leaves, LeavesFile
<1>2. nb \in NeighborsType /\ nb.file = file /\ (nb.intact => neighbors[x].intact /\ file = S)
  BY DEF Leaves, NeighborsType
<1> HIDE DEF nb
<1> QED BY <1>1, <1>2 DEF TypeOK

\* What is left of S is a set of computers.
LEMMA PartLeft ==
    ASSUME NEW x, NEW S \in SUBSET Computers, LeavesPart(x, S),
           neighbors[x].file = neighbors[x].all => neighbors[x].file \subseteq S
    PROVE  \E file : Leaves(x, file, S)
<1>1. PICK file \in {{y \in S : y < z} : z \in S} \cup {S} : LeavesFile(x, file, S)
  BY DEF LeavesPart
<1>2. file \in SUBSET Computers
  BY <1>1
<1> QED BY <1>1, <1>2 DEF Leaves

\* init() is cut: nothing but neighbors.txt changes.
LEMMA StartCutEffect ==
    ASSUME TypeOK, NEW c \in Computers, StartCut(c)
    PROVE  /\ UNCHANGED <<running, smooth, allIps, object, accepted, replies, registered, notices>>
           /\ starts' = starts + 1
           /\ \E file, S : Leaves(c, file, S) /\ neighbors[c].file \subseteq S
<1> DEFINE S == neighbors[c].file \cup Explicit[c]
<1>1. S \in SUBSET Computers
  BY ExplicitAssumption DEF TypeOK, NeighborsType
<1>2. LeavesPart(c, S)
  BY DEF StartCut
<1>3. neighbors[c].file \subseteq S
  OBVIOUS
<1> HIDE DEF S
<1>4. \E file : Leaves(c, file, S)
  BY <1>1, <1>2, <1>3, PartLeft
<1> QED BY <1>3, <1>4 DEF StartCut

\* It keeps the types.
LEMMA StartCutType ==
    ASSUME TypeOK, NEW c \in Computers, StartCut(c), UNCHANGED ringVars
    PROVE  ProcessesOK' /\ NeighborsOK' /\ ConnsOK' /\ NoticesOK'
<1>1. /\ UNCHANGED <<running, smooth, allIps, object, accepted, replies, registered, notices>>
      /\ starts' = starts + 1
  BY StartCutEffect
<1>2. neighbors' \in [Computers -> NeighborsType]
  BY StartCutEffect, LeavesEffect
<1> QED BY <1>1, <1>2, Parts DEF ProcessesOK, NeighborsOK, ConnsOK, NoticesOK, ringVars

\* init(): only the neighbors and the process change.
LEMMA StartType ==
    ASSUME TypeOK, NEW c \in Computers, Start(c), UNCHANGED ringVars
    PROVE  ProcessesOK' /\ NeighborsOK' /\ ConnsOK' /\ NoticesOK'
<1> USE DEF Start, ringVars
<1>1. ProcessesOK'
  BY DEF TypeOK, ProcessesOK
<1>2. NeighborsOK'
  <2> QED BY StartEffect, AddRemotesType DEF NeighborsOK
<1>3. ConnsOK' /\ NoticesOK'
  BY Parts DEF ConnsOK, NoticesOK
<1> QED BY <1>1, <1>2, <1>3

\* The end of a process, in whatever way.
Quits(x) == Stop(x) \/ Crash(x) \/ CrashInSave(x) \/ Vanish(x)

\* What the ways in which a process ends have in common.
LEMMA QuitsEffect ==
    ASSUME TypeOK, NEW x \in Computers, Quits(x)
    PROVE  /\ accepted' \in AcceptedType
           /\ replies' \in RepliesType
           /\ running[x]
           /\ running' = [running EXCEPT ![x] = FALSE]
           /\ registered' = [registered EXCEPT ![x] = FALSE]
           /\ allIps' = [allIps EXCEPT ![x] = {}]
           /\ object' = [object EXCEPT ![x] = [d \in Computers |-> "none"]]
           /\ UNCHANGED <<starts, notices>>
           /\ \A c \in Computers : accepted'[x][c] = <<>> /\ replies'[x][c] = <<>>
           /\ \A d, c \in Computers : d # x /\ c # x => /\ accepted'[d][c] = accepted[d][c]
                                                       /\ replies'[d][c] = replies[d][c]
           /\ \A d \in Computers \ {x} :
                 /\ SameConns(accepted[d][x], accepted'[d][x])
                 /\ \A i \in DOMAIN accepted[d][x] : \A k \in DOMAIN accepted'[d][x][i].in :
                       \/ k \in DOMAIN accepted[d][x][i].in /\ accepted'[d][x][i].in[k] = accepted[d][x][i].in[k]
                       \/ accepted'[d][x][i].in[k] = EOF
                       \/ d < x /\ accepted'[d][x][i].in[k] = Message("DISCONNECT")
           /\ \A c \in Computers \ {x} : \A k \in DOMAIN replies'[c][x] :
                       \/ k \in DOMAIN replies[c][x] /\ replies'[c][x][k] = replies[c][x][k]
                       \/ replies'[c][x][k] \in {EOF, Message("DISCONNECT")}
<1>1. PICK last \in {<<>>, <<Message("DISCONNECT")>>}, fin \in BOOLEAN : Ends(x, last, fin)
  BY DEF Quits, Stop, Crash, CrashInSave, Vanish
<1>2. last \in Seq(MessageType)
  <2>1. Message("DISCONNECT") \in MessageType
    BY WordIsMessage DEF Words
  <2>2. <<>> \in Seq(MessageType) /\ <<Message("DISCONNECT")>> \in Seq(MessageType)
    BY <2>1
  <2> QED BY <1>1, <2>2
<1>3. /\ running[x]
      /\ running' = [running EXCEPT ![x] = FALSE]
      /\ registered' = [registered EXCEPT ![x] = FALSE]
      /\ allIps' = [allIps EXCEPT ![x] = {}]
      /\ object' = [object EXCEPT ![x] = [d \in Computers |-> "none"]]
      /\ UNCHANGED <<starts, notices>>
  BY <1>1, Zenon DEF Ends
<1>4. /\ accepted' \in AcceptedType
      /\ replies' \in RepliesType
      /\ \A c \in Computers : accepted'[x][c] = <<>> /\ replies'[x][c] = <<>>
      /\ \A d, c \in Computers : d # x /\ c # x => /\ accepted'[d][c] = accepted[d][c]
                                                  /\ replies'[d][c] = replies[d][c]
      /\ \A d \in Computers \ {x} :
            /\ SameConns(accepted[d][x], accepted'[d][x])
            /\ \A i \in DOMAIN accepted[d][x] : \A k \in DOMAIN accepted'[d][x][i].in :
                  \/ k \in DOMAIN accepted[d][x][i].in /\ accepted'[d][x][i].in[k] = accepted[d][x][i].in[k]
                  \/ accepted'[d][x][i].in[k] = EOF
                  \/ d < x /\ accepted'[d][x][i].in[k] = Message("DISCONNECT")
      /\ \A c \in Computers \ {x} : \A k \in DOMAIN replies'[c][x] :
                  \/ k \in DOMAIN replies[c][x] /\ replies'[c][x][k] = replies[c][x][k]
                  \/ replies'[c][x][k] \in {EOF, Message("DISCONNECT")}
  BY <1>1, <1>2, EndsEffect
<1> QED BY <1>3, <1>4

\* What the messages that a process may read next add are computers.
LEMMA AdditionsType ==
    ASSUME NEW x \in Computers, NEW S \in Additions(x)
    PROVE  S \in SUBSET Computers
BY ExplicitAssumption DEF Additions

\* What the end of a process does to neighbors.txt.
LEMMA QuitsLeaves ==
    ASSUME TypeOK, NEW x \in Computers, Quits(x)
    PROVE  \E file, S : Leaves(x, file, S)
<1>1. neighbors[x].file \in SUBSET Computers /\ neighbors[x].all \in SUBSET Computers
  BY DEF TypeOK, NeighborsType
<1>2. CASE Stop(x) \/ Crash(x)
  <2>1. LeavesFile(x, neighbors[x].file, neighbors[x].file)
    BY <1>2 DEF Stop, Crash
  <2> QED BY <1>1, <2>1 DEF Leaves
<1>3. CASE Vanish(x)
  <2>1. LeavesPart(x, neighbors[x].all)
    BY <1>3 DEF Vanish
  <2> QED BY <1>1, <2>1, PartLeft
<1>4. CASE CrashInSave(x)
  <2>1. PICK A \in Additions(x) : LeavesPart(x, neighbors[x].all \cup A)
    BY <1>4 DEF CrashInSave
  <2> DEFINE S == neighbors[x].all \cup A
  <2>2. S \in SUBSET Computers
    BY <1>1, <2>1, AdditionsType
  <2>3. neighbors[x].file = neighbors[x].all => neighbors[x].file \subseteq S
    OBVIOUS
  <2>4. LeavesPart(x, S)
    BY <2>1
  <2> HIDE DEF S
  <2> QED BY <2>2, <2>3, <2>4, PartLeft
<1> QED BY <1>2, <1>3, <1>4 DEF Quits

\* The end of a process keeps the types.
LEMMA EndsType ==
    ASSUME TypeOK, NEW x \in Computers, Quits(x), UNCHANGED ringVars
    PROVE  ProcessesOK' /\ NeighborsOK' /\ ConnsOK' /\ NoticesOK'
<1>1. ConnsOK'
  <2>1. /\ accepted' \in AcceptedType
        /\ replies' \in RepliesType
        /\ \A c \in Computers : accepted'[x][c] = <<>>
        /\ \A d, c \in Computers : d # x /\ c # x => accepted'[d][c] = accepted[d][c]
    BY QuitsEffect
  <2> QED BY <2>1 DEF ConnsOK, TypeOK
<1>2. /\ running' = [running EXCEPT ![x] = FALSE]
      /\ registered' = [registered EXCEPT ![x] = FALSE]
      /\ allIps' = [allIps EXCEPT ![x] = {}]
      /\ object' = [object EXCEPT ![x] = [d \in Computers |-> "none"]]
      /\ UNCHANGED <<starts, notices>>
  BY QuitsEffect
<1>3. smooth' \in BOOLEAN
  BY DEF Quits, Stop, Crash, CrashInSave, Vanish, TypeOK
<1>4. ProcessesOK'
  BY <1>2, <1>3 DEF TypeOK, ProcessesOK, ringVars
<1>5. NeighborsOK'
  <2>1. neighbors' \in [Computers -> NeighborsType]
    BY QuitsLeaves, LeavesEffect
  <2> QED BY <1>2, <2>1 DEF TypeOK, NeighborsOK, ObjectState
<1>6. NoticesOK'
  BY <1>2 DEF TypeOK, NoticesOK
<1> QED BY <1>1, <1>4, <1>5, <1>6

\* The connections of the two sides of a link.
LEMMA DetectType ==
    ASSUME TypeOK, NEW c \in Computers, NEW d \in Computers, Detect(c, d), UNCHANGED ringVars
    PROVE  ProcessesOK' /\ NeighborsOK' /\ ConnsOK' /\ NoticesOK'
<1>1. ProcessesOK' /\ NeighborsOK' /\ NoticesOK'
  <2>1. UNCHANGED <<running, starts, smooth, neighbors, allIps, object, registered, notices>>
    BY DEF Detect
  <2> QED BY <2>1, Parts DEF ProcessesOK, NeighborsOK, NoticesOK, ringVars
<1>2. <<EOF>> \in Seq(MessageType)
  <2>1. EOF \in MessageType
    BY WordIsMessage DEF Words, EOF
  <2> QED BY <2>1
<1>3. ConnsOK'
  <2>1. CASE UNCHANGED replies /\ \E i \in DOMAIN accepted[d][c] : accepted' = [accepted EXCEPT ![d][c][i].in = <<EOF>>]
    <3>1. PICK i \in DOMAIN accepted[d][c] : accepted' = [accepted EXCEPT ![d][c][i].in = <<EOF>>]
      BY <2>1
    <3>2. accepted' \in AcceptedType /\ \A x \in Computers : accepted'[x][x] = <<>>
      BY <3>1, <1>2, InEffect
    <3> QED BY <2>1, <3>2, ConnsHold DEF ConnsOK
  <2>2. CASE accepted' = accepted /\ replies' = [replies EXCEPT ![c][d] = <<EOF>>]
    <3>1. <<EOF>> \in Texts
      BY <1>2 DEF Texts
    <3> QED BY <2>2, <3>1, ConnsHold DEF ConnsOK, RepliesType
  <2> QED BY <2>1, <2>2 DEF Detect
<1> QED BY <1>1, <1>3

\* A new connection keeps the types.
LEMMA ConnectType ==
    ASSUME TypeOK, NEW c \in Computers, NEW d \in Computers, Connect(c, d), UNCHANGED ringVars
    PROVE  ProcessesOK' /\ NeighborsOK' /\ ConnsOK' /\ NoticesOK'
<1>1. UNCHANGED <<running, starts, smooth, neighbors, allIps, registered>>
  BY DEF Connect
<1>2. ProcessesOK'
  BY <1>1 DEF TypeOK, ProcessesOK, ringVars
<1>3. ConnsOK' /\ c # d
  BY ConnectEffect
<1>4. NeighborsOK'
  <2>1. object' = [object EXCEPT ![c][d] = "connected"]
    BY DEF Connect
  <2> QED BY <1>1, <1>3, <2>1 DEF NeighborsOK, TypeOK, ObjectState
<1>5. NoticesOK'
  <2> DEFINE ms == IF d < c THEN <<Status(ConnectionTo(d))>> ELSE <<>>
  <2>1. ms \in Seq(NoticeType)
    BY NoticeTypes
  <2>2. Notify(c, ms)
    BY DEF Connect
  <2> HIDE DEF ms
  <2> QED BY <2>1, <2>2, NotifyType DEF NoticesOK
<1> QED BY <1>2, <1>3, <1>4, <1>5

\* CONNECT keeps the types.
LEMMA ProcessConnectType ==
    ASSUME TypeOK, NEW d \in Computers, NEW c \in Computers, NEW i, ProcessConnect(d, c, i), UNCHANGED ringVars
    PROVE  ProcessesOK' /\ NeighborsOK' /\ ConnsOK' /\ NoticesOK'
<1>1. UNCHANGED <<running, starts, smooth, registered>>
  BY DEF ProcessConnect
<1>2. ProcessesOK'
  BY <1>1 DEF TypeOK, ProcessesOK, ringVars
<1>3. ConnsOK'
  BY ProcessConnectEffect
<1>4. NeighborsOK'
  <2>1. CASE UNCHANGED <<neighbors, allIps, object>>
    BY <2>1 DEF NeighborsOK, TypeOK
  <2>2. CASE AddNeighbors(d, Explicit[c] \cup {c}, object[d])
    <3>1. Explicit[c] \cup {c} \in SUBSET Computers /\ object[d] \in [Computers -> ObjectState] /\ object[d][d] = "none"
      BY ExplicitAssumption DEF TypeOK
    <3> QED BY <2>2, <3>1, AddNeighborsType, AddRemotesType DEF NeighborsOK
  <2> QED BY <2>1, <2>2 DEF ProcessConnect
<1>5. NoticesOK'
  <2>1. <<Status(ConnectionFrom(c))>> \in Seq(NoticeType)
    BY NoticeTypes
  <2>2. Notify(d, <<Status(ConnectionFrom(c))>>)
    BY DEF ProcessConnect
  <2> QED BY <2>1, <2>2, NotifyType DEF NoticesOK
<1> QED BY <1>2, <1>3, <1>4, <1>5

\* GOSSIP: one message is read, and RECEIVED answered.
LEMMA ProcessGossipEffect ==
    ASSUME TypeOK, NEW d \in Computers, NEW c \in Computers, NEW i, ProcessGossip(d, c, i)
    PROVE  LET a == accepted[d][c][i]
           IN  /\ ConnsOK'
               /\ OnlyAt(accepted, accepted', d, c)
               /\ DOMAIN accepted'[d][c] = DOMAIN accepted[d][c]
               /\ Len(accepted'[d][c]) = Len(accepted[d][c])
               /\ \A j \in DOMAIN accepted[d][c] : j # i => accepted'[d][c][j] = accepted[d][c][j]
               /\ accepted'[d][c][i].in = Tail(a.in)
               /\ accepted'[d][c][i].named = a.named
               /\ accepted'[d][c][i].remote = a.remote
               /\ accepted'[d][c][i].open = a.open
               /\ accepted'[d][c][i].first = a.first
               /\ OnlyAt(replies, replies', c, d)
               /\ replies'[c][d] = IF a.open THEN Append(replies[c][d], Message("RECEIVED")) ELSE replies[c][d]
<1>1. /\ Reads(d, c, i, "GOSSIP")
      /\ accepted' = [accepted EXCEPT ![d][c][i].in = Tail(accepted[d][c][i].in)]
      /\ Answer(d, c, i, Message("RECEIVED"))
  BY DEF ProcessGossip
<1>2. i \in DOMAIN accepted[d][c] /\ Tail(accepted[d][c][i].in) \in Seq(MessageType)
  BY <1>1, ReadsFacts
<1>3. /\ accepted' \in AcceptedType
      /\ \A x \in Computers : accepted'[x][x] = <<>>
      /\ OnlyAt(accepted, accepted', d, c)
      /\ DOMAIN accepted'[d][c] = DOMAIN accepted[d][c]
      /\ Len(accepted'[d][c]) = Len(accepted[d][c])
      /\ \A j \in DOMAIN accepted[d][c] : j # i => accepted'[d][c][j] = accepted[d][c][j]
      /\ accepted'[d][c][i].in = Tail(accepted[d][c][i].in)
      /\ accepted'[d][c][i].named = accepted[d][c][i].named
      /\ accepted'[d][c][i].remote = accepted[d][c][i].remote
      /\ accepted'[d][c][i].open = accepted[d][c][i].open
      /\ accepted'[d][c][i].first = accepted[d][c][i].first
  BY <1>1, <1>2, InEffect
<1>4. Message("RECEIVED") \in MessageType
  BY WordIsMessage DEF Words
<1>5. /\ replies' \in RepliesType
      /\ OnlyAt(replies, replies', c, d)
      /\ replies'[c][d] = IF accepted[d][c][i].open THEN Append(replies[c][d], Message("RECEIVED")) ELSE replies[c][d]
  BY <1>1, <1>4, AnswerType
<1> QED BY <1>3, <1>5 DEF ConnsOK

\* GOSSIP keeps the types.
LEMMA ProcessGossipType ==
    ASSUME TypeOK, NEW d \in Computers, NEW c \in Computers, NEW i, ProcessGossip(d, c, i), UNCHANGED ringVars
    PROVE  ProcessesOK' /\ NeighborsOK' /\ ConnsOK' /\ NoticesOK'
<1>1. UNCHANGED <<running, starts, smooth, registered, notices>>
  BY DEF ProcessGossip
<1>2. ProcessesOK' /\ NoticesOK'
  BY <1>1 DEF TypeOK, ProcessesOK, NoticesOK, ringVars
<1>3. ConnsOK'
  BY ProcessGossipEffect
<1>4. NeighborsOK'
  <2>1. AddNeighbors(d, {c}, object[d])
    BY DEF ProcessGossip
  <2>2. {c} \in SUBSET Computers /\ object[d] \in [Computers -> ObjectState] /\ object[d][d] = "none"
    BY DEF TypeOK
  <2> QED BY <2>1, <2>2, AddNeighborsType, AddRemotesType DEF NeighborsOK
<1> QED BY <1>2, <1>3, <1>4

\* A connection ends, on the side that accepted it.
LEMMA ServiceEndType ==
    ASSUME TypeOK, NEW d \in Computers, NEW c \in Computers, NEW i,
           ProcessDisconnect(d, c, i) \/ ProcessHup(d, c, i), UNCHANGED ringVars
    PROVE  ProcessesOK' /\ NeighborsOK' /\ ConnsOK' /\ NoticesOK'
<1>1. UNCHANGED <<running, starts, smooth, neighbors, allIps, object, replies, registered>>
  BY DEF ProcessDisconnect, ProcessHup
<1>2. ProcessesOK' /\ NeighborsOK'
  BY <1>1, Parts DEF ProcessesOK, NeighborsOK, ringVars
<1>3. ConnsOK'
  <2>1. PICK w : Reads(d, c, i, w)
    BY DEF ProcessDisconnect, ProcessHup
  <2>2. i \in DOMAIN accepted[d][c] /\ Tail(accepted[d][c][i].in) \in Seq(MessageType)
    BY <2>1, ReadsFacts
  <2>3. \/ accepted' = [accepted EXCEPT ![d][c] = Without(@, i)]
        \/ accepted' = [accepted EXCEPT ![d][c][i].in = Tail(accepted[d][c][i].in)]
    BY DEF ProcessDisconnect, ProcessHup
  <2>4. accepted' \in AcceptedType /\ \A x \in Computers : accepted'[x][x] = <<>>
    BY <2>2, <2>3, InEffect, WithoutEffect
  <2> QED BY <1>1, <2>4, ConnsHold DEF ConnsOK
<1>4. NoticesOK'
  <2>1. PICK ms \in Seq(NoticeType) : Notify(d, ms)
    <3>1. \A w \in {"HANGUP", "DISCONNECTED"} : /\ <<Gone(w, c)>> \o <<Status(ConnectionFrom(c))>> \in Seq(NoticeType)
                                               /\ <<>> \o <<Status(ConnectionFrom(c))>> \in Seq(NoticeType)
      BY NoticeTypes
    <3>2. CASE ProcessDisconnect(d, c, i)
      BY <3>1, <3>2 DEF ProcessDisconnect
    <3>3. CASE ProcessHup(d, c, i)
      BY <3>1, <3>3 DEF ProcessHup
    <3> QED BY <3>2, <3>3
  <2> QED BY <2>1, NotifyType DEF NoticesOK
<1> QED BY <1>2, <1>3, <1>4

\* The first message that c did not read from d was read.
LEMMA TailEffect ==
    ASSUME TypeOK, NEW c \in Computers, NEW d \in Computers, NEW w, Hears(c, d, w),
           NEW g, g = [replies EXCEPT ![c][d] = Tail(replies[c][d])]
    PROVE  g \in RepliesType /\ OnlyAt(replies, g, c, d) /\ g[c][d] = Tail(replies[c][d])
<1>1. Tail(replies[c][d]) \in Texts
  BY HearsFacts DEF Texts
<1> QED BY <1>1, TypeFacts DEF RepliesType, OnlyAt

\* ACCEPT keeps the types.
LEMMA ProcessAcceptType ==
    ASSUME TypeOK, NEW c \in Computers, NEW d \in Computers, ProcessAccept(c, d), UNCHANGED ringVars
    PROVE  ProcessesOK' /\ NeighborsOK' /\ ConnsOK' /\ NoticesOK'
<1>1. UNCHANGED <<running, starts, smooth, accepted, registered, notices>>
  BY DEF ProcessAccept
<1>2. ProcessesOK' /\ NoticesOK'
  BY <1>1 DEF TypeOK, ProcessesOK, NoticesOK, ringVars
<1>3. Hears(c, d, "ACCEPT") /\ c # d
  BY HearsFacts DEF ProcessAccept
<1>4. replies' \in RepliesType
  BY <1>3, TailEffect DEF ProcessAccept
<1>5. ConnsOK'
  BY <1>1, <1>4, ConnsHold DEF ConnsOK
<1>6. NeighborsOK'
  <2> DEFINE objects == [object[c] EXCEPT ![d] = "accepted"]
  <2>1. AddNeighbors(c, Explicit[d], objects)
    BY DEF ProcessAccept
  <2>2. Explicit[d] \in SUBSET Computers /\ objects \in [Computers -> ObjectState] /\ objects[c] = "none"
    BY <1>3, ExplicitAssumption DEF TypeOK, ObjectState
  <2> HIDE DEF objects
  <2> QED BY <2>1, <2>2, AddNeighborsType, AddRemotesType DEF NeighborsOK
<1> QED BY <1>2, <1>5, <1>6

\* The four ways in which c ends its connection to d.
Hangs(c, d) == ProcessRefuse(c, d) \/ ProcessRemoteDisconnect(c, d) \/ ProcessRemoteHup(c, d) \/ ProcessReceived(c, d)

\* They close the connection; only RECEIVED removes it.
LEMMA HangsEffect ==
    ASSUME TypeOK, NEW c \in Computers, NEW d \in Computers, Hangs(c, d)
    PROVE  /\ c # d
           /\ UNCHANGED <<running, starts, smooth, neighbors, allIps, registered>>
           /\ accepted' = [accepted EXCEPT ![d][c] = Closed(@)]
           /\ replies' = [replies EXCEPT ![c][d] = <<>>]
           /\ object' \in [Computers -> [Computers -> ObjectState]]
           /\ OnlyAt(object, object', c, d)
           /\ object'[c][d] \in {"waiting", "idle", "none"}
           /\ object'[c][d] = "none" => replies[c][d][1].cmd = "RECEIVED"
<1>1. PICK w : Hears(c, d, w)
  BY DEF Hangs, ProcessRefuse, ProcessRemoteDisconnect, ProcessRemoteHup, ProcessReceived
<1>2. c # d
  BY <1>1, HearsFacts
<1>3. /\ UNCHANGED <<running, starts, smooth, neighbors, allIps, registered>>
      /\ accepted' = [accepted EXCEPT ![d][c] = Closed(@)]
      /\ replies' = [replies EXCEPT ![c][d] = <<>>]
  BY DEF Hangs, ProcessRefuse, ProcessRemoteDisconnect, ProcessRemoteHup, ProcessReceived, Disconnected
<1>4. ASSUME NEW next \in {"waiting", "idle", "none"}, object' = [object EXCEPT ![c][d] = next]
      PROVE  /\ object' \in [Computers -> [Computers -> ObjectState]]
             /\ OnlyAt(object, object', c, d)
             /\ object'[c][d] = next
  BY <1>4 DEF TypeOK, ObjectState, OnlyAt
<1>5. CASE ProcessRefuse(c, d) \/ ProcessRemoteDisconnect(c, d) \/ ProcessRemoteHup(c, d)
  <2>1. PICK next \in {"waiting", "idle"} : object' = [object EXCEPT ![c][d] = next]
    BY <1>5 DEF ProcessRefuse, ProcessRemoteDisconnect, ProcessRemoteHup, Disconnected, AfterHup
  <2> QED BY <1>2, <1>3, <1>4, <2>1
<1>6. CASE ProcessReceived(c, d)
  <2>1. Hears(c, d, "RECEIVED") /\ object' = [object EXCEPT ![c][d] = "none"]
    BY <1>6 DEF ProcessReceived
  <2>2. replies[c][d][1].cmd = "RECEIVED"
    BY <2>1, HearsFacts
  <2> QED BY <1>2, <1>3, <1>4, <2>1, <2>2
<1> QED BY <1>5, <1>6 DEF Hangs

\* The end of a permanent connection keeps the types.
LEMMA HangsType ==
    ASSUME TypeOK, NEW c \in Computers, NEW d \in Computers, Hangs(c, d), UNCHANGED ringVars
    PROVE  ProcessesOK' /\ NeighborsOK' /\ ConnsOK' /\ NoticesOK'
<1>1. ProcessesOK'
  BY HangsEffect DEF TypeOK, ProcessesOK, ringVars
<1>2. ConnsOK'
  BY HangsEffect, CloseEffect
<1>3. NeighborsOK'
  <2>1. /\ c # d
        /\ UNCHANGED <<neighbors, allIps>>
        /\ object' \in [Computers -> [Computers -> ObjectState]]
        /\ OnlyAt(object, object', c, d)
    BY HangsEffect
  <2>2. \A x \in Computers : object'[x][x] = "none"
    BY <2>1 DEF TypeOK, OnlyAt
  <2> QED BY <2>1, <2>2 DEF TypeOK, NeighborsOK
<1>4. NoticesOK'
  <2>1. CASE UNCHANGED notices
    BY <2>1 DEF TypeOK, NoticesOK
  <2>2. CASE Notify(c, <<Gone("DISCONNECTED", d), Status(ConnectionTo(d))>>)
    <3>1. <<Gone("DISCONNECTED", d), Status(ConnectionTo(d))>> \in Seq(NoticeType)
      BY NoticeTypes
    <3> QED BY <2>2, <3>1, NotifyType DEF NoticesOK
  <2> QED
    BY <2>1, <2>2 DEF Hangs, ProcessRefuse, ProcessRemoteDisconnect, ProcessRemoteHup, ProcessReceived
<1> QED BY <1>1, <1>2, <1>3, <1>4

\* The two places where a broadcast is passed on: what is read is gone, and the
\* rest is as broadcast_message() says.
LEMMA ForwardUpFacts ==
    ASSUME TypeOK, NEW d \in Computers, NEW c \in Computers, NEW i, ForwardUp(d, c, i)
    PROVE  LET a     == accepted[d][c][i]
               m     == a.in[1]
               conns == SetIn(accepted, d, c, i, Tail(a.in))
           IN  /\ i \in DOMAIN accepted[d][c]
               /\ c # d
               /\ m \in MessageType /\ m.cmd = "LOCKREADY"
               /\ m.who \in Computers /\ m.informed \in SUBSET Computers
               /\ Broadcast(d, m.who, m.informed, conns, replies)
               /\ Notify(d, <<Gone("LOCKREADY", m.who)>>)
               /\ conns \in AcceptedType
               /\ OnlyAt(accepted, conns, d, c)
               /\ DOMAIN conns[d][c] = DOMAIN accepted[d][c]
               /\ Len(conns[d][c]) = Len(accepted[d][c])
               /\ \A j \in DOMAIN accepted[d][c] : j # i => conns[d][c][j] = accepted[d][c][j]
               /\ conns[d][c][i].in = Tail(a.in)
               /\ conns[d][c][i].named = a.named
               /\ conns[d][c][i].remote = a.remote
               /\ conns[d][c][i].open = a.open
               /\ conns[d][c][i].first = a.first
<1> DEFINE a     == accepted[d][c][i]
           m     == a.in[1]
           q     == Tail(a.in)
           conns == SetIn(accepted, d, c, i, q)
<1>1. Reads(d, c, i, "LOCKREADY")
  BY DEF ForwardUp
<1>2. /\ i \in DOMAIN accepted[d][c] /\ c # d /\ Head(a.in) = m /\ m \in MessageType /\ m.cmd = "LOCKREADY"
      /\ q \in Seq(MessageType)
  BY <1>1, ReadsFacts
<1>3. m.who \in Computers /\ m.informed \in SUBSET Computers
  BY <1>2, ReadyMessage
<1>4. /\ Broadcast(d, Head(a.in).who, Head(a.in).informed, conns, replies)
      /\ Notify(d, <<Gone("LOCKREADY", Head(a.in).who)>>)
  BY Zenon DEF ForwardUp, SetIn
<1>5. /\ Broadcast(d, m.who, m.informed, conns, replies)
      /\ Notify(d, <<Gone("LOCKREADY", m.who)>>)
  BY <1>2, <1>4, Zenon
<1>6. accepted \in AcceptedType
  BY TypeFacts
<1> HIDE DEF q, conns
<1>7. conns = SetIn(accepted, d, c, i, q)
  BY DEF conns
<1>8. /\ conns \in AcceptedType
      /\ OnlyAt(accepted, conns, d, c)
      /\ DOMAIN conns[d][c] = DOMAIN accepted[d][c]
      /\ Len(conns[d][c]) = Len(accepted[d][c])
      /\ \A j \in DOMAIN accepted[d][c] : j # i => conns[d][c][j] = accepted[d][c][j]
      /\ conns[d][c][i].in = q
      /\ conns[d][c][i].named = a.named
      /\ conns[d][c][i].remote = a.remote
      /\ conns[d][c][i].open = a.open
      /\ conns[d][c][i].first = a.first
  BY <1>2, <1>6, <1>7, InEntry
<1> QED BY <1>2, <1>3, <1>5, <1>8, Zenon DEF conns, q

\* broadcast_message() keeps the types of the connections.
LEMMA BroadcastType ==
    ASSUME TypeOK, NEW x \in Computers, NEW who \in Computers, NEW informed \in SUBSET Computers,
           NEW conns \in AcceptedType, NEW answers \in RepliesType, \A c \in Computers : conns[c][c] = <<>>,
           Broadcast(x, who, informed, conns, answers)
    PROVE  ConnsOK'
<1>1. PICK to \in SUBSET (Computers \ (informed \cup {x})) :
                BroadcastTo(x, who, informed, conns, answers, to)
  BY BroadcastEffect
<1>2. \A c \in Computers : accepted'[c][c] = <<>>
  BY <1>1 DEF BroadcastTo
<1>3. accepted' \in AcceptedType /\ replies' \in RepliesType
  BY BroadcastEffect
<1> QED BY <1>2, <1>3 DEF ConnsOK

\* Forwarding a LOCKREADY from a connection of c keeps the types.
LEMMA ForwardUpType ==
    ASSUME TypeOK, NEW d \in Computers, NEW c \in Computers, NEW i, ForwardUp(d, c, i)
    PROVE  ProcessesOK' /\ NeighborsOK' /\ ConnsOK' /\ NoticesOK'
<1>1. ProcessesOK' /\ NeighborsOK'
  <2>1. UNCHANGED <<running, starts, smooth, neighbors, allIps, object, registered, ringVars>>
    BY DEF ForwardUp
  <2> QED BY <2>1, Parts DEF ProcessesOK, NeighborsOK, ringVars
<1> DEFINE m     == accepted[d][c][i].in[1]
           conns == SetIn(accepted, d, c, i, Tail(accepted[d][c][i].in))
<1>2. /\ m.who \in Computers /\ m.informed \in SUBSET Computers /\ c # d
      /\ Broadcast(d, m.who, m.informed, conns, replies)
      /\ Notify(d, <<Gone("LOCKREADY", m.who)>>)
      /\ conns \in AcceptedType
      /\ OnlyAt(accepted, conns, d, c)
  BY ForwardUpFacts, Zenon
<1> HIDE DEF m, conns
<1>3. \A x \in Computers : conns[x][x] = <<>>
  BY <1>2 DEF OnlyAt, TypeOK
<1>4. ConnsOK'
  BY <1>2, <1>3, TypeFacts, BroadcastType
<1>5. NoticesOK'
  <2>1. <<Gone("LOCKREADY", m.who)>> \in Seq(NoticeType)
    BY <1>2, NoticeTypes
  <2> QED BY <1>2, <2>1, NotifyType DEF NoticesOK
<1> QED BY <1>1, <1>4, <1>5

\* The messages that c has not read, but for the first one from d.
Rest(c, d) == [replies EXCEPT ![c][d] = Tail(replies[c][d])]

\* What is read from the permanent connection, and what happens to it.
LEMMA ForwardDownFacts ==
    ASSUME TypeOK, NEW c \in Computers, NEW d \in Computers, ForwardDown(c, d)
    PROVE  LET m == replies[c][d][1]
           IN  /\ c # d
               /\ m \in MessageType /\ m.cmd = "LOCKREADY"
               /\ m.who \in Computers /\ m.informed \in SUBSET Computers
               /\ Rest(c, d) \in RepliesType
               /\ OnlyAt(replies, Rest(c, d), c, d)
               /\ Rest(c, d)[c][d] = Tail(replies[c][d])
               /\ d < c => /\ Broadcast(c, m.who, m.informed, accepted, Rest(c, d))
                           /\ Notify(c, <<Gone("LOCKREADY", m.who)>>)
               /\ ~(d < c) => /\ replies' = Rest(c, d)
                              /\ UNCHANGED <<accepted, notices>>
<1> DEFINE m == replies[c][d][1]
<1>1. Hears(c, d, "LOCKREADY")
  BY DEF ForwardDown
<1>2. c # d /\ Head(replies[c][d]) = m /\ m \in MessageType /\ m.cmd = "LOCKREADY"
  BY <1>1, HearsFacts
<1>3. m.who \in Computers /\ m.informed \in SUBSET Computers
  BY <1>2, ReadyMessage
<1>4. /\ Rest(c, d) \in RepliesType
      /\ OnlyAt(replies, Rest(c, d), c, d)
      /\ Rest(c, d)[c][d] = Tail(replies[c][d])
  BY <1>1, TailEffect DEF Rest
<1>5. /\ d < c => /\ Broadcast(c, Head(replies[c][d]).who, Head(replies[c][d]).informed, accepted, Rest(c, d))
                  /\ Notify(c, <<Gone("LOCKREADY", Head(replies[c][d]).who)>>)
      /\ ~(d < c) => /\ replies' = Rest(c, d)
                     /\ UNCHANGED <<accepted, notices>>
  BY Zenon DEF ForwardDown, Rest
<1> QED BY <1>2, <1>3, <1>4, <1>5, Zenon

\* Forwarding a LOCKREADY from our own connection keeps the types.
LEMMA ForwardDownType ==
    ASSUME TypeOK, NEW c \in Computers, NEW d \in Computers, ForwardDown(c, d)
    PROVE  ProcessesOK' /\ NeighborsOK' /\ ConnsOK' /\ NoticesOK'
<1>1. ProcessesOK' /\ NeighborsOK'
  <2>1. UNCHANGED <<running, starts, smooth, neighbors, allIps, object, registered, ringVars>>
    BY DEF ForwardDown
  <2> QED BY <2>1, Parts DEF ProcessesOK, NeighborsOK, ringVars
<1> DEFINE m == replies[c][d][1]
<1>2. CASE d < c
  <2>1. /\ m.who \in Computers /\ m.informed \in SUBSET Computers
        /\ Rest(c, d) \in RepliesType
        /\ Broadcast(c, m.who, m.informed, accepted, Rest(c, d))
        /\ Notify(c, <<Gone("LOCKREADY", m.who)>>)
    BY <1>2, ForwardDownFacts, Zenon
  <2> HIDE DEF m
  <2>2. accepted \in AcceptedType /\ \A x \in Computers : accepted[x][x] = <<>>
    BY ConnsHold DEF ConnsOK
  <2>3. ConnsOK'
    BY <2>1, <2>2, BroadcastType
  <2>4. <<Gone("LOCKREADY", m.who)>> \in Seq(NoticeType)
    BY <2>1, NoticeTypes
  <2> QED BY <1>1, <2>1, <2>3, <2>4, NotifyType DEF NoticesOK
<1>3. CASE ~(d < c)
  <2>1. replies' \in RepliesType /\ UNCHANGED <<accepted, notices>>
    BY <1>3, ForwardDownFacts
  <2> QED BY <1>1, <2>1, Parts DEF ConnsOK, NoticesOK
<1> QED BY <1>2, <1>3

\* send_lockready(), with the notices that c did not process before it.
LEMMA SendLockReadyType ==
    ASSUME TypeOK, NEW c \in Computers, NEW rest \in Seq(NoticeType), SendLockReady(c, rest)
    PROVE  ConnsOK' /\ NoticesOK'
<1> DEFINE S == Seq(NoticeType)
<1>1. notices \in [Computers -> S] /\ rest \in S /\ Append(rest, Gone("LOCKREADY", c)) \in S
  BY NoticeTypes, AppendProperties DEF TypeOK
<1>2. accepted \in AcceptedType /\ replies \in RepliesType /\ \A x \in Computers : accepted[x][x] = <<>>
  BY ConnsHold DEF ConnsOK
<1> HIDE DEF S
<1>3. CASE registered'[c]
  <2>1. notices' \in [Computers -> S]
    BY <1>1, <1>3 DEF SendLockReady
  <2>2. Broadcast(c, c, {}, accepted, replies)
    BY <1>3 DEF SendLockReady
  <2>3. ConnsOK'
    BY <1>2, <2>2, BroadcastType
  <2> QED BY <2>1, <2>3 DEF NoticesOK, S
<1>4. CASE ~registered'[c]
  <2>1. notices' \in [Computers -> S] /\ UNCHANGED <<accepted, replies>>
    BY <1>1, <1>4 DEF SendLockReady
  <2> QED BY <1>2, <2>1 DEF NoticesOK, ConnsOK, S
<1> QED BY <1>3, <1>4

\* A snaplock has a message to process.
LEMMA GetsFacts ==
    ASSUME TypeOK, NEW c \in Computers, NEW cmds, Gets(c, cmds)
    PROVE  /\ lockd[c]
           /\ notices[c] \in Seq(NoticeType)
           /\ 1 \in DOMAIN notices[c]
           /\ Head(notices[c]) = notices[c][1]
           /\ notices[c][1] \in NoticeType
           /\ notices[c][1].cmd \in cmds
           /\ Tail(notices[c]) \in Seq(NoticeType)
           /\ \A k \in DOMAIN Tail(notices[c]) : k + 1 \in DOMAIN notices[c] /\ Tail(notices[c])[k] = notices[c][k + 1]
           /\ \A k \in DOMAIN notices[c] : k # 1 => k - 1 \in DOMAIN Tail(notices[c]) /\ Tail(notices[c])[k - 1] = notices[c][k]
<1> DEFINE q == notices[c]
<1>1. lockd[c] /\ q # <<>> /\ Head(q).cmd \in cmds
  BY DEF Gets
<1>2. q \in Seq(NoticeType)
  BY TypeFacts
<1> HIDE DEF q
<1>3. Head(q) = q[1] /\ q[1] \in NoticeType /\ 1 \in DOMAIN q
  BY <1>1, <1>2
<1>4. Tail(q) \in Seq(NoticeType) /\ \A k \in DOMAIN Tail(q) : k + 1 \in DOMAIN q /\ Tail(q)[k] = q[k + 1]
  BY <1>1, <1>2
<1>5. \A k \in DOMAIN q : k # 1 => k - 1 \in DOMAIN Tail(q) /\ Tail(q)[k - 1] = q[k]
  BY <1>1, <1>2
<1> QED BY <1>1, <1>2, <1>3, <1>4, <1>5 DEF q

\* The messages that snaplock processes keep the types.
LEMMA LockStepType ==
    ASSUME TypeOK, NEW c \in Computers, LockStep(c)
    PROVE  ProcessesOK' /\ NeighborsOK' /\ ConnsOK' /\ NoticesOK'
<1>1. PICK cmds : Gets(c, cmds)
  BY Zenon DEF LockStep, lockready, lockgone, interpret_status
<1>2. Tail(notices[c]) \in Seq(NoticeType)
  BY <1>1, GetsFacts
<1>3. ASSUME notices' = [notices EXCEPT ![c] = Tail(notices[c])]
      PROVE  NoticesOK'
  BY <1>2, <1>3 DEF NoticesOK, TypeOK
<1>4. CASE lockready(c)
  <2>1. Head(notices[c]).who \in Computers
    <3>1. Gets(c, {"LOCKREADY"})
      BY <1>4 DEF lockready
    <3> QED BY <3>1, GetsFacts, NoticeWho
  <2>2. /\ UNCHANGED <<registered, running, starts, smooth, neighbors, allIps, object, lockd, lockStarts>>
        /\ computers' = [computers EXCEPT ![c] = computers[c] \cup {Head(notices[c]).who}]
    BY <1>4 DEF lockready
  <2>3. ProcessesOK' /\ NeighborsOK'
    BY <2>1, <2>2, Parts DEF ProcessesOK, NeighborsOK
  <2>4. CASE SendLockReady(c, Tail(notices[c]))
    BY <1>2, <2>3, <2>4, SendLockReadyType
  <2>5. CASE notices' = [notices EXCEPT ![c] = Tail(notices[c])] /\ UNCHANGED <<accepted, replies>>
    BY <1>3, <2>3, <2>5, ConnsHold DEF ConnsOK
  <2> QED BY <1>4, <2>4, <2>5 DEF lockready
<1>5. CASE lockgone(c)
  <2>1. /\ UNCHANGED <<linkVars, registered, lockd, lockStarts>>
        /\ computers' = [computers EXCEPT ![c] = computers[c] \ ({Head(notices[c]).who} \ {c})]
        /\ notices' = [notices EXCEPT ![c] = Tail(notices[c])]
    BY <1>5 DEF lockgone
  <2>2. ProcessesOK' /\ NeighborsOK' /\ ConnsOK'
    BY <2>1, Parts DEF ProcessesOK, NeighborsOK, ConnsOK, linkVars
  <2> QED BY <1>3, <2>1, <2>2
<1>6. CASE interpret_status(c)
  <2>1. UNCHANGED <<registered, running, starts, smooth, neighbors, allIps, object, ringVars>>
    BY <1>6, Zenon DEF interpret_status
  <2>2. ProcessesOK' /\ NeighborsOK'
    BY <2>1, Parts DEF ProcessesOK, NeighborsOK, ringVars
  <2>3. CASE SendLockReady(c, Tail(notices[c]))
    BY <1>2, <2>2, <2>3, SendLockReadyType
  <2>4. CASE notices' = [notices EXCEPT ![c] = Tail(notices[c])] /\ UNCHANGED <<accepted, replies>>
    BY <1>3, <2>2, <2>4, ConnsHold DEF ConnsOK
  <2> QED BY <1>6, <2>3, <2>4, Zenon DEF interpret_status
<1> QED BY <1>4, <1>5, <1>6 DEF LockStep

\* The start and the end of a snaplock keep the types.
LEMMA RegisterType ==
    ASSUME TypeOK, NEW c \in Computers, Register(c) \/ LockStop(c)
    PROVE  ProcessesOK' /\ NeighborsOK' /\ ConnsOK' /\ NoticesOK'
<1>1. CASE Register(c)
  <2>1. NeighborsOK'
    <3>1. UNCHANGED <<neighbors, allIps, object>>
      BY <1>1 DEF Register
    <3> QED BY <3>1, Parts DEF NeighborsOK
  <2>2. ProcessesOK'
    <3>1. UNCHANGED <<running, starts, smooth, computers>>
      BY <1>1 DEF Register
    <3>2. lockd' \in [Computers -> BOOLEAN] /\ registered' \in [Computers -> BOOLEAN]
      BY <1>1 DEF Register, TypeOK
    <3>3. lockStarts' \in [Computers -> Nat]
      BY <1>1 DEF Register, TypeOK
    <3> QED BY <3>1, <3>2, <3>3 DEF ProcessesOK, TypeOK
  <2>3. SendLockReady(c, notices[c]) /\ notices[c] \in Seq(NoticeType)
    BY <1>1, TypeFacts DEF Register
  <2> QED BY <2>1, <2>2, <2>3, SendLockReadyType
<1>2. CASE LockStop(c)
  <2>1. NeighborsOK' /\ ConnsOK'
    BY <1>2, Parts DEF LockStop, linkVars, NeighborsOK, ConnsOK
  <2>2. ProcessesOK'
    <3>1. UNCHANGED <<running, starts, smooth, lockStarts>>
      BY <1>2 DEF LockStop, linkVars
    <3>2. lockd' \in [Computers -> BOOLEAN] /\ registered' \in [Computers -> BOOLEAN]
      BY <1>2 DEF LockStop, TypeOK
    <3>3. computers' \in [Computers -> SUBSET Computers]
      BY <1>2 DEF LockStop, TypeOK
    <3> QED BY <3>1, <3>2, <3>3 DEF ProcessesOK, TypeOK
  <2>3. NoticesOK'
    <3> DEFINE S == Seq(NoticeType)
    <3>1. notices \in [Computers -> S] /\ <<>> \in S
      BY DEF TypeOK
    <3> HIDE DEF S
    <3>2. notices' \in [Computers -> S]
      BY <1>2, <3>1 DEF LockStop
    <3> QED BY <3>2 DEF S, NoticesOK
  <2> QED BY <2>1, <2>2, <2>3
<1> QED BY <1>1, <1>2

\* The kinds of steps, for the proofs that follow.
LEMMA Steps ==
    ASSUME RingNext
    PROVE  \/ /\ UNCHANGED ringVars
              /\ \/ \E c, d \in Computers : \/ Connect(c, d) \/ ProcessAccept(c, d) \/ Hangs(c, d) \/ Detect(c, d)
                                            \/ \E i \in 1 .. MaxOpen : \/ ProcessConnect(d, c, i)
                                                                       \/ ProcessGossip(d, c, i)
                                                                       \/ ProcessDisconnect(d, c, i)
                                                                       \/ ProcessHup(d, c, i)
                 \/ \E c \in Computers : Start(c) \/ StartCut(c) \/ Quits(c)
           \/ \E c, d \in Computers : ForwardDown(c, d) \/ \E i \in 1 .. MaxOpen : ForwardUp(d, c, i)
           \/ \E c \in Computers : Register(c) \/ LockStop(c) \/ LockStep(c)
BY DEF RingNext, LinkNext, PermanentStep, ServiceStep, Hangs, Quits

\* Every step keeps the types.
LEMMA TypeKept == TypeOK /\ [RingNext]_vars => TypeOK'
<1> SUFFICES ASSUME TypeOK, [RingNext]_vars PROVE TypeOK'
  OBVIOUS
<1> SUFFICES ProcessesOK' /\ NeighborsOK' /\ ConnsOK' /\ NoticesOK'
  BY DEF TypeOK, ProcessesOK, NeighborsOK, ConnsOK, NoticesOK, AcceptedType, RepliesType, Conns, Texts
<1>1. CASE UNCHANGED vars
  BY <1>1, Parts DEF vars, linkVars, ringVars, ProcessesOK, NeighborsOK, ConnsOK, NoticesOK
<1>2. ASSUME UNCHANGED ringVars, NEW c \in Computers, NEW d \in Computers,
             Connect(c, d) \/ ProcessAccept(c, d) \/ Hangs(c, d) \/ Detect(c, d)
      PROVE  ProcessesOK' /\ NeighborsOK' /\ ConnsOK' /\ NoticesOK'
  BY <1>2, ConnectType, ProcessAcceptType, HangsType, DetectType
<1>3. ASSUME UNCHANGED ringVars, NEW c \in Computers, NEW d \in Computers, NEW i \in 1 .. MaxOpen,
             ProcessConnect(d, c, i) \/ ProcessGossip(d, c, i) \/ ProcessDisconnect(d, c, i) \/ ProcessHup(d, c, i)
      PROVE  ProcessesOK' /\ NeighborsOK' /\ ConnsOK' /\ NoticesOK'
  BY <1>3, ProcessConnectType, ProcessGossipType, ServiceEndType
<1>4. ASSUME UNCHANGED ringVars, NEW c \in Computers, Start(c) \/ StartCut(c) \/ Quits(c)
      PROVE  ProcessesOK' /\ NeighborsOK' /\ ConnsOK' /\ NoticesOK'
  BY <1>4, StartType, StartCutType, EndsType
<1>5. ASSUME NEW c \in Computers, NEW d \in Computers, ForwardDown(c, d) \/ \E i \in 1 .. MaxOpen : ForwardUp(d, c, i)
      PROVE  ProcessesOK' /\ NeighborsOK' /\ ConnsOK' /\ NoticesOK'
  BY <1>5, ForwardDownType, ForwardUpType
<1>6. ASSUME NEW c \in Computers, Register(c) \/ LockStop(c) \/ LockStep(c)
      PROVE  ProcessesOK' /\ NeighborsOK' /\ ConnsOK' /\ NoticesOK'
  BY <1>6, RegisterType, LockStepType
<1> QED BY <1>1, <1>2, <1>3, <1>4, <1>5, <1>6, Steps, Zenon

\* The types hold at first.
LEMMA TypeInit == RingInit => TypeOK
<1> SUFFICES ASSUME RingInit PROVE TypeOK
  OBVIOUS
<1> USE DEF RingInit, Init
<1>1. ProcessesOK /\ NeighborsOK
  <2>1. [all |-> {}, file |-> {}, intact |-> TRUE] \in NeighborsType
    BY DEF NeighborsType
  <2>2. ProcessesOK
    BY DEF ProcessesOK
  <2>3. NeighborsOK
    BY <2>1 DEF NeighborsOK, ObjectState
  <2> QED BY <2>2, <2>3
<1>2. <<>> \in Conns /\ <<>> \in Texts
  BY DEF Conns, Texts
<1>3. ConnsOK
  BY <1>2 DEF ConnsOK, AcceptedType, RepliesType
<1>4. NoticesOK
  BY DEF NoticesOK
<1> QED BY <1>1, <1>3, <1>4, Parts

\* The members of snap_communicator_server and of snaplock keep their types, and
\* no snapcommunicator opens a connection to itself.
THEOREM TypeCorrect == RingSpec => []TypeOK
BY TypeInit, TypeKept, PTL DEF RingSpec

-----------------------------------------------------------------------------
(* The names of the connections.                                           *)

OneNamed(s) == \A i, j \in DOMAIN s : s[i].named /\ s[j].named => i = j

\* The connections of a computer with a smaller address, which only gossips.
Gossiping(s) ==
    \A i \in DOMAIN s : /\ ~s[i].named
                        /\ ~s[i].remote
                        /\ \A k \in DOMAIN s[i].in : s[i].in[k].cmd \in {"GOSSIP", "EOF"}

PairOK(d, c, s) == OneNamed(s) /\ (c < d => Gossiping(s))

Pairs == \A d, c \in Computers : PairOK(d, c, accepted[d][c])

\* Connections with the same names: at most one of them is named.
LEMMA SameNamed ==
    ASSUME NEW s, NEW t, SameConns(s, t), OneNamed(s)
    PROVE  OneNamed(t)
BY DEF SameConns, OneNamed

\* The command of a message without parameters.
LEMMA Words2 == EOF.cmd = "EOF" /\ \A w \in Words : Message(w).cmd = w
BY DEF EOF, Message

\* Only the connections of one pair change.
LEMMA PairsAt ==
    ASSUME Pairs, NEW d \in Computers, NEW c \in Computers, OnlyAt(accepted, accepted', d, c),
           PairOK(d, c, accepted'[d][c])
    PROVE  Pairs'
BY DEF Pairs, OnlyAt

\* There is no connection at first.
LEMMA PairsInit == RingInit => Pairs
BY DEF RingInit, Init, Pairs, PairOK, OneNamed, Gossiping

\* A new connection has no name, and GOSSIP on it if it goes to a larger address.
LEMMA PairsConnect ==
    ASSUME TypeOK, Pairs, NEW c \in Computers, NEW d \in Computers, Connect(c, d)
    PROVE  Pairs'
<1> DEFINE m == Message(IF d < c THEN "CONNECT" ELSE "GOSSIP")
           n == NewConnection(object[d][c] = "none", m)
           s == accepted[d][c]
           t == accepted'[d][c]
<1>1. /\ OnlyAt(accepted, accepted', d, c)
      /\ DOMAIN t = 1 .. Len(s) + 1
      /\ \A i \in DOMAIN s : t[i] = s[i]
      /\ t[Len(s) + 1] = n
  BY ConnectEffect
<1>2. DOMAIN s = 1 .. Len(s) /\ Len(s) \in Nat /\ PairOK(d, c, s)
  BY TypeFacts DEF Pairs
<1>3. m \in MessageType /\ (c < d => m.cmd = "GOSSIP")
  BY ComputersAssumption, WordIsMessage, Words2 DEF Words
<1> HIDE DEF m
<1>4. ~n.named /\ ~n.remote /\ n.in = <<m>>
  BY <1>3, NewConnectionType
<1>5. \A k \in DOMAIN n.in : n.in[k] = m
  BY <1>4
<1> HIDE DEF n, s, t
<1>6. OneNamed(t)
  BY <1>1, <1>2, <1>4 DEF OneNamed, PairOK
<1>7. ASSUME c < d PROVE Gossiping(t)
  <2> SUFFICES ASSUME NEW i \in DOMAIN t
               PROVE  ~t[i].named /\ ~t[i].remote /\ \A k \in DOMAIN t[i].in : t[i].in[k].cmd \in {"GOSSIP", "EOF"}
    BY DEF Gossiping
  <2>1. CASE i \in DOMAIN s
    BY <1>1, <1>2, <1>7, <2>1 DEF PairOK, Gossiping
  <2>2. CASE i = Len(s) + 1
    BY <1>1, <1>3, <1>4, <1>5, <1>7, <2>2
  <2> QED BY <1>1, <1>2, <2>1, <2>2
<1>8. PairOK(d, c, t)
  BY <1>6, <1>7 DEF PairOK
<1> QED BY <1>1, <1>8, PairsAt DEF t

\* A message is read on connection i, or its end is found out.
LEMMA PairsIn ==
    ASSUME TypeOK, Pairs, NEW d \in Computers, NEW c \in Computers, NEW i \in DOMAIN accepted[d][c],
           NEW conns \in AcceptedType, NEW q \in Seq(MessageType), conns = SetIn(accepted, d, c, i, q),
           \A k \in DOMAIN q : \/ q[k] = EOF
                               \/ \E j \in DOMAIN accepted[d][c][i].in : q[k] = accepted[d][c][i].in[j]
    PROVE  \A e, b \in Computers : PairOK(e, b, conns[e][b])
<1> DEFINE s == accepted[d][c]
           t == conns[d][c]
<1>1. /\ OnlyAt(accepted, conns, d, c)
      /\ DOMAIN t = DOMAIN s
      /\ \A j \in DOMAIN s : j # i => t[j] = s[j]
      /\ t[i].in = q
      /\ t[i].named = s[i].named
      /\ t[i].remote = s[i].remote
  BY TypeFacts, InEntry
<1>2. PairOK(d, c, s)
  BY DEF Pairs
<1>3. \A k \in DOMAIN q : q[k] = EOF \/ \E j \in DOMAIN s[i].in : q[k] = s[i].in[j]
  OBVIOUS
<1> HIDE DEF s, t
<1>4. OneNamed(t)
  BY <1>1, <1>2 DEF OneNamed, PairOK
<1>5. ASSUME c < d PROVE Gossiping(t)
  <2>1. \A k \in DOMAIN q : q[k].cmd \in {"GOSSIP", "EOF"}
    BY <1>2, <1>3, <1>5, Words2 DEF PairOK, Gossiping, s
  <2> QED BY <1>1, <1>2, <1>5, <2>1 DEF PairOK, Gossiping
<1>6. PairOK(d, c, t)
  BY <1>4, <1>5 DEF PairOK
<1> QED BY <1>1, <1>6 DEF Pairs, OnlyAt, t

\* A connection is removed.
LEMMA PairsWithout ==
    ASSUME TypeOK, Pairs, NEW d \in Computers, NEW c \in Computers, NEW i \in DOMAIN accepted[d][c],
           accepted' = [accepted EXCEPT ![d][c] = Without(@, i)]
    PROVE  Pairs'
<1> DEFINE s == accepted[d][c]
           t == accepted'[d][c]
           p(j) == IF j < i THEN j ELSE j + 1
<1>1. /\ OnlyAt(accepted, accepted', d, c)
      /\ DOMAIN t = 1 .. Len(s) - 1
      /\ \A j \in DOMAIN t : p(j) \in DOMAIN s /\ t[j] = s[p(j)]
  BY WithoutEffect, Zenon
<1>2. PairOK(d, c, s) /\ DOMAIN s = 1 .. Len(s) /\ Len(s) \in Nat /\ i \in DOMAIN s
  BY TypeFacts DEF Pairs
<1> HIDE DEF s, t
<1>3. \A j, k \in DOMAIN t : p(j) = p(k) => j = k
  BY <1>1, <1>2
<1> HIDE DEF p
<1>4. OneNamed(t)
  BY <1>1, <1>2, <1>3 DEF OneNamed, PairOK
<1>5. c < d => Gossiping(t)
  BY <1>1, <1>2 DEF Gossiping, PairOK
<1>6. PairOK(d, c, t)
  BY <1>4, <1>5 DEF PairOK
<1> QED BY <1>1, <1>6, PairsAt DEF t

\* set_server_name() is called on CONNECT only if no other connection has that name.
LEMMA PairsNamed ==
    ASSUME TypeOK, Pairs, NEW d \in Computers, NEW c \in Computers, NEW i, ProcessConnect(d, c, i)
    PROVE  Pairs'
<1> DEFINE s == accepted[d][c]
           t == accepted'[d][c]
<1>1. /\ OnlyAt(accepted, accepted', d, c)
      /\ DOMAIN t = DOMAIN s
      /\ \A j \in DOMAIN s : j # i => t[j] = s[j]
      /\ t[i].named <=> ~Conflict(d, c, i)
  BY ProcessConnectEffect
<1>2. PairOK(d, c, s)
  BY DEF Pairs
<1>3. OneNamed(t)
  BY <1>1, <1>2 DEF OneNamed, PairOK, Conflict
<1>4. ~(c < d)
  <2>1. i \in DOMAIN s /\ s[i].in # <<>> /\ s[i].in[1].cmd = "CONNECT" /\ s[i].in \in Seq(MessageType)
    <3>1. Reads(d, c, i, "CONNECT")
      BY DEF ProcessConnect
    <3> QED BY <3>1, ReadsFacts
  <2>2. 1 \in DOMAIN s[i].in
    BY <2>1
  <2> QED BY <1>2, <2>1, <2>2 DEF PairOK, Gossiping
<1>5. PairOK(d, c, t)
  BY <1>3, <1>4 DEF PairOK
<1> QED BY <1>1, <1>5, PairsAt

\* c closes its connection.
LEMMA PairsClosed ==
    ASSUME TypeOK, Pairs, NEW d \in Computers, NEW c \in Computers, Hangs(c, d)
    PROVE  Pairs'
<1> DEFINE s == accepted[d][c]
           t == accepted'[d][c]
<1>1. /\ c # d
      /\ accepted' = [accepted EXCEPT ![d][c] = Closed(@)]
      /\ replies' = [replies EXCEPT ![c][d] = <<>>]
  BY HangsEffect
<1>2. /\ OnlyAt(accepted, accepted', d, c)
      /\ SameConns(s, t)
      /\ \A i \in DOMAIN s : t[i].in = IF s[i].open THEN Append(s[i].in, EOF) ELSE s[i].in
  BY <1>1, CloseEffect
<1>3. PairOK(d, c, s) /\ \A i \in DOMAIN s : s[i].in \in Seq(MessageType)
  BY TypeFacts DEF Pairs
<1> HIDE DEF s, t
<1>4. OneNamed(t)
  BY <1>2, <1>3, SameNamed DEF PairOK
<1>5. ASSUME c < d PROVE Gossiping(t)
  <2> SUFFICES ASSUME NEW i \in DOMAIN t
               PROVE  ~t[i].named /\ ~t[i].remote /\ \A k \in DOMAIN t[i].in : t[i].in[k].cmd \in {"GOSSIP", "EOF"}
    BY DEF Gossiping
  <2>1. /\ i \in DOMAIN s /\ t[i].named = s[i].named /\ t[i].remote = s[i].remote
        /\ ~s[i].named /\ ~s[i].remote /\ \A k \in DOMAIN s[i].in : s[i].in[k].cmd \in {"GOSSIP", "EOF"}
    BY <1>2, <1>3, <1>5 DEF SameConns, PairOK, Gossiping
  <2>2. ASSUME NEW k \in DOMAIN t[i].in PROVE t[i].in[k].cmd \in {"GOSSIP", "EOF"}
    <3>1. CASE s[i].open
      <4>1. EOF \in MessageType
        BY WordIsMessage DEF Words, EOF
      <4>2. t[i].in = Append(s[i].in, EOF) /\ s[i].in \in Seq(MessageType)
        BY <1>2, <1>3, <2>1, <3>1
      <4>3. \/ k \in DOMAIN s[i].in /\ t[i].in[k] = s[i].in[k]
            \/ t[i].in[k] = EOF
        BY <4>1, <4>2, Appended
      <4> QED BY <2>1, <4>3, Words2
    <3>2. CASE ~s[i].open
      BY <1>2, <2>1, <3>2
    <3> QED BY <3>1, <3>2
  <2> QED BY <2>1, <2>2
<1>6. PairOK(d, c, t)
  BY <1>4, <1>5 DEF PairOK
<1> QED BY <1>2, <1>6, PairsAt DEF t

\* A process ends.
LEMMA PairsEnd ==
    ASSUME TypeOK, Pairs, NEW x \in Computers, Quits(x)
    PROVE  Pairs'
<1>1. /\ \A c \in Computers : accepted'[x][c] = <<>>
      /\ \A d, c \in Computers : d # x /\ c # x => accepted'[d][c] = accepted[d][c]
      /\ \A d \in Computers \ {x} :
            /\ SameConns(accepted[d][x], accepted'[d][x])
            /\ \A i \in DOMAIN accepted[d][x] : \A k \in DOMAIN accepted'[d][x][i].in :
                  \/ k \in DOMAIN accepted[d][x][i].in /\ accepted'[d][x][i].in[k] = accepted[d][x][i].in[k]
                  \/ accepted'[d][x][i].in[k] = EOF
                  \/ d < x /\ accepted'[d][x][i].in[k] = Message("DISCONNECT")
  BY QuitsEffect
<1>2. ASSUME NEW d \in Computers, NEW c \in Computers PROVE PairOK(d, c, accepted'[d][c])
  <2>1. CASE d = x
    BY <1>1, <2>1 DEF PairOK, OneNamed, Gossiping
  <2>2. CASE d # x /\ c # x
    BY <1>1, <2>2 DEF Pairs
  <2>3. CASE d # x /\ c = x
    <3> DEFINE s == accepted[d][c]
               t == accepted'[d][c]
    <3>1. /\ SameConns(s, t)
          /\ \A i \in DOMAIN s : \A k \in DOMAIN t[i].in :
                  \/ k \in DOMAIN s[i].in /\ t[i].in[k] = s[i].in[k]
                  \/ t[i].in[k] = EOF
                  \/ d < x /\ t[i].in[k] = Message("DISCONNECT")
      BY <1>1, <2>3
    <3>2. PairOK(d, c, s)
      BY DEF Pairs
    <3> HIDE DEF s, t
    <3>3. OneNamed(t)
      BY <3>1, <3>2, SameNamed DEF PairOK
    <3>4. ASSUME c < d PROVE Gossiping(t)
      <4>1. ~(d < x)
        BY <2>3, <3>4, ComputersAssumption
      <4> QED BY <3>1, <3>2, <3>4, <4>1, Words2 DEF SameConns, PairOK, Gossiping
    <3> QED BY <3>3, <3>4 DEF PairOK, t
  <2> QED BY <2>1, <2>2, <2>3
<1> QED BY <1>2 DEF Pairs

\* A LOCKREADY is passed on: nothing is sent to a computer with a larger address
\* on a connection that this one opened.
LEMMA PairsBroadcast ==
    ASSUME TypeOK, NEW x \in Computers, NEW who \in Computers, NEW informed \in SUBSET Computers,
           NEW conns \in AcceptedType, NEW answers \in RepliesType,
           \A d, c \in Computers : PairOK(d, c, conns[d][c]),
           Broadcast(x, who, informed, conns, answers)
    PROVE  Pairs'
<1>1. PICK to \in SUBSET (Computers \ (informed \cup {x})) :
                BroadcastTo(x, who, informed, conns, answers, to)
  BY BroadcastEffect
<1> DEFINE m == LockReady(who, informed \cup to \cup {x})
<1>2. m \in MessageType
  BY <1>1 DEF BroadcastTo
<1>3. \A d, c \in Computers : accepted'[d][c] = IF c = x /\ d \in to /\ ViaObject(x, d)
                                                THEN Sent(conns[d][c], m) ELSE conns[d][c]
  BY <1>1 DEF BroadcastTo
<1> HIDE DEF m
<1>4. ASSUME NEW d \in Computers, NEW c \in Computers PROVE PairOK(d, c, accepted'[d][c])
  <2>1. CASE accepted'[d][c] = conns[d][c]
    BY <2>1
  <2>2. CASE c = x /\ ViaObject(x, d) /\ accepted'[d][c] = Sent(conns[d][c], m)
    <3>1. conns[d][c] \in Seq(ServiceType)
      BY DEF AcceptedType, Conns
    <3>2. SameConns(conns[d][c], accepted'[d][c])
      BY <1>2, <2>2, <3>1, SentConns DEF SameConns
    <3>3. OneNamed(accepted'[d][c])
      BY <3>2, SameNamed DEF PairOK
    <3>4. ~(c < d)
      BY <2>2, ComputersAssumption DEF ViaObject
    <3> QED BY <3>3, <3>4 DEF PairOK
  <2> QED BY <1>3, <2>1, <2>2
<1> QED BY <1>4 DEF Pairs

\* A snaplock sends its LOCKREADY, or nothing.
LEMMA RingConns ==
    ASSUME TypeOK, NEW c \in Computers, Register(c) \/ LockStop(c) \/ LockStep(c)
    PROVE  \/ UNCHANGED <<accepted, replies>>
           \/ Broadcast(c, c, {}, accepted, replies)
<1>1. ASSUME NEW rest, SendLockReady(c, rest)
      PROVE  \/ UNCHANGED <<accepted, replies>>
             \/ Broadcast(c, c, {}, accepted, replies)
  BY <1>1, Zenon DEF SendLockReady
<1>2. CASE Register(c) \/ LockStop(c)
  BY <1>1, <1>2, Zenon DEF Register, LockStop, linkVars
<1>3. CASE LockStep(c)
  BY <1>1, <1>3, Zenon DEF LockStep, lockready, lockgone, interpret_status, linkVars
<1> QED BY <1>2, <1>3

\* Every step keeps Pairs.
LEMMA PairsKept == TypeOK /\ Pairs /\ [RingNext]_vars => Pairs'
<1> SUFFICES ASSUME TypeOK, Pairs, [RingNext]_vars PROVE Pairs'
  OBVIOUS
<1>1. CASE UNCHANGED accepted
  BY <1>1 DEF Pairs
<1>2. ASSUME NEW c \in Computers, NEW d \in Computers,
             Connect(c, d) \/ ProcessAccept(c, d) \/ Hangs(c, d)
      PROVE  Pairs'
  BY <1>1, <1>2, PairsConnect, PairsClosed DEF ProcessAccept
<1>3. ASSUME NEW d \in Computers, NEW c \in Computers, NEW i \in DOMAIN accepted[d][c], NEW q \in Seq(MessageType),
             accepted' = SetIn(accepted, d, c, i, q),
             \A k \in DOMAIN q : \/ q[k] = EOF
                                 \/ \E j \in DOMAIN accepted[d][c][i].in : q[k] = accepted[d][c][i].in[j]
      PROVE  Pairs'
  <2>1. accepted' \in AcceptedType
    BY <1>3, InEntry, TypeFacts
  <2>3. \A e, b \in Computers : PairOK(e, b, accepted'[e][b])
    BY <1>3, <2>1, PairsIn
  <2> QED BY <2>3 DEF Pairs
<1>4. ASSUME NEW c \in Computers, NEW d \in Computers, Detect(c, d)
      PROVE  Pairs'
  <2>1. CASE \E i \in DOMAIN accepted[d][c] : accepted' = [accepted EXCEPT ![d][c][i].in = <<EOF>>]
    <3>1. EOF \in MessageType
      BY WordIsMessage DEF Words, EOF
    <3> DEFINE q == <<EOF>>
    <3>2. q \in Seq(MessageType) /\ \A k \in DOMAIN q : q[k] = EOF
      BY <3>1
    <3>3. PICK i \in DOMAIN accepted[d][c] : accepted' = SetIn(accepted, d, c, i, q)
      BY <2>1 DEF SetIn
    <3> HIDE DEF q
    <3> QED BY <1>3, <3>2, <3>3
  <2> QED BY <1>1, <1>4, <2>1 DEF Detect
<1>5. ASSUME NEW d \in Computers, NEW c \in Computers, NEW i, NEW w, Reads(d, c, i, w),
             \/ accepted' = [accepted EXCEPT ![d][c][i].in = Tail(accepted[d][c][i].in)]
             \/ accepted' = [accepted EXCEPT ![d][c] = Without(@, i)]
      PROVE  Pairs'
  <2> DEFINE q == Tail(accepted[d][c][i].in)
  <2>1. /\ i \in DOMAIN accepted[d][c]
        /\ q \in Seq(MessageType)
        /\ \A k \in DOMAIN q : k + 1 \in DOMAIN accepted[d][c][i].in /\ q[k] = accepted[d][c][i].in[k + 1]
    BY <1>5, ReadsFacts
  <2>2. CASE accepted' = [accepted EXCEPT ![d][c][i].in = q]
    <3>1. \A k \in DOMAIN q : \E j \in DOMAIN accepted[d][c][i].in : q[k] = accepted[d][c][i].in[j]
      BY <2>1
    <3> HIDE DEF q
    <3>2. accepted' = SetIn(accepted, d, c, i, q)
      BY <2>2 DEF SetIn
    <3> QED BY <1>3, <2>1, <3>1, <3>2
  <2>3. CASE accepted' = [accepted EXCEPT ![d][c] = Without(@, i)]
    BY <2>1, <2>3, PairsWithout
  <2> QED BY <1>5, <2>2, <2>3
<1>6. ASSUME NEW c \in Computers, NEW d \in Computers, NEW i \in 1 .. MaxOpen,
             ProcessConnect(d, c, i) \/ ProcessGossip(d, c, i) \/ ProcessDisconnect(d, c, i) \/ ProcessHup(d, c, i)
      PROVE  Pairs'
  <2>1. CASE ProcessConnect(d, c, i)
    BY <2>1, PairsNamed
  <2>2. CASE ProcessGossip(d, c, i) \/ ProcessDisconnect(d, c, i) \/ ProcessHup(d, c, i)
    <3>1. PICK w : /\ Reads(d, c, i, w)
                   /\ \/ accepted' = [accepted EXCEPT ![d][c][i].in = Tail(accepted[d][c][i].in)]
                      \/ accepted' = [accepted EXCEPT ![d][c] = Without(@, i)]
      BY <2>2, Zenon DEF ProcessGossip, ProcessDisconnect, ProcessHup
    <3> QED BY <1>5, <3>1
  <2> QED BY <1>6, <2>1, <2>2
<1>7. ASSUME NEW c \in Computers, Start(c) \/ StartCut(c) \/ Quits(c)
      PROVE  Pairs'
  BY <1>1, <1>7, PairsEnd DEF Start, StartCut
<1>8. \A d, c \in Computers : PairOK(d, c, accepted[d][c])
  BY DEF Pairs
<1>9. ASSUME NEW c \in Computers, NEW d \in Computers, ForwardDown(c, d)
      PROVE  Pairs'
  <2> DEFINE m == replies[c][d][1]
  <2>1. /\ m.who \in Computers /\ m.informed \in SUBSET Computers /\ Rest(c, d) \in RepliesType
        /\ \/ Broadcast(c, m.who, m.informed, accepted, Rest(c, d))
           \/ UNCHANGED accepted
    BY <1>9, ForwardDownFacts
  <2> HIDE DEF m
  <2> QED BY <1>1, <1>8, <2>1, TypeFacts, PairsBroadcast
<1>10. ASSUME NEW c \in Computers, NEW d \in Computers, NEW i, ForwardUp(d, c, i)
       PROVE  Pairs'
  <2> DEFINE a     == accepted[d][c][i]
             m     == a.in[1]
             conns == SetIn(accepted, d, c, i, Tail(a.in))
  <2>1. /\ i \in DOMAIN accepted[d][c]
        /\ m.who \in Computers /\ m.informed \in SUBSET Computers
        /\ Broadcast(d, m.who, m.informed, conns, replies)
        /\ conns \in AcceptedType
    BY <1>10, ForwardUpFacts, Zenon
  <2>2. /\ Tail(a.in) \in Seq(MessageType)
        /\ \A k \in DOMAIN Tail(a.in) : \E j \in DOMAIN a.in : Tail(a.in)[k] = a.in[j]
    <3>1. Reads(d, c, i, "LOCKREADY")
      BY <1>10 DEF ForwardUp
    <3>2. /\ Tail(a.in) \in Seq(MessageType)
          /\ \A k \in DOMAIN Tail(a.in) : k + 1 \in DOMAIN a.in /\ Tail(a.in)[k] = a.in[k + 1]
      BY <3>1, ReadsFacts
    <3> QED BY <3>2
  <2>3. \A e, b \in Computers : PairOK(e, b, conns[e][b])
    <3> DEFINE q == Tail(a.in)
    <3>1. q \in Seq(MessageType) /\ conns = SetIn(accepted, d, c, i, q) /\ \A k \in DOMAIN q : \E j \in DOMAIN a.in : q[k] = a.in[j]
      BY <2>2
    <3> HIDE DEF conns, q
    <3> QED BY <2>1, <3>1, PairsIn
  <2> HIDE DEF m, conns
  <2> QED BY <2>1, <2>3, TypeFacts, PairsBroadcast
<1>11. ASSUME NEW c \in Computers, Register(c) \/ LockStop(c) \/ LockStep(c)
       PROVE  Pairs'
  <2>1. CASE Broadcast(c, c, {}, accepted, replies)
    BY <1>8, <2>1, TypeFacts, PairsBroadcast
  <2> QED BY <1>1, <1>11, <2>1, RingConns
<1>12. CASE UNCHANGED vars
  BY <1>1, <1>12 DEF vars, linkVars
<1> QED BY <1>2, <1>4, <1>6, <1>7, <1>9, <1>10, <1>11, <1>12, Steps, Zenon

\* Pairs is an invariant.
LEMMA PairsHold == RingSpec => [](TypeOK /\ Pairs)
BY TypeInit, TypeKept, PairsInit, PairsKept, PTL DEF RingSpec

\* process_message(), CONNECT: with any number of computers, and whatever crashes,
\* stops, loses its power and connects again, a snapcommunicator never has two
\* connections with the server name of the same computer.
THEOREM NamedOnce == RingSpec => []OneConnection
<1>1. Pairs => OneConnection
  BY DEF Pairs, PairOK, OneNamed, OneConnection
<1> QED BY <1>1, PairsHold, PTL

-----------------------------------------------------------------------------
(* The gossip.                                                             *)

\* A snapcommunicator that does not run knows nobody and has no connection.
Stopped ==
    \A c \in Computers : ~running[c] =>
        /\ allIps[c] = {}
        /\ ~registered[c]
        /\ \A d \in Computers : object[c][d] = "none" /\ Len(accepted[c][d]) = 0

\* The other side of a permanent connection is in f_all_ips.
Known == \A c, d \in Computers : object[c][d] # "none" => d \in allIps[c]

\* The neighbors of x that no crash can make it forget: the ones in neighbors.txt,
\* or no matter which ones once a save failed or was cut.
Durable(x) == IF neighbors[x].intact THEN neighbors[x].file ELSE Computers

\* A gossip that ended was saved.
Remembered ==
    \A c, d \in Computers :
        running[c] /\ c < d /\ d \in allIps[c] /\ object[c][d] = "none" => c \in Durable(d)

\* A computer that says RECEIVED has saved the neighbor.
Told == \A c, d \in Computers : \A k \in DOMAIN replies[c][d] :
            replies[c][d][k].cmd = "RECEIVED" => c \in Durable(d)

\* While it runs, neighbors.txt holds what is in memory, unless a save failed.
Saved == \A x \in Computers : running[x] /\ neighbors[x].intact => neighbors[x].file = neighbors[x].all

\* Nobody runs and nothing is known at first.
LEMMA GossipInit == RingInit => Stopped /\ Known /\ Told /\ Remembered /\ Saved
BY DEF RingInit, Init, Stopped, Known, Told, Remembered, Saved

\* Nothing is forgotten while the neighbors do not change.
LEMMA DurableSame ==
    ASSUME UNCHANGED neighbors
    PROVE  \A x \in Computers : Durable(x) \subseteq Durable(x)'
BY DEF Durable

\* One computer has other neighbors, and either a save went wrong or nothing is forgotten.
LEMMA DurableGrows ==
    ASSUME NEW c \in Computers, TypeOK, TypeOK',
           \A x \in Computers \ {c} : neighbors'[x] = neighbors[x],
           neighbors'[c].intact => neighbors[c].intact /\ neighbors[c].file \subseteq neighbors'[c].file
    PROVE  \A x \in Computers : Durable(x) \subseteq Durable(x)'
<1>1. \A x \in Computers : Durable(x) \subseteq Computers
  BY DEF Durable, TypeOK, NeighborsType
<1>2. ASSUME NEW x \in Computers \ {c} PROVE Durable(x) \subseteq Durable(x)'
  BY DEF Durable
<1>3. Durable(c) \subseteq Durable(c)'
  BY <1>1 DEF Durable
<1> QED BY <1>2, <1>3

\* add_neighbors() of a snapcommunicator that runs saves what it adds, or fails.
LEMMA SavedAdd ==
    ASSUME TypeOK, TypeOK', Saved, NEW c \in Computers, NEW S \in SUBSET Computers, NEW objects,
           running[c], UNCHANGED running, AddNeighbors(c, S, objects)
    PROVE  /\ Saved'
           /\ \A x \in Computers : Durable(x) \subseteq Durable(x)'
           /\ S \subseteq Durable(c)'
<1>1. /\ neighbors'[c] \in Added(c, neighbors[c], S)
      /\ \A x \in Computers \ {c} : neighbors'[x] = neighbors[x]
  BY AddNeighborsType
<1>2. neighbors[c] \in NeighborsType
  BY DEF TypeOK
<1> DEFINE nb == neighbors[c]
           new == neighbors'[c]
<1>3. new.intact /\ nb.file = nb.all => /\ nb.intact
                                        /\ new.file = new.all
                                        /\ nb.file \cup S \subseteq new.file
  <2> HIDE DEF nb, new
  <2>1. nb \in NeighborsType /\ new \in Added(c, nb, S)
    BY <1>1, <1>2 DEF nb, new
  <2> QED BY <2>1, AddedType
<1>4. nb.intact => nb.file = nb.all
  BY DEF Saved
<1>5. new.intact => nb.intact
  <2> HIDE DEF nb, new
  <2>1. nb \in NeighborsType /\ new \in Added(c, nb, S)
    BY <1>1, <1>2 DEF nb, new
  <2> QED BY <2>1, AddedIntact
<1>6. new.intact => nb.file \subseteq new.file /\ S \subseteq new.file /\ new.file = new.all
  BY <1>3, <1>4, <1>5
<1>7. Saved'
  BY <1>1, <1>6 DEF Saved
<1>8. \A x \in Computers : Durable(x) \subseteq Durable(x)'
  BY <1>1, <1>5, <1>6, DurableGrows
<1>9. S \subseteq Durable(c)'
  BY <1>6 DEF Durable
<1> QED BY <1>7, <1>8, <1>9

\* New addresses are added, by a snapcommunicator that runs or one that starts.
LEMMA GossipAdd ==
    ASSUME TypeOK, Known, Remembered, NEW c \in Computers, NEW S \in SUBSET Computers,
           NEW objects \in [Computers -> ObjectState], objects[c] = "none",
           AddRemotes(c, S, objects),
           \A d \in Computers : objects[d] = "none" <=> object[c][d] = "none",
           \A x \in Computers : running'[x] => running[x] \/ allIps[x] = {},
           \A x \in Computers : Durable(x) \subseteq Durable(x)'
    PROVE  Known' /\ Remembered'
<1>1. /\ allIps'[c] = allIps[c] \cup NewAddresses(c, S)
      /\ \A d \in Computers : object'[c][d] = IF d \in NewAddresses(c, S) THEN "waiting" ELSE objects[d]
      /\ \A x \in Computers \ {c} : allIps'[x] = allIps[x] /\ object'[x] = object[x]
  BY AddRemotesType
<1>2. Known'
  BY <1>1 DEF Known
<1>3. Remembered'
  BY <1>1 DEF Remembered
<1> QED BY <1>2, <1>3

\* The neighbors, f_all_ips and the permanent connections do not change.
LEMMA GossipSame ==
    ASSUME Known, Remembered, UNCHANGED <<running, neighbors, allIps, object>>
    PROVE  Known' /\ Remembered' /\ \A x \in Computers : Durable(x) \subseteq Durable(x)'
BY DEF Known, Remembered, Durable

\* No connection comes to a computer, other than d.
LEMMA StoppedSame ==
    ASSUME Stopped, UNCHANGED <<running, allIps, object>>,
           \A x \in Computers : registered'[x] => running[x],
           \A x, y \in Computers : Len(accepted'[x][y]) = Len(accepted[x][y]) \/ running[x]
    PROVE  Stopped'
BY DEF Stopped

\* The answers that were not there before are not RECEIVED.
LEMMA ToldSame ==
    ASSUME Told, \A x \in Computers : Durable(x) \subseteq Durable(x)',
           \A c, d \in Computers : \A k \in DOMAIN replies'[c][d] :
              \/ \E j \in DOMAIN replies[c][d] : replies'[c][d][k] = replies[c][d][j]
              \/ replies'[c][d][k].cmd # "RECEIVED"
              \/ c \in Durable(d)'
    PROVE  Told'
BY DEF Told

\* A process starts: its gossips all start anew.
LEMMA GossipStart ==
    ASSUME TypeOK, TypeOK', Stopped, Known, Told, Remembered, Saved, NEW c \in Computers, Start(c)
    PROVE  Stopped' /\ Known' /\ Told' /\ Remembered' /\ Saved'
<1> DEFINE S    == neighbors[c].file \cup Explicit[c]
           read == [neighbors[c] EXCEPT !.all = neighbors[c].file]
           new  == neighbors'[c]
<1>1. /\ running' = [running EXCEPT ![c] = TRUE]
      /\ UNCHANGED <<accepted, replies, registered>>
      /\ ~running[c]
  BY DEF Start
<1>2. /\ S \in SUBSET Computers
      /\ object[c] \in [Computers -> ObjectState] /\ object[c][c] = "none"
      /\ AddRemotes(c, S, object[c])
      /\ read \in NeighborsType
      /\ read.file = read.all /\ read.file = neighbors[c].file /\ read.intact = neighbors[c].intact
      /\ new \in Added(c, read, Explicit[c])
      /\ \A x \in Computers \ {c} : neighbors'[x] = neighbors[x]
  BY StartEffect
<1>3. running'[c] /\ \A x \in Computers \ {c} : running'[x] = running[x]
  BY <1>1 DEF TypeOK
<1>4. \A x \in Computers : running'[x] => running[x] \/ allIps[x] = {}
  BY <1>1, <1>3 DEF Stopped
<1>5. new.intact => neighbors[c].intact /\ neighbors[c].file \subseteq new.file /\ new.file = new.all
  <2> HIDE DEF read, new
  <2>1. Explicit[c] \in SUBSET Computers
    BY ExplicitAssumption
  <2>2. new.intact => read.intact /\ read.file \subseteq new.file /\ new.file = new.all
    BY <1>2, <2>1, AddedType
  <2> QED BY <1>2, <2>2
<1>6. \A x \in Computers : Durable(x) \subseteq Durable(x)'
  BY <1>2, <1>5, DurableGrows
<1>7. Saved'
  BY <1>2, <1>3, <1>5 DEF Saved
<1> HIDE DEF S, read, new
<1>8. Known' /\ Remembered'
  BY <1>2, <1>4, <1>6, GossipAdd
<1>9. \A x \in Computers \ {c} : allIps'[x] = allIps[x] /\ object'[x] = object[x]
  BY <1>2, AddRemotesType
<1>10. Stopped'
  BY <1>1, <1>3, <1>9 DEF Stopped
<1>11. Told'
  BY <1>1, <1>6 DEF Told
<1> QED BY <1>7, <1>8, <1>10, <1>11

\* init() is cut: what neighbors.txt held may be lost, and then it is not intact.
LEMMA GossipStartCut ==
    ASSUME TypeOK, TypeOK', Stopped, Known, Told, Remembered, Saved, NEW c \in Computers, StartCut(c)
    PROVE  Stopped' /\ Known' /\ Told' /\ Remembered' /\ Saved'
<1>1. UNCHANGED <<running, allIps, object, accepted, replies, registered>>
  BY StartCutEffect
<1>2. PICK file, S : Leaves(c, file, S) /\ neighbors[c].file \subseteq S
  BY StartCutEffect
<1>3. /\ neighbors'[c].intact => neighbors[c].intact /\ neighbors[c].file \subseteq neighbors'[c].file
      /\ \A x \in Computers \ {c} : neighbors'[x] = neighbors[x]
  BY <1>2, LeavesEffect
<1>4. \A x \in Computers : Durable(x) \subseteq Durable(x)'
  BY <1>3, DurableGrows
<1>5. ~running[c]
  BY DEF StartCut
<1>6. Saved'
  BY <1>1, <1>3, <1>5 DEF Saved
<1>7. Stopped' /\ Known'
  BY <1>1 DEF Stopped, Known
<1>8. Told' /\ Remembered'
  BY <1>1, <1>4 DEF Told, Remembered
<1> QED BY <1>6, <1>7, <1>8

\* A process ends; neighbors.txt stays, or is not intact any more.
LEMMA GossipEnd ==
    ASSUME TypeOK, TypeOK', Stopped, Known, Told, Remembered, Saved, NEW x \in Computers, Quits(x)
    PROVE  Stopped' /\ Known' /\ Told' /\ Remembered' /\ Saved'
<1>1. /\ running' = [running EXCEPT ![x] = FALSE]
      /\ registered' = [registered EXCEPT ![x] = FALSE]
      /\ allIps' = [allIps EXCEPT ![x] = {}]
      /\ object' = [object EXCEPT ![x] = [d \in Computers |-> "none"]]
      /\ running[x]
  BY QuitsEffect
<1>2. /\ ~running'[x] /\ ~registered'[x] /\ allIps'[x] = {} /\ \A d \in Computers : object'[x][d] = "none"
      /\ \A y \in Computers \ {x} : /\ running'[y] = running[y] /\ registered'[y] = registered[y]
                                    /\ allIps'[y] = allIps[y] /\ object'[y] = object[y]
  BY <1>1 DEF TypeOK
<1>3. /\ \A c \in Computers : Len(accepted'[x][c]) = 0
      /\ \A d, c \in Computers : d # x => Len(accepted'[d][c]) = Len(accepted[d][c])
  <2>1. /\ \A c \in Computers : accepted'[x][c] = <<>>
        /\ \A d, c \in Computers : d # x /\ c # x => accepted'[d][c] = accepted[d][c]
        /\ \A d \in Computers \ {x} : SameConns(accepted[d][x], accepted'[d][x])
    BY QuitsEffect
  <2>2. \A d \in Computers \ {x} : Len(accepted'[d][x]) = Len(accepted[d][x])
    BY <2>1 DEF SameConns
  <2>3. Len(<<>>) = 0
    OBVIOUS
  <2> QED BY <2>1, <2>2, <2>3
<1>4. Stopped'
  BY <1>2, <1>3 DEF Stopped
<1>5. \A y \in Computers : Durable(y) \subseteq Durable(y)'
  <2>1. PICK file, S : Leaves(x, file, S)
    BY QuitsLeaves
  <2>2. /\ neighbors'[x].intact => neighbors[x].intact /\ neighbors'[x].file = S
        /\ \A y \in Computers \ {x} : neighbors'[y] = neighbors[y]
    BY <2>1, LeavesEffect
  <2>3. neighbors[x].intact => neighbors[x].file \subseteq S
    BY <1>1, <2>1 DEF Leaves, Saved
  <2> QED BY <2>2, <2>3, DurableGrows
<1>6. Saved'
  <2>1. \A y \in Computers \ {x} : neighbors'[y] = neighbors[y]
    BY QuitsLeaves, LeavesEffect
  <2> QED BY <1>2, <2>1 DEF Saved
<1>7. Known' /\ Remembered'
  BY <1>2, <1>5 DEF Known, Remembered
<1>8. Told'
  <2>1. ASSUME NEW c \in Computers, NEW d \in Computers, NEW k \in DOMAIN replies'[c][d]
        PROVE  \/ \E j \in DOMAIN replies[c][d] : replies'[c][d][k] = replies[c][d][j]
               \/ replies'[c][d][k].cmd # "RECEIVED"
    <3>1. c # x
      BY QuitsEffect
    <3>2. CASE d # x
      BY <3>1, <3>2, QuitsEffect
    <3>3. CASE d = x
      <4>1. \/ k \in DOMAIN replies[c][x] /\ replies'[c][x][k] = replies[c][x][k]
            \/ replies'[c][x][k] \in {EOF, Message("DISCONNECT")}
        BY <3>1, <3>3, QuitsEffect
      <4>2. EOF.cmd # "RECEIVED" /\ Message("DISCONNECT").cmd # "RECEIVED"
        BY Words2 DEF Words
      <4> QED BY <3>3, <4>1, <4>2
    <3> QED BY <3>2, <3>3
  <2> QED BY <1>5, <2>1, ToldSame
<1> QED BY <1>4, <1>6, <1>7, <1>8

\* c connects to d: there is a new list of answers, and it is empty.
LEMMA GossipConnect ==
    ASSUME TypeOK, Stopped, Known, Told, Remembered, NEW c \in Computers, NEW d \in Computers, Connect(c, d)
    PROVE  Stopped' /\ Known' /\ Told' /\ Remembered'
<1>1. /\ c # d
      /\ OnlyAt(accepted, accepted', d, c)
      /\ OnlyAt(replies, replies', c, d)
      /\ replies'[c][d] = <<>>
  BY ConnectEffect
<1>2. /\ UNCHANGED <<running, neighbors, allIps, registered>>
      /\ running[d]
      /\ object[c][d] = "waiting"
      /\ object' = [object EXCEPT ![c][d] = "connected"]
  BY DEF Connect
<1>3. object'[c][d] = "connected" /\ OnlyAt(object, object', c, d)
  BY <1>2 DEF TypeOK, OnlyAt
<1>4. running[c]
  BY <1>2 DEF Stopped
<1>5. Stopped'
  BY <1>1, <1>2, <1>3, <1>4 DEF Stopped, OnlyAt
<1>6. Known' /\ Remembered'
  BY <1>2, <1>3, DurableSame DEF Known, Remembered, OnlyAt
<1>7. Told'
  BY <1>1, <1>2, DurableSame DEF Told, OnlyAt
<1> QED BY <1>5, <1>6, <1>7

\* d answers a CONNECT or a GOSSIP of c.  RECEIVED is sent after the new
\* neighbor was saved.
LEMMA GossipAnswer ==
    ASSUME TypeOK, TypeOK', Stopped, Known, Told, Remembered, Saved, NEW c \in Computers, NEW d \in Computers, NEW i,
           ProcessConnect(d, c, i) \/ ProcessGossip(d, c, i)
    PROVE  Stopped' /\ Known' /\ Told' /\ Remembered' /\ Saved'
<1>1. i \in DOMAIN accepted[d][c]
  BY DEF ProcessConnect, ProcessGossip, Reads
<1>2. Len(accepted[d][c]) # 0
  BY <1>1, TypeFacts
<1>3. running[d]
  BY <1>2 DEF Stopped
<1>4. UNCHANGED <<running, registered>>
  BY DEF ProcessConnect, ProcessGossip
<1>5. \A x, y \in Computers : Len(accepted'[x][y]) = Len(accepted[x][y])
  BY ProcessConnectEffect, ProcessGossipEffect DEF OnlyAt
<1>6. /\ Explicit[c] \cup {c} \in SUBSET Computers /\ {c} \in SUBSET Computers
      /\ object[d] \in [Computers -> ObjectState] /\ object[d][d] = "none"
  BY ExplicitAssumption DEF TypeOK
<1>7. ASSUME UNCHANGED <<neighbors, allIps, object>>
      PROVE  Stopped' /\ Known' /\ Remembered' /\ Saved' /\ \A x \in Computers : Durable(x) \subseteq Durable(x)'
  <2>1. Known' /\ Remembered' /\ \A x \in Computers : Durable(x) \subseteq Durable(x)'
    BY <1>4, <1>7, GossipSame
  <2>2. Stopped' /\ Saved'
    BY <1>4, <1>5, <1>7 DEF Stopped, Saved
  <2> QED BY <2>1, <2>2
<1>8. ASSUME NEW S \in SUBSET Computers, AddNeighbors(d, S, object[d])
      PROVE  /\ Stopped' /\ Known' /\ Remembered' /\ Saved'
             /\ \A x \in Computers : Durable(x) \subseteq Durable(x)'
             /\ S \subseteq Durable(d)'
  <2>1. Saved' /\ S \subseteq Durable(d)' /\ \A x \in Computers : Durable(x) \subseteq Durable(x)'
    BY <1>3, <1>4, <1>8, SavedAdd
  <2>2. AddRemotes(d, S, object[d])
    BY <1>8 DEF AddNeighbors
  <2>3. Known' /\ Remembered'
    BY <1>4, <1>6, <2>1, <2>2, GossipAdd
  <2>4. \A x \in Computers \ {d} : allIps'[x] = allIps[x] /\ object'[x] = object[x]
    BY <1>6, <2>2, AddRemotesType
  <2>5. Stopped'
    BY <1>3, <1>4, <1>5, <2>4 DEF Stopped
  <2> QED BY <2>1, <2>3, <2>5
<1>9. ASSUME NEW m \in MessageType, m.cmd # "RECEIVED" \/ c \in Durable(d)', OnlyAt(replies, replies', c, d),
             replies'[c][d] = Append(replies[c][d], m) \/ replies'[c][d] = replies[c][d],
             \A x \in Computers : Durable(x) \subseteq Durable(x)'
      PROVE  Told'
  <2>1. \A k \in DOMAIN replies'[c][d] : \/ k \in DOMAIN replies[c][d] /\ replies'[c][d][k] = replies[c][d][k]
                                         \/ replies'[c][d][k] = m
    <3>1. replies[c][d] \in Seq(MessageType)
      BY TypeFacts
    <3> DEFINE s == replies[c][d]
    <3> HIDE DEF s
    <3>2. \A k \in DOMAIN Append(s, m) : (k \in DOMAIN s /\ Append(s, m)[k] = s[k]) \/ Append(s, m)[k] = m
      BY <3>1, Appended DEF s
    <3> QED BY <1>9, <3>2 DEF s
  <2>2. \A x, y \in Computers : \A k \in DOMAIN replies'[x][y] :
              \/ \E j \in DOMAIN replies[x][y] : replies'[x][y][k] = replies[x][y][j]
              \/ replies'[x][y][k].cmd # "RECEIVED"
              \/ x \in Durable(y)'
    BY <1>9, <2>1 DEF OnlyAt
  <2> QED BY <1>9, <2>2, ToldSame
<1>10. CASE ProcessConnect(d, c, i)
  <2>1. UNCHANGED <<neighbors, allIps, object>> \/ AddNeighbors(d, Explicit[c] \cup {c}, object[d])
    BY <1>10, Zenon DEF ProcessConnect
  <2>2. Stopped' /\ Known' /\ Remembered' /\ Saved' /\ \A x \in Computers : Durable(x) \subseteq Durable(x)'
    BY <1>6, <1>7, <1>8, <2>1
  <2>3. PICK w \in {"REFUSE", "ACCEPT"} : replies'[c][d] = Append(replies[c][d], Message(w)) \/ replies'[c][d] = replies[c][d]
    BY <1>10, ProcessConnectEffect
  <2>4. Message(w).cmd # "RECEIVED" /\ Message(w) \in MessageType
    BY <2>3, Words2, WordIsMessage DEF Words
  <2> DEFINE m == Message(w)
  <2>5. /\ m \in MessageType /\ m.cmd # "RECEIVED"
        /\ OnlyAt(replies, replies', c, d)
        /\ replies'[c][d] = Append(replies[c][d], m) \/ replies'[c][d] = replies[c][d]
    BY <1>10, <2>3, <2>4, ProcessConnectEffect
  <2> HIDE DEF m
  <2> QED BY <1>9, <2>2, <2>5
<1>11. CASE ProcessGossip(d, c, i)
  <2>1. AddNeighbors(d, {c}, object[d])
    BY <1>11, Zenon DEF ProcessGossip
  <2>2. /\ Stopped' /\ Known' /\ Remembered' /\ Saved' /\ \A x \in Computers : Durable(x) \subseteq Durable(x)'
        /\ c \in Durable(d)'
    BY <1>6, <1>8, <2>1
  <2> DEFINE m == Message("RECEIVED")
  <2>3. /\ m \in MessageType
        /\ OnlyAt(replies, replies', c, d)
        /\ replies'[c][d] = Append(replies[c][d], m) \/ replies'[c][d] = replies[c][d]
    BY <1>11, ProcessGossipEffect, WordIsMessage DEF Words
  <2> HIDE DEF m
  <2> QED BY <1>9, <2>2, <2>3
<1> QED BY <1>10, <1>11

\* A connection to d ends, or its end is found out: no answer is sent.
LEMMA GossipServiceEnd ==
    ASSUME TypeOK, Stopped, Known, Told, Remembered, NEW c \in Computers, NEW d \in Computers, NEW i,
           ProcessDisconnect(d, c, i) \/ ProcessHup(d, c, i)
    PROVE  Stopped' /\ Known' /\ Told' /\ Remembered'
<1>1. UNCHANGED <<running, neighbors, allIps, object, replies, registered>>
  BY DEF ProcessDisconnect, ProcessHup
<1>2. PICK w : /\ Reads(d, c, i, w)
               /\ \/ accepted' = [accepted EXCEPT ![d][c][i].in = Tail(accepted[d][c][i].in)]
                  \/ accepted' = [accepted EXCEPT ![d][c] = Without(@, i)]
  BY Zenon DEF ProcessDisconnect, ProcessHup
<1>3. i \in DOMAIN accepted[d][c] /\ Tail(accepted[d][c][i].in) \in Seq(MessageType)
  BY <1>2, ReadsFacts
<1>4. OnlyAt(accepted, accepted', d, c)
  BY <1>2, <1>3, InEffect, WithoutEffect
<1>5. running[d]
  BY <1>3, TypeFacts DEF Stopped
<1>6. Stopped'
  BY <1>1, <1>4, <1>5 DEF Stopped, OnlyAt
<1> QED BY <1>1, <1>6, GossipSame, DurableSame DEF Told

\* The system finds out that a connection is dead.
LEMMA GossipDetect ==
    ASSUME TypeOK, Stopped, Known, Told, Remembered, NEW c \in Computers, NEW d \in Computers, Detect(c, d)
    PROVE  Stopped' /\ Known' /\ Told' /\ Remembered'
<1>1. UNCHANGED <<running, neighbors, allIps, object, registered>>
  BY DEF Detect
<1> DEFINE q == <<EOF>>
<1>2. q \in Seq(MessageType) /\ DOMAIN q = {1} /\ q[1] = EOF
  BY WordIsMessage DEF EOF, Words
<1>3. EOF.cmd # "RECEIVED"
  BY Words2
<1>4. CASE \E i \in DOMAIN accepted[d][c] : accepted' = [accepted EXCEPT ![d][c][i].in = q] /\ UNCHANGED replies
  <2>1. \A x, y \in Computers : Len(accepted'[x][y]) = Len(accepted[x][y])
    <3> HIDE DEF q
    <3> QED BY <1>2, <1>4, InEffect DEF OnlyAt
  <2>2. Stopped'
    BY <1>1, <2>1 DEF Stopped
  <2> QED BY <1>1, <1>4, <2>2, GossipSame, DurableSame DEF Told
<1>5. CASE replies' = [replies EXCEPT ![c][d] = q] /\ UNCHANGED accepted
  <2>1. OnlyAt(replies, replies', c, d) /\ replies'[c][d] = q
    BY <1>5, TypeFacts DEF OnlyAt, RepliesType
  <2> HIDE DEF q
  <2>2. Told'
    BY <1>1, <1>2, <1>3, <2>1, DurableSame DEF Told, OnlyAt
  <2>3. Stopped'
    BY <1>1, <1>5 DEF Stopped
  <2> QED BY <1>1, <2>2, <2>3, GossipSame
<1> QED BY <1>4, <1>5 DEF Detect

\* The neighbors in an ACCEPT are added.
LEMMA GossipAccept ==
    ASSUME TypeOK, TypeOK', Stopped, Known, Told, Remembered, Saved, NEW c \in Computers, NEW d \in Computers, ProcessAccept(c, d)
    PROVE  Stopped' /\ Known' /\ Told' /\ Remembered' /\ Saved'
<1>1. Hears(c, d, "ACCEPT") /\ UNCHANGED <<running, accepted, registered>>
  BY DEF ProcessAccept
<1>2. object[c][d] \in {"connected", "accepted"} /\ c # d
  BY <1>1, HearsFacts
<1>3. running[c]
  BY <1>2 DEF Stopped
<1> DEFINE objects == [object[c] EXCEPT ![d] = "accepted"]
<1>4. AddNeighbors(c, Explicit[d], objects)
  BY DEF ProcessAccept
<1>5. /\ Explicit[d] \in SUBSET Computers /\ objects \in [Computers -> ObjectState] /\ objects[c] = "none"
      /\ \A x \in Computers : objects[x] = "none" <=> object[c][x] = "none"
  BY <1>2, ExplicitAssumption DEF TypeOK, ObjectState
<1> HIDE DEF objects
<1>6. /\ Saved' /\ \A x \in Computers : Durable(x) \subseteq Durable(x)'
      /\ Known' /\ Remembered'
  <2>1. Saved' /\ \A x \in Computers : Durable(x) \subseteq Durable(x)'
    BY <1>1, <1>3, <1>4, <1>5, SavedAdd
  <2>2. AddRemotes(c, Explicit[d], objects)
    BY <1>4 DEF AddNeighbors
  <2>3. \A x \in Computers : running'[x] => running[x]
    BY <1>1
  <2> QED BY <1>5, <2>1, <2>2, <2>3, GossipAdd
<1>7. \A x \in Computers \ {c} : allIps'[x] = allIps[x] /\ object'[x] = object[x]
  BY <1>4, <1>5, AddRemotesType DEF AddNeighbors
<1>8. Stopped'
  BY <1>1, <1>3, <1>7 DEF Stopped
<1>9. Told'
  <2>1. OnlyAt(replies, replies', c, d) /\ replies'[c][d] = Tail(replies[c][d])
    BY <1>1, TailEffect DEF ProcessAccept
  <2>2. \A k \in DOMAIN Tail(replies[c][d]) : k + 1 \in DOMAIN replies[c][d] /\ Tail(replies[c][d])[k] = replies[c][d][k + 1]
    BY <1>1, HearsFacts
  <2>3. \A x, y \in Computers : \A k \in DOMAIN replies'[x][y] :
              \E j \in DOMAIN replies[x][y] : replies'[x][y][k] = replies[x][y][j]
    <3> DEFINE s == replies[c][d]
               u == Tail(replies[c][d])
    <3>1. replies'[c][d] = u /\ \A k \in DOMAIN u : k + 1 \in DOMAIN s /\ u[k] = s[k + 1]
      BY <2>1, <2>2
    <3>2. \A k \in DOMAIN u : \E j \in DOMAIN s : u[k] = s[j]
      BY <3>1
    <3> HIDE DEF s, u
    <3>3. s = replies[c][d]
      BY DEF s
    <3> QED BY <2>1, <3>1, <3>2, <3>3 DEF OnlyAt
  <2> QED BY <1>6, <2>3, ToldSame
<1> QED BY <1>6, <1>8, <1>9

\* gossip_received() is the only one to remove a permanent connection, and it was
\* called because of a RECEIVED.
LEMMA GossipHangs ==
    ASSUME TypeOK, Stopped, Known, Told, Remembered, NEW c \in Computers, NEW d \in Computers, Hangs(c, d)
    PROVE  Stopped' /\ Known' /\ Told' /\ Remembered'
<1>1. /\ c # d
      /\ UNCHANGED <<running, neighbors, allIps, registered>>
      /\ OnlyAt(object, object', c, d)
      /\ object'[c][d] = "none" => replies[c][d][1].cmd = "RECEIVED"
  BY HangsEffect
<1>2. /\ OnlyAt(accepted, accepted', d, c)
      /\ SameConns(accepted[d][c], accepted'[d][c])
      /\ OnlyAt(replies, replies', c, d)
      /\ replies'[c][d] = <<>>
  BY HangsEffect, CloseEffect
<1>3. PICK w : Hears(c, d, w)
  BY Zenon DEF Hangs, ProcessRefuse, ProcessRemoteDisconnect, ProcessRemoteHup, ProcessReceived
<1>4. object[c][d] # "none" /\ 1 \in DOMAIN replies[c][d]
  BY <1>3, HearsFacts
<1>5. running[c]
  BY <1>4 DEF Stopped
<1>6. Stopped'
  BY <1>1, <1>2, <1>5 DEF Stopped, OnlyAt, SameConns
<1>7. Known'
  BY <1>1, <1>4 DEF Known, OnlyAt
<1>8. object'[c][d] = "none" => c \in Durable(d)
  BY <1>1, <1>4 DEF Told
<1>9. Remembered'
  BY <1>1, <1>8, DurableSame DEF Remembered, OnlyAt
<1>10. Told'
  BY <1>1, <1>2, DurableSame DEF Told, OnlyAt
<1> QED BY <1>6, <1>7, <1>9, <1>10

\* A LOCKREADY is sent: the connections are the same ones, and RECEIVED is not sent.
LEMMA GossipBroadcast ==
    ASSUME TypeOK, Stopped, Known, Told, Remembered,
           NEW x \in Computers, NEW who \in Computers, NEW informed \in SUBSET Computers,
           NEW conns \in AcceptedType, NEW answers \in RepliesType,
           \A d, c \in Computers : Len(conns[d][c]) = Len(accepted[d][c]),
           \A c, d \in Computers : \A k \in DOMAIN answers[c][d] :
              \E j \in DOMAIN replies[c][d] : answers[c][d][k] = replies[c][d][j],
           UNCHANGED <<running, neighbors, allIps, object>>,
           \A y \in Computers : registered'[y] => running[y],
           \/ Broadcast(x, who, informed, conns, answers)
           \/ accepted' = conns /\ replies' = answers
    PROVE  Stopped' /\ Known' /\ Told' /\ Remembered'
<1>1. Known' /\ Remembered'
  BY GossipSame
<1>2. CASE Broadcast(x, who, informed, conns, answers)
  <2>1. PICK to \in SUBSET (Computers \ (informed \cup {x})) :
                BroadcastTo(x, who, informed, conns, answers, to)
    BY <1>2, BroadcastEffect
  <2> DEFINE m == LockReady(who, informed \cup to \cup {x})
  <2>2. m \in MessageType /\ m.cmd # "RECEIVED"
    BY <2>1 DEF BroadcastTo, LockReady
  <2>3. /\ \A d, c \in Computers : accepted'[d][c] = Sent(conns[d][c], m) \/ accepted'[d][c] = conns[d][c]
        /\ \A c, d \in Computers : replies'[c][d] = Append(answers[c][d], m) \/ replies'[c][d] = answers[c][d]
    <3>1. \A d, c \in Computers : accepted'[d][c] = IF c = x /\ d \in to /\ ViaObject(x, d)
                                                    THEN Sent(conns[d][c], m) ELSE conns[d][c]
      BY <2>1 DEF BroadcastTo
    <3>2. \A c, d \in Computers : replies'[c][d] = IF d = x /\ c \in to /\ ViaService(x, c) /\ accepted[x][c][1].open
                                                   THEN Append(answers[c][d], m) ELSE answers[c][d]
      BY <2>1 DEF BroadcastTo
    <3> HIDE DEF m
    <3> QED BY <3>1, <3>2, Zenon
  <2> HIDE DEF m
  <2>4. ASSUME NEW d \in Computers, NEW c \in Computers PROVE Len(accepted'[d][c]) = Len(accepted[d][c])
    <3>1. conns[d][c] \in Seq(ServiceType)
      BY DEF AcceptedType, Conns
    <3>2. Len(Sent(conns[d][c], m)) = Len(conns[d][c])
      BY <2>2, <3>1, SentConns
    <3> QED BY <2>3, <3>2
  <2>5. ASSUME NEW c \in Computers, NEW d \in Computers, NEW k \in DOMAIN replies'[c][d]
        PROVE  \/ \E j \in DOMAIN replies[c][d] : replies'[c][d][k] = replies[c][d][j]
               \/ replies'[c][d][k].cmd # "RECEIVED"
    <3>1. answers[c][d] \in Seq(MessageType)
      BY DEF RepliesType, Texts
    <3> DEFINE s == answers[c][d]
    <3> HIDE DEF s
    <3>2. \A j \in DOMAIN Append(s, m) : (j \in DOMAIN s /\ Append(s, m)[j] = s[j]) \/ Append(s, m)[j] = m
      BY <2>2, <3>1, Appended DEF s
    <3>3. replies'[c][d] = Append(s, m) \/ replies'[c][d] = s
      BY <2>3 DEF s
    <3>4. (k \in DOMAIN s /\ replies'[c][d][k] = s[k]) \/ replies'[c][d][k] = m
      BY <3>2, <3>3
    <3>5. s = answers[c][d]
      BY DEF s
    <3> QED BY <2>2, <3>4, <3>5
  <2>6. Stopped'
    BY <2>4, StoppedSame
  <2>7. Told'
    <3>1. ASSUME NEW c \in Computers, NEW d \in Computers, NEW k \in DOMAIN replies'[c][d],
                 replies'[c][d][k].cmd = "RECEIVED"
          PROVE  c \in Durable(d)'
      <4>1. PICK j \in DOMAIN replies[c][d] : replies'[c][d][k] = replies[c][d][j]
        BY <2>5, <3>1
      <4>2. replies[c][d][j].cmd = "RECEIVED"
        BY <3>1, <4>1, Zenon
      <4>3. c \in Durable(d)
        BY <4>2, Zenon DEF Told
      <4> QED BY <4>3, DurableSame
    <3> QED BY <3>1, Zenon DEF Told
  <2> QED BY <1>1, <2>6, <2>7
<1>3. CASE accepted' = conns /\ replies' = answers
  <2>1. Stopped'
    BY <1>3, StoppedSame
  <2>2. Told'
    <3>1. \A y \in Computers : Durable(y) \subseteq Durable(y)'
      BY DurableSame
    <3> QED BY <1>3, <3>1, ToldSame
  <2> QED BY <1>1, <2>1, <2>2
<1> QED BY <1>2, <1>3

\* A LOCKREADY is forwarded.
LEMMA GossipForward ==
    ASSUME TypeOK, Stopped, Known, Told, Remembered, NEW c \in Computers, NEW d \in Computers,
           ForwardDown(c, d) \/ \E i \in 1 .. MaxOpen : ForwardUp(d, c, i)
    PROVE  Stopped' /\ Known' /\ Told' /\ Remembered'
<1>1. UNCHANGED <<running, neighbors, allIps, object, registered>>
  BY DEF ForwardDown, ForwardUp
<1>2. \A y \in Computers : registered'[y] => running[y]
  BY <1>1 DEF Stopped
<1>3. CASE ForwardDown(c, d)
  <2> DEFINE m == replies[c][d][1]
             rest == Rest(c, d)
  <2>1. /\ m.who \in Computers /\ m.informed \in SUBSET Computers
        /\ rest \in RepliesType
        /\ OnlyAt(replies, rest, c, d)
        /\ rest[c][d] = Tail(replies[c][d])
        /\ \/ Broadcast(c, m.who, m.informed, accepted, rest)
           \/ accepted' = accepted /\ replies' = rest
    BY <1>3, ForwardDownFacts
  <2>2. \A k \in DOMAIN Tail(replies[c][d]) : k + 1 \in DOMAIN replies[c][d] /\ Tail(replies[c][d])[k] = replies[c][d][k + 1]
    BY <1>3, HearsFacts DEF ForwardDown
  <2>3. \A x, y \in Computers : \A k \in DOMAIN rest[x][y] : \E j \in DOMAIN replies[x][y] : rest[x][y][k] = replies[x][y][j]
    <3> DEFINE s == replies[c][d]
               u == Tail(replies[c][d])
    <3>1. rest[c][d] = u /\ \A k \in DOMAIN u : k + 1 \in DOMAIN s /\ u[k] = s[k + 1]
      BY <2>1, <2>2
    <3>2. \A k \in DOMAIN u : \E j \in DOMAIN s : u[k] = s[j]
      BY <3>1
    <3> HIDE DEF s, u, rest
    <3>3. s = replies[c][d]
      BY DEF s
    <3> QED BY <2>1, <3>1, <3>2, <3>3 DEF OnlyAt
  <2> DEFINE who == m.who
             informed == m.informed
  <2>4. /\ who \in Computers /\ informed \in SUBSET Computers
        /\ \/ Broadcast(c, who, informed, accepted, rest)
           \/ accepted' = accepted /\ replies' = rest
    BY <2>1
  <2>5. accepted \in AcceptedType /\ rest \in RepliesType /\ \A x, y \in Computers : Len(accepted[x][y]) = Len(accepted[x][y])
    BY <2>1, TypeFacts
  <2> HIDE DEF who, informed, rest, m
  <2>6. UNCHANGED <<running, neighbors, allIps, object>>
    BY <1>1
  <2>7. CASE Broadcast(c, who, informed, accepted, rest)
    BY <1>2, <2>3, <2>4, <2>5, <2>6, <2>7, GossipBroadcast
  <2>8. CASE accepted' = accepted /\ replies' = rest
    <3>1. Known' /\ Remembered' /\ \A y \in Computers : Durable(y) \subseteq Durable(y)'
      BY <2>6, GossipSame
    <3>2. Stopped'
      BY <1>1, <2>8 DEF Stopped
    <3>3. Told'
      BY <2>3, <2>8, <3>1, ToldSame
    <3> QED BY <3>1, <3>2, <3>3
  <2> QED BY <2>4, <2>7, <2>8
<1>4. ASSUME NEW i, ForwardUp(d, c, i)
      PROVE  Stopped' /\ Known' /\ Told' /\ Remembered'
  <2> DEFINE a     == accepted[d][c][i]
             m     == a.in[1]
             conns == SetIn(accepted, d, c, i, Tail(a.in))
  <2>1. /\ m.who \in Computers /\ m.informed \in SUBSET Computers
        /\ Broadcast(d, m.who, m.informed, conns, replies)
        /\ conns \in AcceptedType
        /\ OnlyAt(accepted, conns, d, c)
        /\ Len(conns[d][c]) = Len(accepted[d][c])
    <3>1. /\ m.who \in Computers /\ m.informed \in SUBSET Computers
          /\ Broadcast(d, m.who, m.informed, conns, replies)
          /\ conns \in AcceptedType
      BY <1>4, ForwardUpFacts, Zenon
    <3>2. OnlyAt(accepted, conns, d, c)
      BY <1>4, ForwardUpFacts, Zenon
    <3>3. Len(conns[d][c]) = Len(accepted[d][c])
      <4> DEFINE q == Tail(a.in)
      <4>1. i \in DOMAIN accepted[d][c] /\ q \in Seq(MessageType)
        <5>1. Reads(d, c, i, "LOCKREADY")
          BY <1>4, Zenon DEF ForwardUp
        <5> QED BY <5>1, ReadsFacts
      <4> HIDE DEF q
      <4>2. Len(SetIn(accepted, d, c, i, q)[d][c]) = Len(accepted[d][c])
        BY <4>1, TypeFacts, InEntry
      <4> QED BY <4>2 DEF q
    <3> QED BY <3>1, <3>2, <3>3, Zenon
  <2> HIDE DEF m, conns
  <2>2. \A x, y \in Computers : Len(conns[x][y]) = Len(accepted[x][y])
    BY <2>1 DEF OnlyAt
  <2> QED BY <1>1, <1>2, <2>1, <2>2, TypeFacts, GossipBroadcast
<1> QED BY <1>3, <1>4

\* A step of a snaplock.
LEMMA GossipLock ==
    ASSUME TypeOK, Stopped, Known, Told, Remembered, NEW c \in Computers,
           Register(c) \/ LockStop(c) \/ LockStep(c)
    PROVE  Stopped' /\ Known' /\ Told' /\ Remembered'
<1>1. UNCHANGED <<running, neighbors, allIps, object>>
  BY Zenon DEF Register, LockStop, LockStep, lockready, lockgone, interpret_status, linkVars
<1>2. \A y \in Computers : registered'[y] => running[y]
  <2>1. CASE Register(c)
    BY <2>1 DEF Register, Stopped, TypeOK
  <2>2. CASE LockStop(c)
    BY <2>2 DEF LockStop, Stopped, TypeOK
  <2>3. CASE LockStep(c)
    <3>1. UNCHANGED registered
      BY <2>3, Zenon DEF LockStep, lockready, lockgone, interpret_status
    <3> QED BY <3>1 DEF Stopped
  <2> QED BY <2>1, <2>2, <2>3
<1>3. \/ accepted' = accepted /\ replies' = replies
      \/ Broadcast(c, c, {}, accepted, replies)
  BY RingConns
<1> QED BY <1>1, <1>2, <1>3, TypeFacts, GossipBroadcast

\* The steps that leave the neighbors and the processes alone.
LEMMA SavedSame ==
    ASSUME Saved, UNCHANGED <<running, neighbors>>
    PROVE  Saved'
BY DEF Saved

\* Every step keeps the five invariants.
LEMMA GossipKept ==
    TypeOK /\ Stopped /\ Known /\ Told /\ Remembered /\ Saved /\ [RingNext]_vars
        => Stopped' /\ Known' /\ Told' /\ Remembered' /\ Saved'
<1> SUFFICES ASSUME TypeOK, Stopped, Known, Told, Remembered, Saved, [RingNext]_vars
             PROVE  Stopped' /\ Known' /\ Told' /\ Remembered' /\ Saved'
  OBVIOUS
<1>1. TypeOK'
  BY TypeKept
<1>2. CASE UNCHANGED vars
  BY <1>2, GossipSame, SavedSame, DurableSame DEF vars, linkVars, Stopped, Told
<1>3. ASSUME NEW c \in Computers, NEW d \in Computers, Connect(c, d) \/ Hangs(c, d) \/ Detect(c, d)
      PROVE  Stopped' /\ Known' /\ Told' /\ Remembered' /\ Saved'
  <2>1. UNCHANGED <<running, neighbors>>
    BY <1>3, HangsEffect DEF Connect, Detect
  <2> QED BY <1>3, <2>1, SavedSame, GossipConnect, GossipHangs, GossipDetect
<1>4. ASSUME NEW c \in Computers, NEW d \in Computers, ProcessAccept(c, d)
      PROVE  Stopped' /\ Known' /\ Told' /\ Remembered' /\ Saved'
  BY <1>1, <1>4, GossipAccept
<1>5. ASSUME NEW c \in Computers, NEW d \in Computers, NEW i \in 1 .. MaxOpen,
             ProcessConnect(d, c, i) \/ ProcessGossip(d, c, i)
      PROVE  Stopped' /\ Known' /\ Told' /\ Remembered' /\ Saved'
  BY <1>1, <1>5, GossipAnswer
<1>6. ASSUME NEW c \in Computers, NEW d \in Computers, NEW i \in 1 .. MaxOpen,
             ProcessDisconnect(d, c, i) \/ ProcessHup(d, c, i)
      PROVE  Stopped' /\ Known' /\ Told' /\ Remembered' /\ Saved'
  <2>1. UNCHANGED <<running, neighbors>>
    BY <1>6 DEF ProcessDisconnect, ProcessHup
  <2> QED BY <1>6, <2>1, SavedSame, GossipServiceEnd
<1>7. ASSUME NEW c \in Computers, Start(c) \/ StartCut(c) \/ Quits(c)
      PROVE  Stopped' /\ Known' /\ Told' /\ Remembered' /\ Saved'
  BY <1>1, <1>7, GossipStart, GossipStartCut, GossipEnd
<1>8. ASSUME NEW c \in Computers, NEW d \in Computers, ForwardDown(c, d) \/ \E i \in 1 .. MaxOpen : ForwardUp(d, c, i)
      PROVE  Stopped' /\ Known' /\ Told' /\ Remembered' /\ Saved'
  <2>1. UNCHANGED <<running, neighbors>>
    BY <1>8 DEF ForwardDown, ForwardUp
  <2> QED BY <1>8, <2>1, SavedSame, GossipForward
<1>9. ASSUME NEW c \in Computers, Register(c) \/ LockStop(c) \/ LockStep(c)
      PROVE  Stopped' /\ Known' /\ Told' /\ Remembered' /\ Saved'
  <2>1. UNCHANGED <<running, neighbors>>
    BY <1>9, Zenon DEF Register, LockStop, LockStep, lockready, lockgone, interpret_status, linkVars
  <2> QED BY <1>9, <2>1, SavedSame, GossipLock
<1> QED BY <1>2, <1>3, <1>4, <1>5, <1>6, <1>7, <1>8, <1>9, Steps, Zenon

\* They are invariants.
LEMMA GossipHolds == RingSpec => [](TypeOK /\ Stopped /\ Known /\ Told /\ Remembered /\ Saved)
BY TypeInit, TypeKept, GossipInit, GossipKept, PTL DEF RingSpec

\* gossip_received(): whatever stops, crashes or loses its power, a computer ends
\* the gossip to a larger one only after that one saved it in its neighbors.txt,
\* where it stays as long as no save_neighbors() of that one could not open the
\* file, was cut by a crash or lost with the power.  That is not inductive: it needs
\* that nothing but a RECEIVED ends a gossip, that RECEIVED is sent after
\* add_neighbors() and the file kept over the time it is on its way, and that a
\* later save writes all the names again, because what is in memory is what the
\* file held.
THEOREM GossipSaved == RingSpec => []GossipIsDurable
<1>1. TypeOK /\ Remembered => GossipIsDurable
  BY DEF Remembered, GossipIsDurable, Durable
<1> QED BY <1>1, GossipHolds, PTL

=============================================================================
