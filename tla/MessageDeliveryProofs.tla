----------------------- MODULE MessageDeliveryProofs -----------------------
(***************************************************************************)
(* What arrives (EveryoneTold and ExpectedIsKept of MessageRouting):       *)
(*   ExpectedAreKept  Spec => []ExpectedIsKept                             *)
(*   AllAreTold       Mesh => (Spec => []EveryoneTold)                     *)
(***************************************************************************)
EXTENDS MessageRoutingProofs

-----------------------------------------------------------------------------
(* The places where a message can be.                                      *)

\* Message n is on the link from x to y, or on some link.
Holds(q, n)  == \E i \in DOMAIN q : q[i].n = n
On(n, x, y)  == Holds(queue[x][y], n)
Travels(n)   == \E x, y \in Computers : On(n, x, y)

\* It is in the cache of c, and the cache keeps it until Ttl after it was sent.
Cached(n, c) == \E i \in DOMAIN cache[c] : /\ cache[c][i].n = n
                                           /\ sent[n].timeout + Ttl <= cache[c][i].timeout + Lifetime

\* The records of the messages that were sent.
LEMMA SentTyped ==
    ASSUME TypeOK, NEW n \in DOMAIN sent
    PROVE  /\ sent[n].origin \in Computers
           /\ sent[n].service \in Services \cup Wide
           /\ sent[n].server \in Computers \cup {"*"}
           /\ sent[n].msgid \in Computers \X Nat
           /\ sent[n].msgid[1] \in Computers
           /\ sent[n].msgid[2] \in Nat
           /\ sent[n].timeout \in Nat
<1>1. sent[n] \in Sent
  BY DEF TypeOK
<1> QED BY <1>1 DEF Sent

\* The message numbers N, which computer c processes, goes to T and S, and to the
\* cache if K; what was delivered or cached before still is.
Deals(c, N, T, S, K) ==
    /\ \A n, d, s : d \in Computers /\ s \in Services /\ Got(d, s, n) => Got(d, s, n)'
    /\ \A s \in S : s \in Services => Got(c, s, N)'
    /\ \A d \in Computers : \A i \in DOMAIN cache[d] : \E j \in DOMAIN cache'[d] : cache'[d][j] = cache[d][i]
    /\ K => \E j \in DOMAIN cache'[c] : cache'[c][j].n = N /\ cache'[c][j].timeout = now + Ttl

\* The elements of an extended sequence.
LEMMA Extended ==
    ASSUME NEW E, NEW q \in Seq(E), NEW e
    PROVE  /\ \A i \in DOMAIN q : i \in DOMAIN Append(q, e) /\ Append(q, e)[i] = q[i]
           /\ Len(q) + 1 \in DOMAIN Append(q, e) /\ Append(q, e)[Len(q) + 1] = e
           /\ \A i \in DOMAIN Append(q, e) : (i \in DOMAIN q /\ Append(q, e)[i] = q[i]) \/ Append(q, e)[i] = e
  OBVIOUS

LEMMA EffectDeals ==
    ASSUME TypeOK, NEW c \in Computers, NEW m \in Message, NEW req, NEW queues \in Queues,
           NEW T \in SUBSET Computers, NEW S, NEW K, Effect(c, m, req, queues, T, S, K)
    PROVE  /\ Deals(c, m.n, T, S, K)
           /\ \A n : \A x, y \in Computers :
                 On(n, x, y)' <=> Holds(queues[x][y], n) \/ (n = m.n /\ x = c /\ y \in T)
<1>1. ASSUME NEW n, NEW d \in Computers, NEW s \in Services
      PROVE  /\ Got(d, s, n) => Got(d, s, n)'
             /\ d = c /\ s \in S => Got(c, s, m.n)'
  <2> DEFINE q == delivered[d][s]
  <2>1. q \in Seq(1 .. MaxMessages)
    BY DEF TypeOK
  <2>2. delivered'[d][s] = IF d = c /\ s \in S THEN Append(q, m.n) ELSE q
    BY DEF Effect
  <2>3. Got(d, s, n) => \E i \in DOMAIN q : q[i] = n
    BY DEF Got
  <2> HIDE DEF q
  <2>4. /\ \A i \in DOMAIN q : i \in DOMAIN Append(q, m.n) /\ Append(q, m.n)[i] = q[i]
        /\ Len(q) + 1 \in DOMAIN Append(q, m.n) /\ Append(q, m.n)[Len(q) + 1] = m.n
    BY <2>1, Extended
  <2>5. Got(d, s, n) => Got(d, s, n)'
    BY <2>2, <2>3, <2>4 DEF Got
  <2>6. d = c /\ s \in S => Got(c, s, m.n)'
    BY <2>2, <2>4 DEF Got
  <2> QED BY <2>5, <2>6
<1>2. ASSUME NEW d \in Computers
      PROVE  /\ \A i \in DOMAIN cache[d] : \E j \in DOMAIN cache'[d] : cache'[d][j] = cache[d][i]
             /\ d = c /\ K => \E j \in DOMAIN cache'[c] : cache'[c][j].n = m.n /\ cache'[c][j].timeout = now + Ttl
  <2> DEFINE q == cache[d]
             e == Entry(m, req)
  <2>1. q \in Seq(Entries)
    BY DEF TypeOK, Entries
  <2>2. cache'[d] = IF d = c /\ K THEN Append(q, e) ELSE q
    BY DEF Effect
  <2>3. e.n = m.n /\ e.timeout = now + Ttl
    BY DEF Entry
  <2> HIDE DEF q, e
  <2>4. /\ \A i \in DOMAIN q : i \in DOMAIN Append(q, e) /\ Append(q, e)[i] = q[i]
        /\ Len(q) + 1 \in DOMAIN Append(q, e) /\ Append(q, e)[Len(q) + 1] = e
    BY <2>1, Extended
  <2>5. \A i \in DOMAIN q : \E j \in DOMAIN cache'[d] : cache'[d][j] = q[i]
    BY <2>2, <2>4
  <2>6. d = c /\ K => \E j \in DOMAIN cache'[c] : cache'[c][j].n = m.n /\ cache'[c][j].timeout = now + Ttl
    BY <2>2, <2>3, <2>4
  <2> QED BY <2>5, <2>6 DEF q
<1>3. ASSUME NEW n, NEW x \in Computers, NEW y \in Computers
      PROVE  On(n, x, y)' <=> Holds(queues[x][y], n) \/ (n = m.n /\ x = c /\ y \in T)
  <2> DEFINE q == queues[x][y]
             e == Copy(c, m, T)
  <2>1. q \in Seq(Message)
    BY DEF Queues
  <2>2. queue'[x][y] = IF x = c /\ y \in T THEN Append(q, e) ELSE q
    BY DEF Effect
  <2>3. e.n = m.n
    BY CopyType
  <2> HIDE DEF q, e
  <2>4. /\ \A i \in DOMAIN q : i \in DOMAIN Append(q, e) /\ Append(q, e)[i] = q[i]
        /\ Len(q) + 1 \in DOMAIN Append(q, e) /\ Append(q, e)[Len(q) + 1] = e
        /\ \A i \in DOMAIN Append(q, e) : (i \in DOMAIN q /\ Append(q, e)[i] = q[i]) \/ Append(q, e)[i] = e
    BY <2>1, Extended
  <2>5. Holds(Append(q, e), n) <=> Holds(q, n) \/ n = m.n
    BY <2>3, <2>4 DEF Holds
  <2>6. On(n, x, y)' <=> Holds(queue'[x][y], n)
    BY DEF On
  <2>7. CASE x = c /\ y \in T
    BY <2>2, <2>5, <2>6, <2>7 DEF q
  <2>8. CASE ~(x = c /\ y \in T)
    BY <2>2, <2>6, <2>8 DEF q
  <2> QED BY <2>7, <2>8
<1>4. Deals(c, m.n, T, S, K)
  BY <1>1, <1>2 DEF Deals
<1> QED BY <1>3, <1>4


\* Taking the first message from the link from x to c takes no other one.
LEMMA RestHolds ==
    ASSUME queue \in Queues, NEW x \in Computers, NEW c \in Computers, queue[x][c] # <<>>,
           NEW n, NEW u \in Computers, NEW y \in Computers
    PROVE  /\ Holds(Rest(x, c)[u][y], n) => On(n, u, y)
           /\ On(n, u, y) => \/ Holds(Rest(x, c)[u][y], n)
                             \/ u = x /\ y = c /\ n = Head(queue[x][c]).n
<1>1. PICK q : q = queue[x][c]
  OBVIOUS
<1>2. q \in Seq(Message) /\ q # <<>>
  BY <1>1 DEF Queues
<1>3. Rest(x, c)[u][y] = IF u = x /\ y = c THEN Tail(q) ELSE queue[u][y]
  BY <1>1 DEF Rest, Queues
<1>4. /\ \A i \in DOMAIN Tail(q) : i + 1 \in DOMAIN q /\ Tail(q)[i] = q[i + 1]
      /\ \A i \in DOMAIN q : q[i] = Head(q) \/ (i - 1 \in DOMAIN Tail(q) /\ Tail(q)[i - 1] = q[i])
  BY <1>2
<1>5. Holds(Tail(q), n) => Holds(q, n)
  BY <1>4 DEF Holds
<1>6. Holds(q, n) => Holds(Tail(q), n) \/ n = Head(q).n
  BY <1>4 DEF Holds
<1> QED BY <1>1, <1>3, <1>5, <1>6 DEF On

\* The loop of REGISTER over the cache leaves nothing out.
LEMMA PickIsComplete ==
    ASSUME NEW E, NEW s \in Seq(E), NEW I
    PROVE  \A i \in I \cap DOMAIN s : \E j \in DOMAIN Pick(s, I) : Pick(s, I)[j] = s[i]
<1>1. PICK f : Picks(f, s, I, Len(s)) /\ Pick(s, I) = f[Len(s)]
  <2>1. \E f : Picks(f, s, I, Len(s))
    <3>1. Len(s) \in Nat
      OBVIOUS
    <3> QED BY <3>1, PicksExists, Zenon
  <2> QED BY <2>1 DEF Pick, Picks
<1> DEFINE Upto(k) == /\ f[k] \in Seq(E)
                      /\ \A i \in I \cap (1 .. k) : \E j \in DOMAIN f[k] : f[k][j] = s[i]
           Bad     == {k \in 0 .. Len(s) : ~Upto(k)}
<1>2. \A i \in 0 .. Len(s) : f[i] = IF i = 0 THEN <<>>
                          ELSE IF i \in I THEN Append(f[i - 1], s[i]) ELSE f[i - 1]
  BY <1>1 DEF Picks
<1>3. ASSUME Bad # {} PROVE FALSE
  <2>1. PICK k \in Bad : \A m \in Bad : k <= m
    <3> HIDE DEF Upto
    <3>1. Bad \subseteq Nat
      OBVIOUS
    <3> HIDE DEF Bad
    <3> QED BY <1>3, <3>1, LeastNumber
  <2>2. k \in 0 .. Len(s) /\ ~Upto(k)
    OBVIOUS
  <2>3. CASE k = 0
    <3>1. f[0] = <<>>
      BY <1>2
    <3>2. Upto(0)
      BY <3>1
    <3> QED BY <2>2, <2>3, <3>2
  <2>4. CASE k # 0
    <3>1. k - 1 \in 0 .. Len(s) /\ Upto(k - 1) /\ s[k] \in E
      <4> HIDE DEF Upto
      <4>1. k - 1 \in 0 .. Len(s) /\ k - 1 \notin Bad /\ s[k] \in E
        <5> HIDE DEF Bad
        <5> QED BY <2>1, <2>2, <2>4
      <4> QED BY <4>1
    <3>2. \A i \in I \cap (1 .. k) : i \in I \cap (1 .. k - 1) \/ i = k
      BY <2>2
    <3>3. CASE k \notin I
      <4>1. f[k] = f[k - 1]
        BY <1>2, <2>2, <2>4, <3>3
      <4> QED BY <2>2, <3>1, <3>2, <3>3, <4>1
    <3>4. CASE k \in I
      <4>1. f[k] = Append(f[k - 1], s[k]) /\ f[k - 1] \in Seq(E)
        BY <1>2, <2>2, <2>4, <3>1, <3>4
      <4>2. /\ f[k] \in Seq(E)
            /\ \A j \in DOMAIN f[k - 1] : j \in DOMAIN f[k] /\ f[k][j] = f[k - 1][j]
            /\ \E j \in DOMAIN f[k] : f[k][j] = s[k]
        <5>1. PICK q, e : q = f[k - 1] /\ e = s[k]
          OBVIOUS
        <5>2. q \in Seq(E) /\ e \in E /\ f[k] = Append(q, e)
          BY <3>1, <4>1, <5>1
        <5>3. /\ \A i \in DOMAIN q : i \in DOMAIN Append(q, e) /\ Append(q, e)[i] = q[i]
              /\ Len(q) + 1 \in DOMAIN Append(q, e) /\ Append(q, e)[Len(q) + 1] = e
              /\ Append(q, e) \in Seq(E)
          BY <5>2, Extended
        <5> QED BY <5>1, <5>2, <5>3
      <4>3. \A i \in I \cap (1 .. k) : \E j \in DOMAIN f[k] : f[k][j] = s[i]
        BY <3>1, <3>2, <4>2
      <4> QED BY <2>2, <4>2, <4>3
    <3> QED BY <3>3, <3>4
  <2> QED BY <2>3, <2>4
<1>4. Upto(Len(s)) /\ DOMAIN s = 1 .. Len(s)
  BY <1>3
<1> QED BY <1>1, <1>4

-----------------------------------------------------------------------------
(* The inductive invariant.                                                *)

\* The links of RemoteConnections, when all are up: every computer has one with
\* every other.
Mesh == \A c \in Computers : Link[c] = Computers \ {c}

\* A broadcast_timeout is never more than Lifetime away.
Timed == \A n \in DOMAIN sent : sent[n].timeout <= now + Lifetime

\* Only a service that still understands messages is a listener.
Listening == \A n \in DOMAIN sent : listeners[n] \subseteq Understanding

\* The broadcast_msgid of what is on a link, or was received, was given already.
Numbered ==
    /\ \A n \in DOMAIN sent : Travels(n) => sent[n].msgid[2] <= sequence[sent[n].msgid[1]]
    /\ \A y \in Computers : \A r \in received[y] : r.msgid[2] <= sequence[r.msgid[1]]

\* Messages that are on a link have different ones, (g_broadcast_sequence does not
\* count those that go to nobody else, so that this is not true of all), ...
Distinct ==
    \A n, k \in DOMAIN sent : Travels(n) /\ Travels(k) /\ sent[n].msgid = sent[k].msgid => n = k

\* ... and that of a message for one server is not among those received, which is
\* why such a message is never taken for a duplicate.
DirectedUnseen ==
    \A n \in DOMAIN sent : Travels(n) /\ sent[n].server # "*"
        => \A y \in Computers : \A r \in received[y] : r.msgid # sent[n].msgid

\* A computer that would take a broadcast for a duplicate told its services.
SeenIsGot ==
    \A n \in DOMAIN sent : Travels(n) /\ IsBroadcast(n)
        => \A p \in listeners[n] : (\E r \in received[p[1]] : r.msgid = sent[n].msgid) => Got(p[1], p[2], n)

\* The antecedent of ExpectedIsKept.
Awaited(n) ==
    /\ sent[n].server \in Computers /\ sent[n].service \in Services
    /\ sent[n].server = sent[n].origin \/ sent[n].server \in Link[sent[n].origin]
    /\ sent[n].service \in Expected[sent[n].server]
    /\ now <= sent[n].timeout /\ now + Lifetime <= sent[n].timeout + Ttl

\* A message for an expected service was delivered, waits in the cache, or is on
\* its way.
Kept ==
    \A n \in DOMAIN sent : Awaited(n)
        => \A d, s, o : d = sent[n].server /\ s = sent[n].service /\ o = sent[n].origin
                           => Got(d, s, n) \/ Cached(n, d) \/ On(n, o, d)

\* The antecedent of EveryoneTold.
Valid(n) == IsBroadcast(n) /\ sent[n].server = "*" /\ now <= sent[n].timeout

\* A broadcast was delivered to a listener, or is on its way from where it was sent.
Told ==
    \A n \in DOMAIN sent : Valid(n)
        => \A p \in listeners[n] : \A o : p[1] \in Scope(n) /\ o = sent[n].origin
                                             => Got(p[1], p[2], n) \/ On(n, o, p[1])

Delivery ==
    /\ Inv
    /\ Timed
    /\ Listening
    /\ Numbered
    /\ Distinct
    /\ DirectedUnseen
    /\ SeenIsGot
    /\ Kept
    /\ Mesh => Told

\* What is on a link was sent, over that link.
LEMMA TravelsSent ==
    ASSUME Inv, NEW n, NEW x \in Computers, NEW y \in Computers, On(n, x, y)
    PROVE  /\ n \in DOMAIN sent /\ Travels(n)
           /\ IsBroadcast(n) => sent[n].server = "*"
           /\ sent[n].server # "*" => x = sent[n].origin /\ y = sent[n].server
<1>1. PICK i \in DOMAIN queue[x][y] : queue[x][y][i].n = n
  BY DEF On, Holds
<1>2. Travels(n)
  BY DEF Travels
<1> QED BY <1>1, <1>2 DEF Inv, OnLinks

\* At the beginning nothing was sent.
LEMMA InitDelivery == Init => Delivery
<1> SUFFICES ASSUME Init PROVE Delivery
  OBVIOUS
<1>1. Inv
  BY InitInv
<1>2. DOMAIN sent = {} /\ \A y \in Computers : received[y] = {}
  BY DEF Init
<1> QED BY <1>1, <1>2 DEF Delivery, Timed, Listening, Numbered, Distinct, DirectedUnseen, SeenIsGot, Kept, Told

-----------------------------------------------------------------------------
(* The steps.                                                              *)

\* Send: the message is new; whoever it is for has it, or gets it from its origin.
LEMMA SendDelivers ==
    ASSUME Delivery, NEW req \in Inputs, Send(req)
    PROVE  Delivery'
<1>0. PICK N, c : N = Len(sent) + 1 /\ c = req.origin
  OBVIOUS
<1> DEFINE m   == [n |-> N, hops |-> 0, informed |-> {}]
           rec == [origin |-> c, service |-> req.service, server |-> req.server,
                   msgid |-> <<c, sequence[c] + 1>>, timeout |-> now + Lifetime]
<1> USE LinkAssumption, NamesAssumption, NumbersAssumption
<1>1. /\ c \in Computers
      /\ req.service \in Services \cup Wide
      /\ req.server \in Computers \cup {"*"}
  BY <1>0, InputsAssumption DEF Request
<1>2. /\ Inv /\ TypeOK /\ Len(sent) \in Nat /\ DOMAIN sent = 1 .. Len(sent) /\ N \in 1 .. MaxMessages
      /\ queue \in Queues /\ now \in Nat /\ sequence \in [Computers -> Nat]
  <2>1. Inv /\ TypeOK
    BY DEF Delivery, Inv
  <2>2. /\ sent \in Seq(Sent) /\ Len(sent) < MaxMessages /\ queue \in Queues /\ now \in Nat
        /\ sequence \in [Computers -> Nat]
    BY <2>1 DEF TypeOK, Send, Queues
  <2> QED BY <1>0, <2>1, <2>2
<1>3. m \in Message /\ m.hops = 0 /\ m.informed = {} /\ m.n = N
  BY <1>2 DEF Message
<1>4. rec \in Sent
  BY <1>1, <1>2 DEF Sent
<1>5. /\ DOMAIN sent' = 1 .. N
      /\ \A n \in DOMAIN sent : n \in DOMAIN sent' /\ sent'[n] = sent[n] /\ n # N
      /\ \A n \in DOMAIN sent' : n \in DOMAIN sent \/ n = N
      /\ N \in DOMAIN sent' /\ sent'[N] = rec /\ N \notin DOMAIN sent
  <2>1. sent \in Seq(Sent) /\ sent' = Append(sent, rec)
    BY <1>0, <1>2 DEF Send, TypeOK
  <2> HIDE DEF rec
  <2> QED BY <1>0, <1>2, <1>4, <2>1
<1>6. process_message(c, m, req, queue)
  BY <1>0 DEF Send
<1>7. PICK T, S, K : Effect(c, m, req, queue, T, S, K) /\ Reach(c, m, req, T, S, K)
  BY <1>1, <1>2, <1>3, <1>6, ProcessEffect
<1>8. UNCHANGED <<now, registered, understood>>
  BY DEF Send
<1>9. /\ rec.origin = c /\ rec.service = req.service /\ rec.server = req.server
      /\ rec.msgid[1] = c /\ rec.msgid[2] = sequence[c] + 1 /\ rec.timeout = now + Lifetime
  OBVIOUS
<1>10. Inv'
  BY <1>2, SendKeeps
<1>11. listeners' = [listeners EXCEPT ![N] = Understanding]
  BY <1>0 DEF Send
<1> HIDE DEF m, rec
<1>12. T \in SUBSET Computers /\ c \notin T
  BY <1>1, <1>7 DEF Effect, Uninformed
<1>13. /\ Deals(c, N, T, S, K)
       /\ \A n : \A x, y \in Computers : On(n, x, y)' <=> On(n, x, y) \/ (n = N /\ x = c /\ y \in T)
  <2>1. /\ Deals(c, m.n, T, S, K)
        /\ \A n : \A x, y \in Computers :
              On(n, x, y)' <=> Holds(queue[x][y], n) \/ (n = m.n /\ x = c /\ y \in T)
    BY <1>1, <1>2, <1>3, <1>7, <1>12, EffectDeals
  <2> QED BY <1>3, <2>1 DEF On
<1>14. /\ \A n \in DOMAIN sent : Travels(n)' => Travels(n)
       /\ Travels(N)' => T # {}
  <2>1. \A x, y \in Computers : ~On(N, x, y)
    BY <1>2, <1>5, TravelsSent
  <2> QED BY <1>5, <1>13, <2>1 DEF Travels
<1>15. /\ \A d \in Computers : \A r \in received'[d] : r \in received[d]
       /\ \A d \in Computers : sequence'[d] = IF d = c /\ T # {} THEN sequence[d] + 1 ELSE sequence[d]
       /\ \A d \in Computers : sequence[d] <= sequence'[d]
  BY <1>1, <1>2, <1>3, <1>7 DEF Reach
<1>16. \A n \in DOMAIN sent : /\ listeners'[n] = listeners[n]
                              /\ IsBroadcast(n)' <=> IsBroadcast(n)
                              /\ Scope(n)' = Scope(n)
                              /\ Valid(n)' <=> Valid(n)
                              /\ Awaited(n)' <=> Awaited(n)
  <2>1. \A n \in DOMAIN sent : listeners'[n] = listeners[n]
    BY <1>2, <1>5, <1>11 DEF TypeOK
  <2>2. \A n \in DOMAIN sent : (IsBroadcast(n)' <=> IsBroadcast(n)) /\ Scope(n)' = Scope(n)
    BY <1>5 DEF IsBroadcast, Scope
  <2>3. \A n \in DOMAIN sent : (Valid(n)' <=> Valid(n)) /\ (Awaited(n)' <=> Awaited(n))
    BY <1>5, <1>8, <2>2 DEF Valid, Awaited
  <2> QED BY <2>1, <2>2, <2>3
<1>17. listeners'[N] = Understanding /\ Understanding' = Understanding
  BY <1>2, <1>8, <1>11 DEF TypeOK, Understanding
<1>18. Timed'
  <2>1. \A n \in DOMAIN sent : sent[n].timeout <= now + Lifetime
    BY DEF Delivery, Timed
  <2>2. now + Lifetime <= now + Lifetime
    BY <1>2
  <2> QED BY <1>5, <1>8, <1>9, <2>1, <2>2 DEF Timed
<1>19. Listening'
  BY <1>5, <1>16, <1>17 DEF Delivery, Listening
<1>20. \A n \in DOMAIN sent : sent[n].msgid \in Computers \X Nat /\ sent[n].msgid[1] \in Computers /\ sent[n].msgid[2] \in Nat
  BY <1>2, SentTyped
<1>21. \A y \in Computers : \A r \in received[y] :
          r.msgid[1] \in Computers /\ r.msgid[2] \in Nat /\ r.msgid[2] <= sequence[r.msgid[1]]
  BY <1>2 DEF Delivery, Numbered, TypeOK
<1>22. Numbered'
  <2>1. ASSUME NEW n \in DOMAIN sent', Travels(n)' PROVE sent'[n].msgid[2] <= sequence'[sent'[n].msgid[1]]
    <3>1. CASE n \in DOMAIN sent
      <4>1. Travels(n) /\ sent'[n] = sent[n]
        BY <1>5, <1>14, <2>1, <3>1
      <4>2. sent[n].msgid[2] <= sequence[sent[n].msgid[1]]
        BY <3>1, <4>1 DEF Delivery, Numbered
      <4>3. PICK a, k : a = sent[n].msgid[1] /\ k = sent[n].msgid[2]
        OBVIOUS
      <4>4. a \in Computers /\ k \in Nat /\ k <= sequence[a]
        BY <1>20, <3>1, <4>2, <4>3
      <4>5. sequence[a] \in Nat /\ sequence'[a] \in Nat /\ sequence[a] <= sequence'[a]
        BY <1>2, <1>7, <1>15, <4>4 DEF Effect
      <4>6. k <= sequence'[a]
        BY <4>4, <4>5
      <4> QED BY <4>1, <4>3, <4>6
    <3>2. CASE n = N
      <4>1. sequence'[c] = sequence[c] + 1
        BY <1>1, <1>14, <1>15, <2>1, <3>2
      <4> QED BY <1>1, <1>2, <1>5, <1>9, <3>2, <4>1
    <3> QED BY <1>5, <3>1, <3>2
  <2>2. ASSUME NEW y \in Computers, NEW r \in received'[y] PROVE r.msgid[2] <= sequence'[r.msgid[1]]
    <3>1. PICK a, k : a = r.msgid[1] /\ k = r.msgid[2]
      OBVIOUS
    <3>2. a \in Computers /\ k \in Nat /\ k <= sequence[a]
      BY <1>15, <1>21, <3>1
    <3>3. sequence[a] \in Nat /\ sequence'[a] \in Nat /\ sequence[a] <= sequence'[a]
      BY <1>2, <1>7, <1>15, <3>2 DEF Effect
    <3>4. k <= sequence'[a]
      BY <3>2, <3>3
    <3> QED BY <3>1, <3>4
  <2> QED BY <2>1, <2>2 DEF Numbered
<1>23. \A n \in DOMAIN sent : Travels(n) => sent[n].msgid # rec.msgid
  <2>1. ASSUME NEW n \in DOMAIN sent, Travels(n), sent[n].msgid = rec.msgid PROVE FALSE
    <3>1. sent[n].msgid[2] <= sequence[sent[n].msgid[1]]
      BY <2>1 DEF Delivery, Numbered
    <3>2. sequence[c] + 1 <= sequence[c]
      BY <1>9, <2>1, <3>1
    <3> QED BY <1>1, <1>2, <3>2
  <2> QED BY <2>1
<1>24. \A y \in Computers : \A r \in received[y] : r.msgid # rec.msgid
  <2>1. ASSUME NEW y \in Computers, NEW r \in received[y], r.msgid = rec.msgid PROVE FALSE
    <3>1. sequence[c] + 1 <= sequence[c]
      BY <1>9, <1>21, <2>1
    <3> QED BY <1>1, <1>2, <3>1
  <2> QED BY <2>1
<1>25. Distinct'
  <2>1. \A n, k \in DOMAIN sent : Travels(n) /\ Travels(k) /\ sent[n].msgid = sent[k].msgid => n = k
    BY DEF Delivery, Distinct
  <2> QED BY <1>5, <1>14, <1>23, <2>1 DEF Distinct
<1>26. DirectedUnseen'
  <2>1. \A n \in DOMAIN sent : Travels(n) /\ sent[n].server # "*"
          => \A y \in Computers : \A r \in received[y] : r.msgid # sent[n].msgid
    BY DEF Delivery, DirectedUnseen
  <2> QED BY <1>5, <1>14, <1>15, <1>24, <2>1 DEF DirectedUnseen
<1>27. \A n \in DOMAIN sent : \A p \in listeners[n] : p[1] \in Computers /\ p[2] \in Services
  <2>1. \A n \in DOMAIN sent : \A p \in listeners[n] : p \in Computers \X Services
    BY DEF Delivery, Listening, Understanding
  <2> QED BY <2>1
<1>28. \A p \in Understanding : p[1] \in Computers /\ p[2] \in Services /\ p[2] \in understood[p[1]]
  BY DEF Understanding
<1>29. \A n, d, s : d \in Computers /\ s \in Services /\ Got(d, s, n) => Got(d, s, n)'
  BY <1>13 DEF Deals
<1>30. SeenIsGot'
  <2>1. ASSUME NEW n \in DOMAIN sent', Travels(n)', IsBroadcast(n)', NEW p \in listeners'[n],
               NEW r \in received'[p[1]], r.msgid = sent'[n].msgid
        PROVE  Got(p[1], p[2], n)'
    <3>1. CASE n \in DOMAIN sent
      <4>1. p \in listeners[n] /\ p[1] \in Computers /\ p[2] \in Services
        BY <1>16, <1>27, <2>1, <3>1
      <4>2. Travels(n) /\ IsBroadcast(n) /\ r \in received[p[1]] /\ r.msgid = sent[n].msgid
        BY <1>5, <1>14, <1>15, <1>16, <2>1, <3>1, <4>1
      <4>3. Got(p[1], p[2], n)
        BY <3>1, <4>1, <4>2 DEF Delivery, SeenIsGot
      <4> QED BY <1>29, <4>1, <4>3
    <3>2. CASE n = N
      <4>1. p[1] \in Computers
        BY <1>17, <1>28, <2>1, <3>2
      <4> QED BY <1>5, <1>15, <1>24, <2>1, <3>2, <4>1
    <3> QED BY <1>5, <3>1, <3>2
  <2> QED BY <2>1 DEF SeenIsGot
<1>31. Kept'
  <2>1. ASSUME NEW n \in DOMAIN sent', Awaited(n)', NEW d, NEW s, NEW o,
               d = sent'[n].server, s = sent'[n].service, o = sent'[n].origin
        PROVE  Got(d, s, n)' \/ Cached(n, d)' \/ On(n, o, d)'
    <3>1. CASE n \in DOMAIN sent
      <4>1. Awaited(n) /\ sent'[n] = sent[n]
        BY <1>5, <1>16, <2>1, <3>1
      <4>2. d = sent[n].server /\ s = sent[n].service /\ o = sent[n].origin
        BY <2>1, <4>1
      <4>3. d \in Computers /\ s \in Services /\ o \in Computers
        BY <1>2, <3>1, <4>1, <4>2, SentTyped DEF Awaited
      <4>4. Got(d, s, n) \/ Cached(n, d) \/ On(n, o, d)
        BY <3>1, <4>1, <4>2 DEF Delivery, Kept
      <4>5. Cached(n, d) => Cached(n, d)'
        BY <1>13, <4>1, <4>3 DEF Deals, Cached
      <4> QED BY <1>13, <1>29, <4>3, <4>4, <4>5
    <3>2. CASE n = N
      <4>1. sent'[n] = rec
        BY <1>5, <3>2
      <4>2. d = req.server /\ s = req.service /\ o = c
        BY <1>9, <2>1, <4>1
      <4>3. d \in Computers /\ s \in Services /\ s \in Expected[d] /\ (d = c \/ d \in Link[c])
        BY <1>9, <2>1, <4>1, <4>2 DEF Awaited
      <4>4. CASE d = c
        <5>1. s \in S \/ K
          BY <1>7, <4>2, <4>3, <4>4 DEF Reach
        <5>2. s \in S => Got(d, s, N)'
          BY <1>13, <4>3, <4>4 DEF Deals
        <5>3. ASSUME K PROVE Cached(N, d)'
          <6>1. PICK j \in DOMAIN cache'[c] : cache'[c][j].n = N /\ cache'[c][j].timeout = now + Ttl
            BY <1>13, <5>3 DEF Deals
          <6>2. sent'[N].timeout + Ttl <= cache'[c][j].timeout + Lifetime
            BY <1>2, <1>5, <1>9, <6>1
          <6> QED BY <4>4, <6>1, <6>2 DEF Cached
        <5> QED BY <3>2, <5>1, <5>2, <5>3
      <4>5. CASE d # c
        <5>1. d \in T
          BY <1>3, <1>7, <4>2, <4>3, <4>5 DEF Reach, Uninformed
        <5> QED BY <1>1, <1>13, <3>2, <4>2, <4>3, <5>1
      <4> QED BY <4>4, <4>5
    <3> QED BY <1>5, <3>1, <3>2
  <2> QED BY <2>1 DEF Kept
<1>32. ASSUME Mesh PROVE Told'
  <2>1. ASSUME NEW n \in DOMAIN sent', Valid(n)', NEW p \in listeners'[n], p[1] \in Scope(n)',
               NEW o, o = sent'[n].origin
        PROVE  Got(p[1], p[2], n)' \/ On(n, o, p[1])'
    <3>1. CASE n \in DOMAIN sent
      <4>1. /\ p \in listeners[n] /\ p[1] \in Computers /\ p[2] \in Services
            /\ Valid(n) /\ p[1] \in Scope(n) /\ sent'[n] = sent[n]
        BY <1>5, <1>16, <1>27, <2>1, <3>1
      <4>2. o \in Computers /\ o = sent[n].origin
        BY <1>2, <2>1, <3>1, <4>1, SentTyped
      <4>3. Got(p[1], p[2], n) \/ On(n, o, p[1])
        BY <1>32, <3>1, <4>1, <4>2 DEF Delivery, Told
      <4> QED BY <1>13, <1>29, <4>1, <4>2, <4>3
    <3>2. CASE n = N
      <4>1. sent'[n] = rec /\ p \in Understanding
        BY <1>5, <1>17, <2>1, <3>2
      <4>2. PICK d, s : d = p[1] /\ s = p[2]
        OBVIOUS
      <4>3. d \in Computers /\ s \in Services /\ s \in understood[d]
        BY <1>28, <4>1, <4>2
      <4>4. req.service \in Wide /\ req.server = "*"
        BY <1>9, <2>1, <4>1 DEF Valid, IsBroadcast
      <4>5. CASE d = c
        <5>1. s \in S
          BY <1>7, <4>3, <4>4, <4>5 DEF Reach
        <5>2. Got(d, s, N)'
          BY <1>13, <4>3, <4>5, <5>1 DEF Deals
        <5> QED BY <3>2, <4>2, <5>2
      <4>6. CASE d # c
        <5>1. d \in Uninformed(c, m)
          BY <1>1, <1>3, <1>32, <4>3, <4>6 DEF Mesh, Uninformed
        <5>2. req.service = "*" \/ (req.service = "?" /\ Site[d] = Site[c])
          <6>1. d \in Scope(n)'
            BY <2>1, <4>2
          <6> QED BY <1>9, <4>1, <4>6, <6>1 DEF Scope
        <5>3. d \in T
          <6>1. {y \in Uninformed(c, m) : \/ req.service = "*"
                                          \/ req.service = "?" /\ Site[y] = Site[c]} \subseteq T
            BY <1>3, <1>7, <4>4 DEF Reach
          <6> QED BY <5>1, <5>2, <6>1
        <5>4. On(N, c, d)'
          BY <1>1, <1>13, <4>3, <5>3
        <5> QED BY <1>9, <2>1, <3>2, <4>1, <4>2, <5>4
      <4> QED BY <4>5, <4>6
    <3> QED BY <1>5, <3>1, <3>2
  <2> QED BY <2>1 DEF Told
<1>33. Mesh' <=> Mesh
  BY DEF Mesh
<1> QED BY <1>10, <1>18, <1>19, <1>22, <1>25, <1>26, <1>30, <1>31, <1>32, <1>33 DEF Delivery

\* Receive: what is taken from the link is delivered, cached, or a duplicate of
\* what was delivered; nothing else changes its place.
LEMMA ReceiveDelivers ==
    ASSUME Delivery, NEW x \in Computers, NEW c \in Computers, Receive(x, c)
    PROVE  Delivery'
<1> USE LinkAssumption, NamesAssumption, NumbersAssumption
<1>0. PICK m, rest, N : m = Head(queue[x][c]) /\ rest = Rest(x, c) /\ N = m.n
  OBVIOUS
<1>1. PICK req : req = sent[N]
  OBVIOUS
<1>2. /\ Inv /\ TypeOK /\ queue \in Queues /\ queue[x][c] # <<>> /\ queue[x][c] \in Seq(Message)
      /\ now \in Nat /\ sequence \in [Computers -> Nat]
  <2>1. Inv /\ TypeOK /\ queue[x][c] # <<>>
    BY DEF Delivery, Inv, Receive
  <2>2. queue \in Queues /\ now \in Nat /\ sequence \in [Computers -> Nat]
    BY <2>1 DEF TypeOK, Queues
  <2>3. queue[x][c] \in Seq(Message)
    BY <2>2 DEF Queues
  <2> QED BY <2>1, <2>2, <2>3
<1>3. m \in Message /\ On(N, x, c)
  <2>1. m \in Message /\ 1 \in DOMAIN queue[x][c] /\ m = queue[x][c][1]
    BY <1>0, <1>2
  <2> QED BY <1>0, <2>1 DEF On, Holds
<1>4. /\ N \in DOMAIN sent /\ Travels(N)
      /\ IsBroadcast(N) => sent[N].server = "*"
      /\ sent[N].server # "*" => x = sent[N].origin /\ c = sent[N].server
  BY <1>2, <1>3, TravelsSent
<1>5. /\ req.service \in Services \cup Wide /\ req.server \in Computers \cup {"*"}
      /\ req.msgid[1] \in Computers /\ req.msgid[2] \in Nat /\ req.timeout \in Nat
  BY <1>1, <1>2, <1>4, SentTyped
<1>6. /\ rest \in Queues
      /\ \A n : \A u, y \in Computers :
            /\ Holds(rest[u][y], n) => On(n, u, y)
            /\ On(n, u, y) => Holds(rest[u][y], n) \/ (u = x /\ y = c /\ n = N)
  <2>1. rest \in Queues
    BY <1>0, <1>2, RestElements
  <2> QED BY <1>0, <1>2, <2>1, RestHolds
<1>7. UNCHANGED <<now, registered, understood, sent, listeners>>
  BY DEF Receive
<1> DEFINE Taken == StillValid(req.timeout) /\ ~Seen(c, req.msgid)
<1>8. PICK T, S, K : /\ Effect(c, m, req, rest, T, S, K)
                     /\ Taken => Reach(c, m, req, T, S, K)
                     /\ ~Taken => UNCHANGED <<received, sequence>>
  <2>1. rest = [queue EXCEPT ![x][c] = Tail(@)]
    BY <1>0 DEF Rest
  <2>2. CASE Taken
    <3>1. process_message(c, m, req, rest)
      BY <1>0, <1>1, <2>1, <2>2 DEF Receive
    <3>2. \E T, S, K : Effect(c, m, req, rest, T, S, K) /\ Reach(c, m, req, T, S, K)
      BY <1>0, <1>2, <1>3, <1>4, <1>5, <1>6, <3>1, ProcessEffect
    <3> QED BY <2>2, <3>2
  <2>3. CASE ~Taken
    <3>1. queue' = rest /\ UNCHANGED <<received, sequence, cache, delivered>>
      BY <1>0, <1>1, <2>1, <2>3 DEF Receive
    <3>2. Effect(c, m, req, rest, {}, {}, FALSE)
      BY <1>2, <1>6, <3>1 DEF Effect, TypeOK, Entries, Marks
    <3> QED BY <2>3, <3>1, <3>2
  <2> QED BY <2>2, <2>3
<1>9. Inv'
  BY <1>2, ReceiveKeeps
<1>10. T \in SUBSET Computers
  BY <1>8 DEF Effect, Uninformed
<1>11. /\ Deals(c, N, T, S, K)
       /\ \A n : \A u, y \in Computers : On(n, u, y)' <=> Holds(rest[u][y], n) \/ (n = N /\ u = c /\ y \in T)
  <2>1. /\ Deals(c, m.n, T, S, K)
        /\ \A n : \A u, y \in Computers :
              On(n, u, y)' <=> Holds(rest[u][y], n) \/ (n = m.n /\ u = c /\ y \in T)
    BY <1>2, <1>3, <1>6, <1>8, <1>10, EffectDeals
  <2> QED BY <1>0, <2>1
<1>12. /\ \A n, u, y : u \in Computers /\ y \in Computers /\ On(n, u, y)' => Travels(n)
       /\ \A n : Travels(n)' => Travels(n)
       /\ \A n, u, y : u \in Computers /\ y \in Computers /\ On(n, u, y)
                          => On(n, u, y)' \/ (u = x /\ y = c /\ n = N)
  BY <1>4, <1>6, <1>11 DEF Travels
<1>13. /\ \A d \in Computers : sequence[d] \in Nat /\ sequence'[d] \in Nat /\ sequence[d] <= sequence'[d]
       /\ \A d \in Computers : \A r \in received'[d] :
             \/ r \in received[d]
             \/ /\ d = c /\ r = Mark(N) /\ Taken
                /\ req.service \in Services => req.server # c
                /\ req.service \in Wide => understood[c] \subseteq S
  <2>1. CASE Taken
    <3>1. \A d \in Computers : sequence'[d] = IF d = c /\ T # {} THEN sequence[d] + 1 ELSE sequence[d]
      BY <1>8, <2>1 DEF Reach
    <3>2. \A d \in Computers : sequence[d] \in Nat /\ sequence'[d] \in Nat /\ sequence[d] <= sequence'[d]
      BY <1>2, <3>1
    <3> HIDE DEF Taken
    <3> QED BY <1>0, <1>8, <2>1, <3>2 DEF Reach
  <2>2. CASE ~Taken
    <3> HIDE DEF Taken
    <3> QED BY <1>2, <1>8, <2>2
  <2> QED BY <2>1, <2>2
<1>14. \A n : /\ IsBroadcast(n)' <=> IsBroadcast(n)
              /\ Scope(n)' = Scope(n)
              /\ Valid(n)' <=> Valid(n)
              /\ Awaited(n)' <=> Awaited(n)
  BY <1>7 DEF IsBroadcast, Scope, Valid, Awaited
<1>15. Timed' /\ Listening'
  BY <1>7 DEF Delivery, Timed, Listening, Understanding
<1>16. Mark(N).msgid = req.msgid
  BY <1>1 DEF Mark
<1>17. \A n \in DOMAIN sent : Travels(n) => sent[n].msgid[2] <= sequence[sent[n].msgid[1]]
  BY DEF Delivery, Numbered
<1>18. Numbered'
  <2>1. ASSUME NEW n \in DOMAIN sent, Travels(n)' PROVE sent[n].msgid[2] <= sequence'[sent[n].msgid[1]]
    <3>1. PICK a, k : a = sent[n].msgid[1] /\ k = sent[n].msgid[2]
      OBVIOUS
    <3>2. a \in Computers /\ k \in Nat
      BY <1>2, <3>1, SentTyped
    <3>3. k <= sequence[a]
      BY <1>12, <1>17, <2>1, <3>1
    <3>4. k <= sequence'[a]
      BY <1>13, <3>2, <3>3
    <3> QED BY <3>1, <3>4
  <2>2. ASSUME NEW y \in Computers, NEW r \in received'[y] PROVE r.msgid[2] <= sequence'[r.msgid[1]]
    <3>1. PICK a, k : a = r.msgid[1] /\ k = r.msgid[2]
      OBVIOUS
    <3>2. a \in Computers /\ k \in Nat /\ k <= sequence[a]
      <4>1. CASE r \in received[y]
        <5>1. r \in Marks
          BY <1>2, <4>1 DEF TypeOK, Marks
        <5>2. r.msgid[2] <= sequence[r.msgid[1]]
          BY <4>1 DEF Delivery, Numbered
        <5> QED BY <3>1, <5>1, <5>2 DEF Marks
      <4>2. CASE r = Mark(N)
        BY <1>1, <1>4, <1>5, <1>16, <1>17, <3>1, <4>2
      <4> QED BY <1>13, <4>1, <4>2
    <3>3. k <= sequence'[a]
      BY <1>13, <3>2
    <3> QED BY <3>1, <3>3
  <2> QED BY <1>7, <2>1, <2>2 DEF Numbered
<1>19. \A n \in DOMAIN sent : Travels(n) /\ sent[n].msgid = req.msgid => n = N
  BY <1>1, <1>4 DEF Delivery, Distinct
<1>20. Distinct'
  <2>1. \A n, k \in DOMAIN sent : Travels(n) /\ Travels(k) /\ sent[n].msgid = sent[k].msgid => n = k
    BY DEF Delivery, Distinct
  <2> QED BY <1>7, <1>12, <2>1 DEF Distinct
<1>21. \A n \in DOMAIN sent : Travels(n) /\ sent[n].server # "*"
          => \A y \in Computers : \A r \in received[y] : r.msgid # sent[n].msgid
  BY DEF Delivery, DirectedUnseen
<1>22. DirectedUnseen'
  <2>1. ASSUME NEW n \in DOMAIN sent, Travels(n)', sent[n].server # "*",
               NEW y \in Computers, NEW r \in received'[y], r.msgid = sent[n].msgid
        PROVE  FALSE
    <3>1. Travels(n)
      BY <1>12, <2>1
    <3>2. CASE r \in received[y]
      BY <1>21, <2>1, <3>1, <3>2
    <3>3. CASE r = Mark(N) /\ (req.service \in Services => req.server # c)
      <4>1. n = N
        BY <1>16, <1>19, <2>1, <3>1, <3>3
      <4>2. req.server # "*" /\ req.server = c /\ req.service \notin Wide
        BY <1>1, <1>4, <2>1, <4>1 DEF IsBroadcast
      <4> QED BY <1>5, <3>3, <4>2
    <3> QED BY <1>13, <3>2, <3>3
  <2> QED BY <1>7, <2>1 DEF DirectedUnseen
<1>23. \A n \in DOMAIN sent : \A p \in listeners[n] :
          p[1] \in Computers /\ p[2] \in Services /\ p[2] \in understood[p[1]]
  <2>1. \A n \in DOMAIN sent : \A p \in listeners[n] : p \in Computers \X Services /\ p[2] \in understood[p[1]]
    BY DEF Delivery, Listening, Understanding
  <2> QED BY <2>1
<1>24. \A n, d, s : d \in Computers /\ s \in Services /\ Got(d, s, n) => Got(d, s, n)'
  BY <1>11 DEF Deals
<1>25. \A s \in S : s \in Services => Got(c, s, N)'
  BY <1>11 DEF Deals
<1>26. \A n \in DOMAIN sent : Travels(n) /\ IsBroadcast(n)
          => \A p \in listeners[n] : (\E r \in received[p[1]] : r.msgid = sent[n].msgid) => Got(p[1], p[2], n)
  BY DEF Delivery, SeenIsGot
<1>27. SeenIsGot'
  <2>1. ASSUME NEW n \in DOMAIN sent, Travels(n)', IsBroadcast(n), NEW p \in listeners[n],
               NEW r \in received'[p[1]], r.msgid = sent[n].msgid
        PROVE  Got(p[1], p[2], n)'
    <3>1. p[1] \in Computers /\ p[2] \in Services /\ p[2] \in understood[p[1]] /\ Travels(n)
      BY <1>12, <1>23, <2>1
    <3>2. CASE r \in received[p[1]]
      BY <1>24, <1>26, <2>1, <3>1, <3>2
    <3>3. CASE p[1] = c /\ r = Mark(N) /\ (req.service \in Wide => understood[c] \subseteq S)
      <4>1. n = N
        BY <1>16, <1>19, <2>1, <3>1, <3>3
      <4>2. req.service \in Wide
        BY <1>1, <2>1, <4>1 DEF IsBroadcast
      <4> QED BY <1>25, <3>1, <3>3, <4>1, <4>2
    <3> QED BY <1>13, <3>1, <3>2, <3>3
  <2> QED BY <1>7, <1>14, <2>1 DEF SeenIsGot
<1>28. Kept'
  <2>1. ASSUME NEW n \in DOMAIN sent, Awaited(n), NEW d, NEW s, NEW o,
               d = sent[n].server, s = sent[n].service, o = sent[n].origin
        PROVE  Got(d, s, n)' \/ Cached(n, d)' \/ On(n, o, d)'
    <3>1. d \in Computers /\ s \in Services /\ o \in Computers
      BY <1>2, <2>1, SentTyped DEF Awaited
    <3>2. Got(d, s, n) \/ Cached(n, d) \/ On(n, o, d)
      BY <2>1 DEF Delivery, Kept
    <3>3. Cached(n, d) => Cached(n, d)'
      BY <1>7, <1>11, <3>1 DEF Deals, Cached
    <3>4. CASE On(n, o, d) /\ ~On(n, o, d)'
      <4>1. o = x /\ d = c /\ n = N
        BY <1>12, <3>1, <3>4
      <4>2. d = req.server /\ s = req.service /\ d # "*"
        BY <1>1, <2>1, <3>1, <4>1 DEF Wide
      <4>3. Taken
        <5>1. StillValid(req.timeout)
          BY <1>1, <2>1, <4>1 DEF Awaited, StillValid
        <5>2. ~Seen(c, req.msgid)
          BY <1>1, <1>4, <1>21, <4>1, <4>2 DEF Seen
        <5> QED BY <5>1, <5>2
      <4>4. s \in Expected[c] /\ sent[N].timeout <= now + Lifetime
        BY <1>4, <2>1, <4>1 DEF Awaited, Delivery, Timed
      <4>5. s \in S \/ K
        <5> HIDE DEF Taken
        <5> QED BY <1>8, <4>1, <4>2, <4>3, <4>4 DEF Reach
      <4>6. ASSUME K PROVE Cached(N, c)'
        <5>1. PICK j \in DOMAIN cache'[c] : cache'[c][j].n = N /\ cache'[c][j].timeout = now + Ttl
          BY <1>11, <4>6 DEF Deals
        <5>2. sent'[N].timeout + Ttl <= cache'[c][j].timeout + Lifetime
          BY <1>1, <1>2, <1>5, <1>7, <4>4, <5>1
        <5> QED BY <5>1, <5>2 DEF Cached
      <4> QED BY <1>25, <3>1, <4>1, <4>5, <4>6
    <3> QED BY <1>24, <3>1, <3>2, <3>3, <3>4
  <2> QED BY <1>7, <1>14, <2>1 DEF Kept
<1>29. ASSUME Mesh PROVE Told'
  <2>1. ASSUME NEW n \in DOMAIN sent, Valid(n), NEW p \in listeners[n], p[1] \in Scope(n),
               NEW o, o = sent[n].origin
        PROVE  Got(p[1], p[2], n)' \/ On(n, o, p[1])'
    <3>1. p[1] \in Computers /\ p[2] \in Services /\ p[2] \in understood[p[1]] /\ o \in Computers
      BY <1>2, <1>23, <2>1, SentTyped
    <3>2. Got(p[1], p[2], n) \/ On(n, o, p[1])
      BY <1>29, <2>1 DEF Delivery, Told
    <3>3. CASE On(n, o, p[1]) /\ ~On(n, o, p[1])'
      <4>1. o = x /\ p[1] = c /\ n = N
        BY <1>12, <3>1, <3>3
      <4>2. req.service \in Wide /\ req.server = "*" /\ StillValid(req.timeout)
        BY <1>1, <2>1, <4>1 DEF Valid, IsBroadcast, StillValid
      <4>3. CASE Taken
        <5>1. understood[c] \subseteq S
          <6> HIDE DEF Taken
          <6> QED BY <1>8, <4>2, <4>3 DEF Reach
        <5> QED BY <1>25, <3>1, <4>1, <5>1
      <4>4. CASE ~Taken
        <5>1. \E r \in received[p[1]] : r.msgid = sent[n].msgid
          BY <1>1, <4>1, <4>2, <4>4 DEF Seen
        <5>2. Got(p[1], p[2], n)
          BY <1>4, <1>26, <2>1, <4>1, <5>1 DEF Valid
        <5> QED BY <1>24, <3>1, <5>2
      <4> QED BY <4>3, <4>4
    <3> QED BY <1>24, <3>1, <3>2, <3>3
  <2> QED BY <1>7, <1>14, <2>1 DEF Told
<1>30. Mesh' <=> Mesh
  BY DEF Mesh
<1> QED BY <1>9, <1>15, <1>18, <1>20, <1>22, <1>27, <1>28, <1>29, <1>30 DEF Delivery

\* The steps that send and receive nothing: what was delivered stays delivered, and
\* what waits in the cache and is awaited stays there or is delivered.
LEMMA OthersDeliver ==
    ASSUME Delivery, Inv', UNCHANGED <<queue, received, sequence, sent>>, now <= now',
           \A n \in DOMAIN sent : listeners'[n] \subseteq listeners[n] /\ listeners'[n] \subseteq Understanding',
           \A n, d, s : d \in Computers /\ s \in Services /\ Got(d, s, n) => Got(d, s, n)',
           \A n \in DOMAIN sent : \A d, s : d = sent[n].server /\ s = sent[n].service /\ Awaited(n)' /\ Cached(n, d)
                                               => Got(d, s, n)' \/ Cached(n, d)'
    PROVE  Delivery'
<1> USE NumbersAssumption
<1>1. TypeOK /\ now \in Nat /\ now' \in Nat /\ now <= now' /\ Lifetime \in Nat /\ Ttl \in Nat
  BY DEF Delivery, Inv, TypeOK
<1>2. /\ \A n, x, y : On(n, x, y)' <=> On(n, x, y)
      /\ \A n : Travels(n)' <=> Travels(n)
      /\ \A n : IsBroadcast(n)' <=> IsBroadcast(n)
      /\ \A n : Scope(n)' = Scope(n)
  BY DEF On, Travels, IsBroadcast, Scope
<1>3. \A n \in DOMAIN sent : (Valid(n)' => Valid(n)) /\ (Awaited(n)' => Awaited(n))
  <2>1. ASSUME NEW n \in DOMAIN sent PROVE (Valid(n)' => Valid(n)) /\ (Awaited(n)' => Awaited(n))
    <3>1. PICK k : k = sent[n].timeout
      OBVIOUS
    <3>2. k \in Nat
      BY <1>1, <3>1, SentTyped
    <3>3. now' <= k => now <= k
      BY <1>1, <3>2
    <3>4. now' + Lifetime <= k + Ttl => now + Lifetime <= k + Ttl
      <4>1. PICK a, b, u, v : a = now /\ b = now' /\ u = Lifetime /\ v = Ttl
        OBVIOUS
      <4>2. a \in Nat /\ b \in Nat /\ u \in Nat /\ v \in Nat /\ a <= b
        BY <1>1, <4>1
      <4>3. b + u <= k + v => a + u <= k + v
        BY ONLY <3>2, <4>2
      <4> QED BY <4>1, <4>3
    <3> QED BY <1>2, <3>1, <3>3, <3>4 DEF Valid, Awaited
  <2> QED BY <2>1
<1>4. Timed'
  <2>1. ASSUME NEW n \in DOMAIN sent PROVE sent[n].timeout <= now' + Lifetime
    <3>1. sent[n].timeout \in Nat
      BY <1>1, SentTyped
    <3>2. sent[n].timeout <= now + Lifetime
      BY DEF Delivery, Timed
    <3> QED BY <1>1, <3>1, <3>2
  <2> QED BY <2>1 DEF Timed
<1>5. Listening'
  BY DEF Listening
<1>6. Numbered' /\ Distinct' /\ DirectedUnseen'
  BY <1>2 DEF Delivery, Numbered, Distinct, DirectedUnseen
<1>7. \A n \in DOMAIN sent : \A p \in listeners[n] : p[1] \in Computers /\ p[2] \in Services
  <2>1. \A n \in DOMAIN sent : \A p \in listeners[n] : p \in Computers \X Services
    BY DEF Delivery, Listening, Understanding
  <2> QED BY <2>1
<1>8. SeenIsGot'
  <2>1. \A n \in DOMAIN sent : Travels(n) /\ IsBroadcast(n)
          => \A p \in listeners[n] : (\E r \in received[p[1]] : r.msgid = sent[n].msgid) => Got(p[1], p[2], n)
    BY DEF Delivery, SeenIsGot
  <2>2. \A n \in DOMAIN sent : Travels(n) /\ IsBroadcast(n)
          => \A p \in listeners'[n] : (\E r \in received[p[1]] : r.msgid = sent[n].msgid) => Got(p[1], p[2], n)'
    BY <1>7, <2>1
  <2> QED BY <1>2, <2>2 DEF SeenIsGot
<1>9. Kept'
  <2>1. ASSUME NEW n \in DOMAIN sent, Awaited(n)', NEW d, NEW s, NEW o,
               d = sent[n].server, s = sent[n].service, o = sent[n].origin
        PROVE  Got(d, s, n)' \/ Cached(n, d)' \/ On(n, o, d)'
    <3>1. Awaited(n) /\ d \in Computers /\ s \in Services
      BY <1>3, <2>1 DEF Awaited
    <3>2. Got(d, s, n) \/ Cached(n, d) \/ On(n, o, d)
      BY <2>1, <3>1 DEF Delivery, Kept
    <3> QED BY <1>2, <2>1, <3>1, <3>2
  <2> QED BY <2>1 DEF Kept
<1>10. Mesh => Told'
  <2>1. ASSUME Mesh, NEW n \in DOMAIN sent, Valid(n), NEW p \in listeners'[n], p[1] \in Scope(n),
               NEW o, o = sent[n].origin
        PROVE  Got(p[1], p[2], n)' \/ On(n, o, p[1])
    <3>1. Got(p[1], p[2], n) \/ On(n, o, p[1])
      BY <2>1 DEF Delivery, Told
    <3> QED BY <1>7, <2>1, <3>1
  <2> QED BY <1>2, <1>3, <2>1 DEF Told
<1>11. Mesh' <=> Mesh
  BY DEF Mesh
<1> QED BY <1>4, <1>5, <1>6, <1>8, <1>9, <1>10, <1>11 DEF Delivery

\* The elements of two sequences are those of the one that they form.
LEMMA Concatenated ==
    ASSUME NEW E, NEW p \in Seq(E), NEW q \in Seq(E)
    PROVE  /\ \A i \in DOMAIN p : i \in DOMAIN (p \o q) /\ (p \o q)[i] = p[i]
           /\ \A i \in DOMAIN q : Len(p) + i \in DOMAIN (p \o q) /\ (p \o q)[Len(p) + i] = q[i]
  OBVIOUS

\* REGISTER: the entries of the cache that are still valid are delivered to the
\* service that registers, or stay.
LEMMA RegisterDelivers ==
    ASSUME Delivery, NEW c \in Computers, NEW s \in Services, Register(c, s)
    PROVE  Delivery'
<1> USE NumbersAssumption
<1>1. PICK all, V, valid, left, mine :
          /\ all = cache[c]
          /\ V = {i \in DOMAIN all : CacheValid(all[i].timeout)}
          /\ valid = Pick(all, V)
          /\ left = Pick(valid, DOMAIN valid \ For(valid, s))
          /\ mine = Pick(valid, For(valid, s))
  OBVIOUS
<1>2. Inv /\ Inv' /\ TypeOK
  BY RegisterKeeps DEF Delivery, Inv
<1>3. /\ all \in Seq(Entries) /\ cache \in [Computers -> Seq(Entries)] /\ now \in Nat
      /\ delivered \in [Computers -> [Services -> Seq(1 .. MaxMessages)]]
  <2>1. /\ cache \in [Computers -> Seq(Entries)] /\ now \in Nat
        /\ delivered \in [Computers -> [Services -> Seq(1 .. MaxMessages)]]
    BY <1>2 DEF TypeOK, Entries
  <2> QED BY <1>1, <2>1
<1>4. valid \in Seq(Entries) /\ \A i \in V : \E j \in DOMAIN valid : valid[j] = all[i]
  <2>1. V \subseteq DOMAIN all
    BY <1>1
  <2>2. Pick(all, V) \in Seq(Entries)
    BY <1>3, PickIsPicked, Zenon
  <2>3. \A i \in V \cap DOMAIN all : \E j \in DOMAIN Pick(all, V) : Pick(all, V)[j] = all[i]
    BY <1>3, PickIsComplete, Zenon
  <2> QED BY <1>1, <2>1, <2>2, <2>3
<1>5. mine \in Seq(Entries) /\ \A i \in DOMAIN valid : valid[i].service = s => \E j \in DOMAIN mine : mine[j] = valid[i]
  <2>1. PICK J : J = For(valid, s)
    OBVIOUS
  <2>2. mine \in Seq(Entries) /\ \A i \in J \cap DOMAIN valid : \E j \in DOMAIN mine : mine[j] = valid[i]
    <3>1. valid \in Seq(Entries)
      BY <1>4
    <3>2. Pick(valid, J) \in Seq(Entries)
      BY <3>1, PickIsPicked, Zenon
    <3>3. \A i \in J \cap DOMAIN valid : \E j \in DOMAIN Pick(valid, J) : Pick(valid, J)[j] = valid[i]
      BY ONLY <3>1, PickIsComplete, Zenon
    <3> QED BY <1>1, <2>1, <3>2, <3>3
  <2> QED BY <2>1, <2>2 DEF For
<1>6. left \in Seq(Entries) /\ \A i \in DOMAIN valid : valid[i].service # s => \E j \in DOMAIN left : left[j] = valid[i]
  <2>1. PICK J : J = DOMAIN valid \ For(valid, s)
    OBVIOUS
  <2>2. left \in Seq(Entries) /\ \A i \in J \cap DOMAIN valid : \E j \in DOMAIN left : left[j] = valid[i]
    <3>1. valid \in Seq(Entries)
      BY <1>4
    <3>2. Pick(valid, J) \in Seq(Entries)
      BY <3>1, PickIsPicked, Zenon
    <3>3. \A i \in J \cap DOMAIN valid : \E j \in DOMAIN Pick(valid, J) : Pick(valid, J)[j] = valid[i]
      BY ONLY <3>1, PickIsComplete, Zenon
    <3>4. left = Pick(valid, J)
      BY <1>1, <2>1
    <3> QED BY ONLY <3>2, <3>3, <3>4, Zenon
  <2> QED BY <2>1, <2>2 DEF For
<1>7. UNCHANGED <<now, understood, queue, received, sequence, sent, listeners>>
  BY DEF Register
<1>8. /\ cache' = [cache EXCEPT ![c] = left]
      /\ delivered' = [delivered EXCEPT ![c][s] = @ \o Numbers(mine)]
  BY <1>1 DEF Register, LeftInCache, Forwarded
<1>9. /\ Numbers(mine) \in Seq(1 .. MaxMessages)
      /\ DOMAIN Numbers(mine) = DOMAIN mine
      /\ \A i \in DOMAIN mine : Numbers(mine)[i] = mine[i].n
  <2>1. \A i \in DOMAIN mine : mine[i].n \in 1 .. MaxMessages
    <3>1. \A i \in DOMAIN mine : mine[i] \in Entries
      BY <1>5
    <3> QED BY <3>1 DEF Entries
  <2>2. DOMAIN mine = 1 .. Len(mine) /\ Len(mine) \in Nat
    BY <1>5
  <2>3. Numbers(mine) = [i \in 1 .. Len(mine) |-> mine[i].n]
    BY <2>2 DEF Numbers
  <2> QED BY <2>1, <2>2, <2>3
<1>10. PICK p, q : p = delivered[c][s] /\ q = Numbers(mine)
  OBVIOUS
<1>11. p \in Seq(1 .. MaxMessages) /\ q \in Seq(1 .. MaxMessages)
  BY <1>3, <1>9, <1>10
<1>12. /\ \A i \in DOMAIN p : i \in DOMAIN (p \o q) /\ (p \o q)[i] = p[i]
       /\ \A i \in DOMAIN q : Len(p) + i \in DOMAIN (p \o q) /\ (p \o q)[Len(p) + i] = q[i]
  <2>1. PICK E : E = 1 .. MaxMessages
    OBVIOUS
  <2>2. p \in Seq(E) /\ q \in Seq(E)
    BY <1>11, <2>1
  <2> QED BY ONLY <2>2, Concatenated
<1>13. \A d \in Computers, t \in Services :
          delivered'[d][t] = IF d = c /\ t = s THEN p \o q ELSE delivered[d][t]
  <2>1. PICK both : both = p \o q
    OBVIOUS
  <2>2. delivered' = [delivered EXCEPT ![c][s] = both]
    BY <1>8, <1>10, <2>1
  <2> QED BY <1>3, <2>1, <2>2
<1>14. \A n, d, t : d \in Computers /\ t \in Services /\ Got(d, t, n) => Got(d, t, n)'
  <2>1. ASSUME NEW n, NEW d \in Computers, NEW t \in Services, Got(d, t, n) PROVE Got(d, t, n)'
    <3>1. PICK i \in DOMAIN delivered[d][t] : delivered[d][t][i] = n
      BY <2>1 DEF Got
    <3>2. i \in DOMAIN delivered'[d][t] /\ delivered'[d][t][i] = n
      BY <1>10, <1>12, <1>13, <3>1
    <3> QED BY <3>2 DEF Got
  <2> QED BY <2>1
<1>15. \A i \in DOMAIN mine : Got(c, s, mine[i].n)'
  <2>1. \A i \in DOMAIN mine : \E j \in DOMAIN delivered'[c][s] : delivered'[c][s][j] = mine[i].n
    <3>1. delivered'[c][s] = p \o q
      BY <1>13
    <3>2. \A i \in DOMAIN mine : Len(p) + i \in DOMAIN (p \o q) /\ (p \o q)[Len(p) + i] = mine[i].n
      BY <1>9, <1>10, <1>12
    <3> QED BY <3>1, <3>2
  <2> QED BY <2>1 DEF Got
<1>16. ASSUME NEW n \in DOMAIN sent, NEW d, NEW t, d = sent[n].server, t = sent[n].service, Awaited(n)', Cached(n, d)
       PROVE  Got(d, t, n)' \/ Cached(n, d)'
  <2>1. /\ d \in Computers /\ t \in Services /\ sent[n].timeout \in Nat
        /\ now + Lifetime <= sent[n].timeout + Ttl
    BY <1>2, <1>7, <1>16, SentTyped DEF Awaited
  <2>2. PICK i \in DOMAIN cache[d] : /\ cache[d][i].n = n
                                     /\ sent[n].timeout + Ttl <= cache[d][i].timeout + Lifetime
    BY <1>16 DEF Cached
  <2>3. PICK e : e = cache[d][i]
    OBVIOUS
  <2>4. e.n = n /\ e.timeout \in Nat /\ e.service = t
    <3>1. e \in Entries
      BY <1>3, <2>1, <2>2, <2>3
    <3>2. e.service = t
      BY <1>2, <1>16, <2>1, <2>2, <2>3 DEF Inv, Waiting
    <3> QED BY <2>2, <2>3, <3>1, <3>2 DEF Entries
  <2>5. now <= e.timeout
    <3>1. PICK a, b, k : a = now /\ b = sent[n].timeout /\ k = e.timeout
      OBVIOUS
    <3>2. a \in Nat /\ b \in Nat /\ k \in Nat /\ a + Lifetime <= b + Ttl /\ b + Ttl <= k + Lifetime
      BY <1>3, <2>1, <2>2, <2>3, <2>4, <3>1
    <3>3. a <= k
      BY <3>2
    <3> QED BY <3>1, <3>3
  <2>6. (\E j \in DOMAIN cache'[d] : cache'[d][j] = e) => Cached(n, d)'
    BY <1>7, <2>2, <2>3 DEF Cached
  <2>7. CASE d # c
    <3>1. cache'[d] = cache[d]
      BY <1>3, <1>8, <2>1, <2>7
    <3> QED BY <2>2, <2>3, <2>6, <3>1
  <2>8. CASE d = c
    <3>1. i \in V
      BY <1>1, <2>2, <2>3, <2>5, <2>8 DEF CacheValid
    <3>2. PICK j \in DOMAIN valid : valid[j] = e
      BY <1>1, <1>4, <2>3, <2>8, <3>1
    <3>3. CASE t = s
      <4>1. PICK k \in DOMAIN mine : mine[k] = e
        BY <1>5, <2>4, <3>2, <3>3
      <4> QED BY <1>15, <2>4, <2>8, <3>3, <4>1
    <3>4. CASE t # s
      <4>1. PICK k \in DOMAIN left : left[k] = e
        BY <1>6, <2>4, <3>2, <3>4
      <4>2. cache'[d] = left
        BY <1>3, <1>8, <2>8
      <4> QED BY <2>6, <4>1, <4>2
    <3> QED BY <3>3, <3>4
  <2> QED BY <2>7, <2>8
<1>17. \A n \in DOMAIN sent : listeners'[n] \subseteq listeners[n] /\ listeners'[n] \subseteq Understanding'
  BY <1>7 DEF Delivery, Listening, Understanding
<1>18. now <= now'
  BY <1>3, <1>7
<1> QED BY <1>2, <1>7, <1>14, <1>16, <1>17, <1>18, OthersDeliver

\* Every step keeps the invariant.
LEMMA DeliveryKept == Delivery /\ [Next]_vars => Delivery'
<1> SUFFICES ASSUME Delivery, [Next]_vars PROVE Delivery'
  OBVIOUS
<1>0. /\ Inv' /\ TypeOK /\ now \in Nat
      /\ \A n \in DOMAIN sent : listeners[n] \subseteq Understanding
  BY InvKept DEF Delivery, Inv, TypeOK, Listening
<1>1. ASSUME NEW req \in Inputs, Send(req) PROVE Delivery'
  BY <1>1, SendDelivers
<1>2. ASSUME NEW x \in Computers, NEW c \in Computers, Receive(x, c) PROVE Delivery'
  BY <1>2, ReceiveDelivers
<1>3. ASSUME NEW c \in Computers, NEW s \in Services, Register(c, s) PROVE Delivery'
  BY <1>3, RegisterDelivers
<1>4. ASSUME UNCHANGED <<queue, received, sequence, cache, sent, delivered>>, now <= now',
             \A n \in DOMAIN sent : listeners'[n] \subseteq listeners[n] /\ listeners'[n] \subseteq Understanding'
      PROVE  Delivery'
  <2>1. \A n, d, s : d \in Computers /\ s \in Services /\ Got(d, s, n) => Got(d, s, n)'
    BY <1>4 DEF Got
  <2>2. \A n \in DOMAIN sent : \A d, s : d = sent[n].server /\ s = sent[n].service /\ Awaited(n)' /\ Cached(n, d)
                                            => Got(d, s, n)' \/ Cached(n, d)'
    BY <1>4 DEF Cached
  <2> QED BY <1>0, <1>4, <2>1, <2>2, OthersDeliver
<1>5. ASSUME NEW c \in Computers, NEW s \in Services, Commands(c, s) PROVE Delivery'
  <2>1. UNCHANGED <<queue, received, sequence, cache, sent, delivered, listeners, now>>
    BY <1>5 DEF Commands
  <2>2. Understanding \subseteq Understanding'
    <3>1. \A d \in Computers : understood[d] \subseteq understood'[d]
      BY <1>0, <1>5 DEF Commands, TypeOK
    <3> QED BY <3>1 DEF Understanding
  <2> QED BY <1>0, <1>4, <2>1, <2>2
<1>6. ASSUME NEW c \in Computers, NEW s \in Services, Unregister(c, s) PROVE Delivery'
  <2>1. UNCHANGED <<queue, received, sequence, cache, sent, delivered, now>>
    BY <1>6 DEF Unregister
  <2>2. \A n \in 1 .. MaxMessages : listeners'[n] = listeners[n] \ {<<c, s>>}
    BY <1>6 DEF Unregister
  <2>3. \A p \in Understanding : p # <<c, s>> => p \in Understanding'
    <3>1. \A d \in Computers : understood'[d] = IF d = c THEN understood[d] \ {s} ELSE understood[d]
      BY <1>0, <1>6 DEF Unregister, Forgotten, TypeOK
    <3>2. ASSUME NEW d \in Computers, NEW t \in Services, t \in understood[d], <<d, t>> # <<c, s>>
          PROVE  t \in understood'[d]
      BY <3>1, <3>2
    <3> QED BY <3>2 DEF Understanding
  <2>4. \A n \in DOMAIN sent : n \in 1 .. MaxMessages
    <3>1. sent \in Seq(Sent) /\ Len(sent) <= MaxMessages /\ MaxMessages \in Nat
      BY <1>0, NumbersAssumption DEF TypeOK
    <3> QED BY <3>1
  <2> QED BY <1>0, <1>4, <2>1, <2>2, <2>3, <2>4
<1>7. ASSUME Tick PROVE Delivery'
  <2>1. UNCHANGED <<queue, received, sequence, cache, sent, delivered, listeners, understood>> /\ now <= now'
    BY <1>0, <1>7 DEF Tick
  <2>2. Understanding' = Understanding
    BY <2>1 DEF Understanding
  <2> QED BY <1>0, <1>4, <2>1, <2>2
<1>8. ASSUME UNCHANGED vars PROVE Delivery'
  <2>1. UNCHANGED <<queue, received, sequence, cache, sent, delivered, listeners, understood>> /\ now <= now'
    BY <1>0, <1>8 DEF vars
  <2>2. Understanding' = Understanding
    BY <2>1 DEF Understanding
  <2> QED BY <1>0, <1>4, <2>1, <2>2
<1> QED BY <1>1, <1>2, <1>3, <1>5, <1>6, <1>7, <1>8 DEF Next

\* It always holds.
LEMMA DeliveryHolds == Spec => []Delivery
  BY InitDelivery, DeliveryKept, PTL DEF Spec

\* When nothing is on its way, no link holds a message.
LEMMA QuietHolds ==
    ASSUME Quiet, NEW n, NEW x \in Computers, NEW y \in Computers
    PROVE  ~On(n, x, y)
<1>1. queue[x][y] = <<>>
  BY DEF Quiet
<1> QED BY <1>1 DEF On, Holds

-----------------------------------------------------------------------------

\* process_message() and REGISTER: whatever the services do, a message to a service
\* that is expected on a neighbor, or at home, is in the cache or was delivered when
\* no link holds anything, for as long as the cache keeps it; it is never dropped as
\* a duplicate.
THEOREM ExpectedAreKept == Spec => []ExpectedIsKept
<1>1. Delivery => ExpectedIsKept
  <2> SUFFICES ASSUME Delivery, Quiet, NEW n \in DOMAIN sent, Awaited(n)
               PROVE  \/ Got(sent[n].server, sent[n].service, n)
                      \/ \E i \in DOMAIN cache[sent[n].server] : cache[sent[n].server][i].n = n
    BY DEF ExpectedIsKept, Awaited
  <2>1. sent[n].server \in Computers /\ sent[n].origin \in Computers
    BY SentTyped DEF Delivery, Inv, Awaited
  <2>2. ~On(n, sent[n].origin, sent[n].server)
    BY <2>1, QuietHolds
  <2>3. Got(sent[n].server, sent[n].service, n) \/ Cached(n, sent[n].server)
    BY <2>2 DEF Delivery, Kept
  <2> QED BY <2>3 DEF Cached
<1> QED BY <1>1, DeliveryHolds, PTL

\* broadcast_message(): in a cluster of any size whose computers all have a link with
\* each other, every service that understood a broadcast when it was sent, and still
\* does, has got it when no link holds anything and it is not late, although each
\* computer leaves out the informed neighbors and what it takes for a duplicate.
THEOREM AllAreTold ==
    ASSUME \A c \in Computers : Link[c] = Computers \ {c}
    PROVE  Spec => []EveryoneTold
<1>1. Mesh
  BY DEF Mesh
<1>2. Delivery => EveryoneTold
  <2> SUFFICES ASSUME Delivery, Quiet, NEW n \in DOMAIN sent, Valid(n), NEW p \in listeners[n], p[1] \in Scope(n)
               PROVE  Got(p[1], p[2], n)
    BY DEF EveryoneTold, Valid
  <2>1. p[1] \in Computers /\ sent[n].origin \in Computers
    BY SentTyped DEF Delivery, Inv, Scope
  <2>2. ~On(n, sent[n].origin, p[1])
    BY <2>1, QuietHolds
  <2> QED BY <1>1, <2>2 DEF Delivery, Told
<1> QED BY <1>2, DeliveryHolds, PTL

=============================================================================
