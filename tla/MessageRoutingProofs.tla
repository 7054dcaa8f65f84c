------------------------ MODULE MessageRoutingProofs ------------------------
(***************************************************************************)
(* The invariants of MessageRouting for any cluster: any links, sites,     *)
(* services, inputs and bounds.                                            *)
(*                                                                         *)
(* Inv is the inductive invariant.  One lemma per step shows that it is    *)
(* kept; what process_message() may do is summed up in Effect first, so    *)
(* that Send and Receive do not go through its branches again.             *)
(***************************************************************************)
EXTENDS MessageRouting, WellFoundedInduction, TLAPS

-----------------------------------------------------------------------------
(* What Pick selects.                                                      *)

\* The least-number principle, from the well-foundedness of <.
LEMMA LeastNumber ==
    ASSUME NEW T, T \subseteq Nat, T # {}
    PROVE  \E n \in T : \A m \in T : n <= m
<1>1. IsWellFoundedOn({p \in Nat \X Nat : p[1] < p[2]}, Nat)
  BY NatLessThanWellFounded DEF OpToRel
<1>2. \E x \in T : \A y \in T : <<y, x>> \notin {p \in Nat \X Nat : p[1] < p[2]}
  BY <1>1, WFMin, Zenon
<1>3. PICK x \in T : \A y \in T : <<y, x>> \notin {p \in Nat \X Nat : p[1] < p[2]}
  BY <1>2
<1>4. ASSUME NEW y \in T PROVE x <= y
  <2>1. x \in Nat /\ y \in Nat /\ <<y, x>> \in Nat \X Nat
    OBVIOUS
  <2>2. ~(y < x)
    BY <1>3, <2>1
  <2> QED BY <2>1, <2>2
<1> QED BY <1>4

\* f satisfies the recursion of Pick up to n.
Picks(f, s, I, n) ==
    f = [i \in 0 .. n |-> IF i = 0 THEN <<>>
                          ELSE IF i \in I THEN Append(f[i - 1], s[i]) ELSE f[i - 1]]

\* There is such a function: no n is the least one without.
LEMMA PicksExists ==
    ASSUME NEW s, NEW I, NEW n \in Nat
    PROVE  \E f : Picks(f, s, I, n)
<1> DEFINE Without == {k \in Nat : ~ \E f : Picks(f, s, I, k)}
<1>1. SUFFICES ASSUME Without # {} PROVE FALSE
  OBVIOUS
<1>2. PICK k \in Without : \A m \in Without : k <= m
  BY <1>1, LeastNumber
<1>3. CASE k = 0
  <2> DEFINE f == [i \in 0 .. 0 |-> <<>>]
  <2>1. Picks(f, s, I, 0)
    BY DEF Picks
  <2> QED BY <1>2, <1>3, <2>1
<1>4. CASE k # 0
  <2>1. k - 1 \in Nat /\ k - 1 \notin Without
    BY <1>2, <1>4
  <2>2. PICK f : Picks(f, s, I, k - 1)
    BY <2>1
  <2> DEFINE g == [i \in 0 .. k |-> IF i = k THEN IF k \in I THEN Append(f[k - 1], s[k]) ELSE f[k - 1]
                                   ELSE f[i]]
  <2>3. \A i \in 0 .. k - 1 : f[i] = IF i = 0 THEN <<>>
                          ELSE IF i \in I THEN Append(f[i - 1], s[i]) ELSE f[i - 1]
    BY <2>2 DEF Picks
  <2>4. ASSUME NEW i \in 0 .. k
        PROVE  g[i] = IF i = 0 THEN <<>>
                          ELSE IF i \in I THEN Append(g[i - 1], s[i]) ELSE g[i - 1]
    <3>1. CASE i = k
      BY <3>1, <1>4, <1>2
    <3>2. CASE i # k
      <4>1. i \in 0 .. k - 1 /\ g[i] = f[i]
        BY <3>2, <1>2
      <4>2. i # 0 => i - 1 \in 0 .. k /\ i - 1 # k /\ g[i - 1] = f[i - 1]
        BY <3>2, <1>2
      <4> QED BY <4>1, <4>2, <2>3
    <3> QED BY <3>1, <3>2
  <2>5. Picks(g, s, I, k)
    BY <2>4 DEF Picks
  <2> QED BY <2>5, <1>2
<1> QED BY <1>3, <1>4

\* t consists of elements of s at places in I, in their order.
Picked(t, s, I) ==
    \E h \in [DOMAIN t -> I \cap DOMAIN s] :
        /\ \A i \in DOMAIN t : t[i] = s[h[i]]
        /\ \A i, j \in DOMAIN t : i < j => h[i] < h[j]

\* The loop of REGISTER over the cache selects, and keeps the order.
LEMMA PickIsPicked ==
    ASSUME NEW E, NEW s \in Seq(E), NEW I
    PROVE  Pick(s, I) \in Seq(E) /\ Picked(Pick(s, I), s, I)
<1>1. PICK f : Picks(f, s, I, Len(s)) /\ Pick(s, I) = f[Len(s)]
  <2>1. \E f : Picks(f, s, I, Len(s))
    <3>1. Len(s) \in Nat
      OBVIOUS
    <3> QED BY <3>1, PicksExists, Zenon
  <2> QED BY <2>1 DEF Pick, Picks
<1> DEFINE Upto(k) == /\ f[k] \in Seq(E)
                      /\ \E h \in [DOMAIN f[k] -> I \cap (1 .. k)] :
                            /\ \A i \in DOMAIN f[k] : f[k][i] = s[h[i]]
                            /\ \A i, j \in DOMAIN f[k] : i < j => h[i] < h[j]
           Bad     == {k \in 0 .. Len(s) : ~Upto(k)}
<1>2. \A i \in 0 .. Len(s) : f[i] = IF i = 0 THEN <<>>
                          ELSE IF i \in I THEN Append(f[i - 1], s[i]) ELSE f[i - 1]
  BY <1>1 DEF Picks
<1>3. ASSUME Bad # {} PROVE FALSE
  <2>1. PICK k \in Bad : \A m \in Bad : k <= m
    <3> HIDE DEF Upto
    <3>1. Bad \subseteq Nat
      OBVIOUS
    <3> HIDE DEF Bad
    <3> QED BY <1>3, <3>1, LeastNumber
  <2>2. k \in 0 .. Len(s) /\ ~Upto(k)
    OBVIOUS
  <2>3. CASE k = 0
    <3>1. f[0] = <<>> 
      BY <1>2
    <3> DEFINE h == [i \in DOMAIN f[0] |-> 0]
    <3>2. DOMAIN f[0] = {} /\ f[0] \in Seq(E)
      BY <3>1
    <3>3. h \in [DOMAIN f[0] -> I \cap (1 .. 0)]
      BY <3>2
    <3>4. Upto(0)
      BY <3>2, <3>3
    <3> QED BY <2>2, <2>3, <3>4
  <2>4. CASE k # 0
    <3>1. k - 1 \in 0 .. Len(s) /\ Upto(k - 1) /\ s[k] \in E
      <4> HIDE DEF Upto
      <4>1. k - 1 \in 0 .. Len(s) /\ k - 1 \notin Bad /\ s[k] \in E
        <5> HIDE DEF Bad
        <5> QED BY <2>1, <2>2, <2>4
      <4> QED BY <4>1
    <3>2. PICK h \in [DOMAIN f[k - 1] -> I \cap (1 .. k - 1)] :
              /\ \A i \in DOMAIN f[k - 1] : f[k - 1][i] = s[h[i]]
              /\ \A i, j \in DOMAIN f[k - 1] : i < j => h[i] < h[j]
      BY <3>1
    <3>3. CASE k \notin I
      <4>1. f[k] = f[k - 1]
        BY <1>2, <2>2, <2>4, <3>3
      <4>2. h \in [DOMAIN f[k] -> I \cap (1 .. k)]
        BY <3>2, <4>1, <2>2
      <4> QED BY <4>1, <4>2, <3>1, <3>2, <2>2
    <3>4. CASE k \in I
      <4>1. f[k] = Append(f[k - 1], s[k])
        BY <1>2, <2>2, <2>4, <3>4
      <4> DEFINE n == Len(f[k - 1])
                 g == [i \in 1 .. n + 1 |-> IF i = n + 1 THEN k ELSE h[i]]
      <4>2. /\ n \in Nat /\ DOMAIN f[k - 1] = 1 .. n /\ DOMAIN f[k] = 1 .. n + 1
            /\ f[k] \in Seq(E)
            /\ f[k][n + 1] = s[k]
            /\ \A i \in 1 .. n : f[k][i] = f[k - 1][i]
        BY <4>1, <3>1
      <4>3. \A i \in 1 .. n : h[i] \in I /\ h[i] \in 1 .. k - 1
        BY <3>2, <4>2
      <4>4. g \in [DOMAIN f[k] -> I \cap (1 .. k)]
        BY <4>2, <4>3, <3>4, <2>2, <2>4
      <4>5. ASSUME NEW i \in DOMAIN f[k] PROVE f[k][i] = s[g[i]]
        <5>1. CASE i = n + 1
          BY <5>1, <4>2
        <5>2. CASE i # n + 1
          <6>1. i \in 1 .. n /\ g[i] = h[i]
            BY <5>2, <4>2
          <6> QED BY <6>1, <4>2, <3>2
        <5> QED BY <5>1, <5>2
      <4>6. \A i, j \in DOMAIN f[k] : i < j => g[i] < g[j]
        BY <4>2, <4>3, <3>2, <2>2
      <4> HIDE DEF g
      <4>7. Upto(k)
        BY <4>2, <4>4, <4>5, <4>6
      <4> QED BY <4>7, <2>2
    <3> QED BY <3>3, <3>4
  <2> QED BY <2>3, <2>4
<1>4. Upto(Len(s))
  BY <1>3
<1> QED BY <1>1, <1>4 DEF Picked

-----------------------------------------------------------------------------

(* What process_message() may do.                                          *)

Queues    == [Computers -> [Computers -> Seq(Message)]]

\* The message that goes to T, the entry of the cache, and the one of
\* f_received_broadcast_messages.
Copy(c, m, T) == [n |-> m.n, hops |-> m.hops + 1,
                  informed |-> m.informed \cup {Address[c][y] : y \in T} \cup OwnAddress(c)]
Entry(m, req) == [n |-> m.n, service |-> req.service, timeout |-> now + Ttl]
Mark(n)       == [msgid |-> sent[n].msgid, timeout |-> sent[n].timeout]
Entries       == [n : 1 .. MaxMessages, service : Services, timeout : Nat]
Marks         == [msgid : Computers \X Nat, timeout : Nat]

\* Whom process_message() reaches: the computer that the message names, and if that is
\* this one its service or the cache; the local services that understand a broadcast,
\* and the neighbors it is meant for.  The message gets a new number if it is sent to
\* other computers, and is recorded if it came from one.
Reach(c, m, req, T, S, K) ==
    /\ \A d \in Computers : sequence'[d] = IF d = c /\ T # {} THEN sequence[d] + 1 ELSE sequence[d]
    /\ \A d \in Computers : \A r \in received'[d] :
          \/ r \in received[d]
          \/ /\ d = c /\ m.hops # 0 /\ r = Mark(m.n)
             /\ req.service \in Services => req.server # c
             /\ req.service \in Wide => understood[c] \subseteq S
    /\ req.service \in Expected[c] /\ req.server = c => req.service \in S \/ K
    /\ req.service \in Services /\ req.server \in Uninformed(c, m) => req.server \in T
    /\ req.service \in Wide /\ req.server = "*"
          => /\ understood[c] \subseteq S
             /\ m.hops = 0 => {y \in Uninformed(c, m) : \/ req.service = "*"
                                                        \/ req.service = "?" /\ Site[y] = Site[c]} \subseteq T

\* What process_message() does: the message goes to the computers T and to the
\* local services S, and is cached if K.
Effect(c, m, req, queues, T, S, K) ==
    /\ T \subseteq Uninformed(c, m)
    /\ S \subseteq registered[c]
    /\ queue' \in Queues
    /\ \A x, y \in Computers :
          queue'[x][y] = IF x = c /\ y \in T THEN Append(queues[x][y], Copy(c, m, T)) ELSE queues[x][y]
    /\ delivered' \in [Computers -> [Services -> Seq(1 .. MaxMessages)]]
    /\ \A d \in Computers, s \in Services :
          delivered'[d][s] = IF d = c /\ s \in S THEN Append(delivered[d][s], m.n) ELSE delivered[d][s]
    /\ cache' \in [Computers -> Seq(Entries)]
    /\ \A d \in Computers : cache'[d] = IF d = c /\ K THEN Append(cache[d], Entry(m, req)) ELSE cache[d]
    /\ sequence' \in [Computers -> Nat]
    /\ received' \in [Computers -> SUBSET Marks]
    /\ \A d \in Computers : \A r \in received[d] : r \in received'[d] \/ r.timeout < now
    /\ K => /\ req.service \in Services \ registered[c]
            /\ Local(c, req)
            /\ T = {} /\ S = {}
    /\ req.service \in Services => S \subseteq {req.service} /\ (S # {} => Local(c, req))
    /\ S # {} /\ req.service \in Wide /\ m.hops # 0 => Mark(m.n) \in received'[c]
    /\ T # {} /\ req.service \in Services => req.server # c /\ T \subseteq Accepting(c, req)
    /\ T # {} /\ req.service \in Wide
          => /\ req.server = "*"
             /\ req.service # "."
             /\ req.service = "?" => \A y \in T : Site[y] = Site[c]

\* The fields of the message that is sent on.
LEMMA CopyType ==
    ASSUME NEW c \in Computers, NEW m \in Message, NEW T \in SUBSET Computers
    PROVE  /\ Copy(c, m, T) \in Message
           /\ Copy(c, m, T).n = m.n
           /\ Copy(c, m, T).hops = m.hops + 1
           /\ Copy(c, m, T).informed = m.informed \cup {Address[c][y] : y \in T} \cup OwnAddress(c)
<1>1. OwnAddress(c) \in SUBSET Addresses /\ {Address[c][y] : y \in T} \in SUBSET Addresses
  BY AddressAssumption DEF OwnAddress
<1>2. m.informed \cup {Address[c][y] : y \in T} \cup OwnAddress(c) \in SUBSET Addresses
  BY <1>1 DEF Message
<1>3. m.hops + 1 \in Nat /\ m.n \in 1 .. MaxMessages
  BY DEF Message
<1> QED BY <1>2, <1>3 DEF Copy, Message

\* broadcast_message(), with the list of computers of process_message() or without.
LEMMA BroadcastEffect ==
    ASSUME TypeOK,
           NEW c \in Computers, NEW m \in Message, NEW req, NEW queues \in Queues,
           NEW accepting \in SUBSET Link[c],
           m.hops = 0 \/ m.n \in DOMAIN sent,
           req.service \in Services => accepting # {} /\ req.server # c /\ accepting = Accepting(c, req),
           req.service \in Wide => accepting = {} /\ ~Contradicts(req),
           broadcast_message(c, m, req.service, accepting, queues)
    PROVE  \E T, S : Effect(c, m, req, queues, T, S, FALSE) /\ Reach(c, m, req, T, S, FALSE)
<1> DEFINE T == Targets(c, m, req.service, accepting)
           S == IF accepting = {} THEN understood[c] ELSE {}
<1> USE LinkAssumption
<1>1. T \subseteq Uninformed(c, m) /\ T \in SUBSET Computers
  BY DEF Targets, Uninformed
<1>2. S \subseteq registered[c] /\ S \subseteq Services
  BY DEF TypeOK
<1> DEFINE copy == Copy(c, m, T)
<1>3. copy \in Message
  BY <1>1, CopyType
<1>4. queue' = [queues EXCEPT ![c] = [y \in Computers |->
                  IF y \in T THEN Append(@[y], copy) ELSE @[y]]]
  BY DEF broadcast_message, Copy
<1>5. /\ queue' \in Queues
      /\ \A x, y \in Computers :
          queue'[x][y] = IF x = c /\ y \in T THEN Append(queues[x][y], copy) ELSE queues[x][y]
  <2> HIDE DEF T, copy
  <2> QED BY <1>3, <1>4 DEF Queues
<1>6. /\ delivered' \in [Computers -> [Services -> Seq(1 .. MaxMessages)]]
      /\ \A d \in Computers, s \in Services :
          delivered'[d][s] = IF d = c /\ s \in S THEN Append(delivered[d][s], m.n) ELSE delivered[d][s]
  <2>1. m.n \in 1 .. MaxMessages
    BY DEF Message
  <2>2. delivered' = [delivered EXCEPT ![c] = [s \in Services |->
                            IF accepting = {} /\ s \in understood[c] THEN Append(@[s], m.n) ELSE @[s]]]
    BY DEF broadcast_message
  <2>3. delivered \in [Computers -> [Services -> Seq(1 .. MaxMessages)]]
    BY DEF TypeOK
  <2>4. delivered' = [delivered EXCEPT ![c] = [s \in Services |->
                            IF s \in S THEN Append(@[s], m.n) ELSE @[s]]]
    BY <2>2
  <2> HIDE DEF S
  <2> DEFINE G == [s \in Services |-> IF s \in S THEN Append(delivered[c][s], m.n) ELSE delivered[c][s]]
  <2>5. G \in [Services -> Seq(1 .. MaxMessages)]
    <3> DEFINE N == 1 .. MaxMessages
    <3>1. \A s \in Services : delivered[c][s] \in Seq(N)
      BY <2>3
    <3>2. m.n \in N
      BY <2>1
    <3> HIDE DEF N
    <3>3. \A s \in Services : Append(delivered[c][s], m.n) \in Seq(N)
      BY <3>1, <3>2
    <3>4. G \in [Services -> Seq(N)]
      BY <3>1, <3>3
    <3> QED BY <3>4 DEF N
  <2>6. delivered' = [delivered EXCEPT ![c] = G]
    BY <2>3, <2>4
  <2>7. \A s \in Services : G[s] = IF s \in S THEN Append(delivered[c][s], m.n) ELSE delivered[c][s]
    OBVIOUS
  <2> HIDE DEF G
  <2> QED BY <2>3, <2>5, <2>6, <2>7
<1>7. cache' = cache /\ cache \in [Computers -> Seq(Entries)]
  BY DEF broadcast_message, TypeOK, Entries
<1>8. sequence' \in [Computers -> Nat]
  <2> HIDE DEF T
  <2>1. sequence' = [sequence EXCEPT ![c] = IF T = {} THEN @ ELSE @ + 1]
    BY DEF broadcast_message, T
  <2> QED BY <2>1 DEF TypeOK
<1>9. /\ received' \in [Computers -> SUBSET Marks]
      /\ \A d \in Computers : \A r \in received[d] : r \in received'[d] \/ r.timeout < now
      /\ m.hops # 0 => Mark(m.n) \in received'[c]
  <2>1. received \in [Computers -> SUBSET Marks] /\ now \in Nat
    BY DEF TypeOK, Marks
  <2>2. CASE m.hops = 0
    BY <2>1, <2>2 DEF broadcast_message, Record
  <2>3. CASE m.hops # 0
    <3>1. Mark(m.n) \in Marks
      <4>1. sent[m.n] \in Sent
        BY <2>3 DEF TypeOK
      <4> QED BY <4>1 DEF Mark, Marks, Sent
    <3>2. received' = [received EXCEPT ![c] = {r \in @ : Remembered(r.timeout)} \cup {Mark(m.n)}]
      BY <2>3 DEF broadcast_message, Record, Mark
    <3>3. \A r \in Marks : r.timeout \in Nat
      BY DEF Marks
    <3> QED BY <2>1, <3>1, <3>2, <3>3 DEF Remembered
  <2> QED BY <2>2, <2>3
<1>10. T # {} /\ req.service \in Services => req.server # c /\ T \subseteq Accepting(c, req)
  BY DEF Targets
<1>11. T # {} /\ req.service \in Wide
          => /\ req.server = "*"
             /\ req.service # "."
             /\ req.service = "?" => \A y \in T : Site[y] = Site[c]
  BY DEF Targets, Contradicts, PrivateNetwork, Wide
<1>12. req.service \in Services => S = {}
  OBVIOUS
<1>13. Reach(c, m, req, T, S, FALSE)
  <2>1. \A d \in Computers : sequence'[d] = IF d = c /\ T # {} THEN sequence[d] + 1 ELSE sequence[d]
    <3> HIDE DEF T
    <3>1. sequence' = [sequence EXCEPT ![c] = IF T = {} THEN @ ELSE @ + 1]
      BY DEF broadcast_message, T
    <3> QED BY <3>1 DEF TypeOK
  <2>2. req.service \in Wide => understood[c] \subseteq S
    OBVIOUS
  <2>3. \A d \in Computers : \A r \in received'[d] : r \in received[d] \/ (d = c /\ m.hops # 0 /\ r = Mark(m.n))
    BY DEF broadcast_message, Record, Mark, TypeOK
  <2>4. ~(req.service \in Services /\ req.server = c) /\ Services \cap Wide = {}
    BY NamesAssumption
  <2>5. req.service \in Services /\ req.server \in Uninformed(c, m) => req.server \in T
    <3>1. ASSUME req.service \in Services, req.server \in Uninformed(c, m) PROVE req.server \in T
      <4>1. T = accepting \cap Uninformed(c, m)
        BY <3>1 DEF Targets
      <4>2. req.server \in Accepting(c, req)
        BY <3>1, NamesAssumption DEF Accepting, Wide, Uninformed
      <4> QED BY <3>1, <4>1, <4>2
    <3> QED BY <3>1
  <2>6. req.service \in Wide /\ m.hops = 0
           => {y \in Uninformed(c, m) : \/ req.service = "*"
                                        \/ req.service = "?" /\ Site[y] = Site[c]} \subseteq T
    BY NumbersAssumption DEF Targets, MayHop, PrivateNetwork
  <2> HIDE DEF T, S
  <2> QED BY <2>1, <2>2, <2>3, <2>4, <2>5, <2>6, ExpectedAssumption DEF Reach
<1> HIDE DEF T, S
<1>14. Effect(c, m, req, queues, T, S, FALSE)
  BY <1>1, <1>2, <1>5, <1>6, <1>7, <1>8, <1>9, <1>10, <1>11, <1>12 DEF Effect
<1> QED BY <1>13, <1>14

\* One case for each branch of process_message().
LEMMA ProcessEffect ==
    ASSUME TypeOK,
           NEW c \in Computers, NEW m \in Message, NEW queues \in Queues,
           NEW req, req.service \in Services \cup Wide, req.server \in Computers \cup {"*"},
           m.hops = 0 \/ m.n \in DOMAIN sent,
           process_message(c, m, req, queues)
    PROVE  \E T, S, K : Effect(c, m, req, queues, T, S, K) /\ Reach(c, m, req, T, S, K)
<1> USE LinkAssumption, NamesAssumption, NumbersAssumption
<1>1. /\ m.n \in 1 .. MaxMessages /\ now \in Nat
      /\ cache \in [Computers -> Seq(Entries)]
      /\ sequence \in [Computers -> Nat]
      /\ received \in [Computers -> SUBSET Marks]
      /\ delivered \in [Computers -> [Services -> Seq(1 .. MaxMessages)]]
      /\ registered \in [Computers -> SUBSET Services]
  BY DEF TypeOK, Message, Entries, Marks
<1>2. CASE ToService(c, m, req, queues)
  <2>1. delivered' = [delivered EXCEPT ![c][req.service] = Append(@, m.n)]
    BY <1>2 DEF ToService
  <2>2. req.service \in registered[c] /\ req.service \in Services /\ req.service \notin Wide
    BY <1>1, <1>2 DEF ToService
  <2>3. /\ delivered' \in [Computers -> [Services -> Seq(1 .. MaxMessages)]]
        /\ \A d \in Computers, s \in Services :
              delivered'[d][s] = IF d = c /\ s \in {req.service} THEN Append(delivered[d][s], m.n)
                                 ELSE delivered[d][s]
    BY <1>1, <2>1, <2>2
  <2>4. Reach(c, m, req, {}, {req.service}, FALSE)
    <3>1. UNCHANGED <<sequence, received>> /\ Local(c, req)
      BY <1>2 DEF ToService
    <3>2. ~(req.server \in Link[c])
      BY <3>1 DEF Local, Wide
    <3> QED BY <2>2, <3>1, <3>2 DEF Reach, Uninformed
  <2>5. Effect(c, m, req, queues, {}, {req.service}, FALSE)
    BY <1>1, <1>2, <2>2, <2>3 DEF ToService, Effect
  <2> QED BY <2>4, <2>5
<1>3. CASE ToCache(c, m, req, queues)
  <2>1. req.service \in Services \ registered[c] /\ Local(c, req)
    BY <1>3, ExpectedAssumption DEF ToCache
  <2>2. Entry(m, req) \in Entries
    BY <1>1, <2>1 DEF Entry, Entries
  <2>3. cache' = [cache EXCEPT ![c] = Append(@, Entry(m, req))]
    BY <1>3 DEF ToCache, Entry
  <2>4. Reach(c, m, req, {}, {}, TRUE)
    <3>1. UNCHANGED <<sequence, received>>
      BY <1>3 DEF ToCache
    <3>2. ~(req.server \in Link[c]) /\ req.service \notin Wide
      BY <2>1 DEF Local, Wide
    <3> QED BY <3>1, <3>2 DEF Reach, Uninformed
  <2>5. Effect(c, m, req, queues, {}, {}, TRUE)
    BY <1>1, <1>3, <2>1, <2>2, <2>3 DEF ToCache, Effect
  <2> QED BY <2>4, <2>5
<1>4. CASE Dropped(c, req, queues)
  <2>1. Reach(c, m, req, {}, {}, FALSE)
    <3>1. UNCHANGED <<sequence, received>> /\ req.service \notin Wide
      BY <1>4 DEF Dropped
    <3>2. ~(req.server = c /\ req.service \in Expected[c])
      BY <1>4 DEF Dropped, Local
    <3>3. ~(req.server \in Link[c])
      BY <1>4 DEF Dropped, Accepting, Wide
    <3> QED BY <3>1, <3>2, <3>3 DEF Reach, Uninformed
  <2>2. Effect(c, m, req, queues, {}, {}, FALSE)
    BY <1>1, <1>4 DEF Dropped, Effect
  <2> QED BY <2>1, <2>2
<1>5. CASE Refused(req, queues)
  <2>1. Reach(c, m, req, {}, {}, FALSE)
    <3>1. UNCHANGED <<sequence, received>> /\ req.service \in Wide /\ req.server # "*"
      BY <1>5 DEF Refused, Contradicts, Wide
    <3> QED BY <3>1, ExpectedAssumption DEF Reach, Uninformed
  <2>2. Effect(c, m, req, queues, {}, {}, FALSE)
    BY <1>1, <1>5 DEF Refused, Effect
  <2> QED BY <2>1, <2>2
<1>6. CASE ToOthers(c, m, req, queues)
  <2>1. Accepting(c, req) \in SUBSET Link[c]
    BY DEF Accepting
  <2>2. req.service \notin Wide
    BY <1>6 DEF ToOthers
  <2> QED BY <1>6, <2>1, <2>2, BroadcastEffect DEF ToOthers
<1>7. CASE ToEveryone(c, m, req, queues)
  <2>1. {} \in SUBSET Link[c] /\ req.service \notin Services
    BY <1>7 DEF ToEveryone
  <2> QED BY <1>7, <2>1, BroadcastEffect DEF ToEveryone
<1> QED BY <1>2, <1>3, <1>4, <1>5, <1>6, <1>7 DEF process_message

-----------------------------------------------------------------------------
(* The inductive invariant.                                                *)

\* A message on a link: a broadcast stays in its scope, a message for one server
\* is on the link from its origin to that server, and the address that the origin
\* wrote is among the informed neighbors, so that the message does not come back
\* to an origin that the others know under it.
OnLinks ==
    \A x, y \in Computers : \A i \in DOMAIN queue[x][y] :
        LET m == queue[x][y][i]
        IN  /\ m.n \in DOMAIN sent
            /\ m.hops # 0
            /\ MyAddress[sent[m.n].origin] \in m.informed
            /\ Recognised(sent[m.n].origin) => y # sent[m.n].origin
            /\ IsBroadcast(m.n) => y \in Scope(m.n) /\ sent[m.n].server = "*"
            /\ sent[m.n].server # "*" => x = sent[m.n].origin /\ y = sent[m.n].server

\* A delivered broadcast is remembered, is too old, or is the computer's own.
Recorded ==
    \A c \in Computers, s \in Services : \A i \in DOMAIN delivered[c][s] :
        LET n == delivered[c][s][i]
        IN  /\ n \in DOMAIN sent
            /\ IsBroadcast(n) => \/ c = sent[n].origin
                                 \/ sent[n].timeout < now
                                 \/ Mark(n) \in received[c]

\* One that was delivered twice, which came back to its computer, is remembered or
\* too old, there too.
RecordedTwice ==
    \A c \in Computers, s \in Services : \A i, j \in DOMAIN delivered[c][s] :
        LET n == delivered[c][s][i]
        IN  IsBroadcast(n) /\ delivered[c][s][j] = n /\ i # j
                => sent[n].timeout < now \/ Mark(n) \in received[c]

\* An entry of the cache is a message that was sent to its service.
Waiting ==
    \A c \in Computers : \A i \in DOMAIN cache[c] :
        /\ cache[c][i].n \in DOMAIN sent
        /\ sent[cache[c][i].n].service = cache[c][i].service

\* If a and b were sent by one computer to a service of computer c, a was first.
Earlier(a, b, c) ==
    sent[a].server = c /\ sent[b].server = c /\ sent[a].origin = sent[b].origin => a < b

\* What waits on a link, what was delivered and what waits in the cache of one
\* computer to a service of another are in the order in which it was sent.
QueueInOrder ==
    \A x, c \in Computers : \A i, j \in DOMAIN queue[x][c] :
        i < j => Earlier(queue[x][c][i].n, queue[x][c][j].n, c)

DeliveredBeforeQueue ==
    \A x, c \in Computers, s \in Services : \A i \in DOMAIN delivered[c][s], j \in DOMAIN queue[x][c] :
        Earlier(delivered[c][s][i], queue[x][c][j].n, c)

CacheBeforeQueue ==
    \A x, c \in Computers : \A i \in DOMAIN cache[c], j \in DOMAIN queue[x][c] :
        Earlier(cache[c][i].n, queue[x][c][j].n, c)

CacheInOrder ==
    \A c \in Computers : \A i, j \in DOMAIN cache[c] :
        i < j => Earlier(cache[c][i].n, cache[c][j].n, c)

DeliveredBeforeCache ==
    \A c \in Computers, s \in Services : \A i \in DOMAIN delivered[c][s], j \in DOMAIN cache[c] :
        cache[c][j].service = s => Earlier(delivered[c][s][i], cache[c][j].n, c)

Inv ==
    /\ TypeOK
    /\ OnLinks
    /\ Recorded
    /\ RecordedTwice
    /\ Waiting
    /\ NothingForgotten
    /\ AtMostOnce
    /\ ScopeIsKept
    /\ QueueInOrder
    /\ DeliveredBeforeQueue
    /\ CacheBeforeQueue
    /\ CacheInOrder
    /\ DeliveredBeforeCache
    /\ ArrivesInOrder

-----------------------------------------------------------------------------
(* The elements of the sequences after a step.                             *)

NewQueue(queues, c, T, copy) ==
    \A x, y \in Computers : \A i \in DOMAIN queue'[x][y] :
        \/ i \in DOMAIN queues[x][y] /\ queue'[x][y][i] = queues[x][y][i]
        \/ /\ x = c /\ y \in T /\ queue'[x][y][i] = copy
           /\ \A j \in DOMAIN queue'[x][y] : j <= i

NewDelivered(c, S, n) ==
    \A d \in Computers, s \in Services : \A i \in DOMAIN delivered'[d][s] :
        \/ i \in DOMAIN delivered[d][s] /\ delivered'[d][s][i] = delivered[d][s][i]
        \/ /\ d = c /\ s \in S /\ delivered'[d][s][i] = n
           /\ \A j \in DOMAIN delivered'[d][s] : j <= i

NewCache(c, K, entry) ==
    \A d \in Computers : \A i \in DOMAIN cache'[d] :
        \/ i \in DOMAIN cache[d] /\ cache'[d][i] = cache[d][i]
        \/ /\ d = c /\ K /\ cache'[d][i] = entry
           /\ \A j \in DOMAIN cache'[d] : j <= i

\* An element of an extended sequence was there, or is the last.
LEMMA AppendElements ==
    ASSUME NEW E, NEW q \in Seq(E), NEW e, NEW i \in DOMAIN Append(q, e)
    PROVE  \/ i \in DOMAIN q /\ Append(q, e)[i] = q[i]
           \/ Append(q, e)[i] = e /\ \A j \in DOMAIN Append(q, e) : j <= i
  OBVIOUS

\* An element of a link, of a service's messages or of the cache was there before
\* process_message(), or it is the new and last one.
LEMMA EffectElements ==
    ASSUME TypeOK, NEW c \in Computers, NEW m \in Message, NEW req, NEW queues \in Queues,
           NEW T, NEW S, NEW K, Effect(c, m, req, queues, T, S, K)
    PROVE  /\ NewQueue(queues, c, T, Copy(c, m, T))
           /\ NewDelivered(c, S, m.n)
           /\ NewCache(c, K, Entry(m, req))
<1>1. NewQueue(queues, c, T, Copy(c, m, T))
  <2>1. ASSUME NEW x \in Computers, NEW y \in Computers, NEW i \in DOMAIN queue'[x][y]
        PROVE  \/ i \in DOMAIN queues[x][y] /\ queue'[x][y][i] = queues[x][y][i]
               \/ /\ x = c /\ y \in T /\ queue'[x][y][i] = Copy(c, m, T)
                  /\ \A j \in DOMAIN queue'[x][y] : j <= i
    <3>1. queues[x][y] \in Seq(Message)
      BY DEF Queues
    <3>2. queue'[x][y] = IF x = c /\ y \in T THEN Append(queues[x][y], Copy(c, m, T)) ELSE queues[x][y]
      BY DEF Effect
    <3> QED BY <3>1, <3>2, AppendElements
  <2> QED BY <2>1 DEF NewQueue
<1>2. NewDelivered(c, S, m.n)
  <2>1. ASSUME NEW d \in Computers, NEW s \in Services, NEW i \in DOMAIN delivered'[d][s]
        PROVE  \/ i \in DOMAIN delivered[d][s] /\ delivered'[d][s][i] = delivered[d][s][i]
               \/ /\ d = c /\ s \in S /\ delivered'[d][s][i] = m.n
                  /\ \A j \in DOMAIN delivered'[d][s] : j <= i
    <3>1. delivered[d][s] \in Seq(1 .. MaxMessages)
      BY DEF TypeOK
    <3>2. delivered'[d][s] = IF d = c /\ s \in S THEN Append(delivered[d][s], m.n) ELSE delivered[d][s]
      BY DEF Effect
    <3> QED BY <3>1, <3>2, AppendElements
  <2> QED BY <2>1 DEF NewDelivered
<1>3. NewCache(c, K, Entry(m, req))
  <2>1. ASSUME NEW d \in Computers, NEW i \in DOMAIN cache'[d]
        PROVE  \/ i \in DOMAIN cache[d] /\ cache'[d][i] = cache[d][i]
               \/ /\ d = c /\ K /\ cache'[d][i] = Entry(m, req)
                  /\ \A j \in DOMAIN cache'[d] : j <= i
    <3>1. cache[d] \in Seq(Entries)
      BY DEF TypeOK, Entries
    <3>2. cache'[d] = IF d = c /\ K THEN Append(cache[d], Entry(m, req)) ELSE cache[d]
      BY DEF Effect
    <3> QED BY <3>1, <3>2, AppendElements
  <2> QED BY <2>1 DEF NewCache
<1> QED BY <1>1, <1>2, <1>3

-----------------------------------------------------------------------------
(* The steps.                                                              *)

\* What AtMostOnce and RecordedTwice say of a broadcast at two places.
LEMMA TwoPlaces ==
    ASSUME AtMostOnce, RecordedTwice, NEW d \in Computers, NEW s \in Services,
           NEW i \in DOMAIN delivered[d][s], NEW j \in DOMAIN delivered[d][s],
           NEW n, n = delivered[d][s][i], n = delivered[d][s][j], IsBroadcast(n), i # j
    PROVE  /\ sent[n].origin = d /\ ~Recognised(d)
           /\ \A k \in DOMAIN delivered[d][s] : delivered[d][s][k] = n => k \in {i, j}
           /\ sent[n].timeout < now \/ Mark(n) \in received[d]
<1>1. PICK a : a = delivered[d][s]
  OBVIOUS
<1>2. /\ sent[a[i]].origin = d /\ ~Recognised(d)
      /\ \A k \in DOMAIN a : a[k] = a[i] => k \in {i, j}
  <2>1. a[j] = a[i] /\ IsBroadcast(a[i]) /\ i \in DOMAIN a /\ j \in DOMAIN a
    BY <1>1
  <2> QED BY <1>1, <2>1, Zenon DEF AtMostOnce
<1>3. sent[n].timeout < now \/ Mark(n) \in received[d]
  BY Zenon DEF RecordedTwice
<1> QED BY <1>1, <1>2, <1>3

\* Send: the number of the new message is larger than all the others.
LEMMA SendKeeps ==
    ASSUME Inv, NEW req \in Inputs, Send(req)
    PROVE  Inv'
<1>0. PICK N : N = Len(sent) + 1
  OBVIOUS
<1> DEFINE c   == req.origin
           m   == [n |-> N, hops |-> 0, informed |-> {}]
           rec == [origin |-> c, service |-> req.service, server |-> req.server,
                   msgid |-> <<c, sequence[c] + 1>>, timeout |-> now + Lifetime]
<1> USE LinkAssumption, NamesAssumption, NumbersAssumption
<1>1. /\ c \in Computers
      /\ req.service \in Services \cup Wide
      /\ req.server \in Computers \cup {"*"}
  BY InputsAssumption DEF Request
<1>2. /\ TypeOK /\ Len(sent) \in Nat /\ DOMAIN sent = 1 .. Len(sent) /\ N \in 1 .. MaxMessages
      /\ queue \in Queues
  <2>1. TypeOK
    BY DEF Inv
  <2>2. sent \in Seq(Sent) /\ Len(sent) < MaxMessages /\ queue \in Queues
    BY <2>1 DEF TypeOK, Send, Queues
  <2> QED BY <1>0, <2>1, <2>2
<1>3. m \in Message /\ m.hops = 0 /\ m.informed = {} /\ m.n = N
  BY <1>2 DEF Message
<1>4. rec \in Sent
  BY <1>1, <1>2 DEF TypeOK, Sent
<1>5. /\ sent' = Append(sent, rec) /\ sent' \in Seq(Sent) /\ DOMAIN sent' = 1 .. N /\ Len(sent') = N
      /\ \A n \in DOMAIN sent : n \in DOMAIN sent' /\ sent'[n] = sent[n] /\ n < N
      /\ N \in DOMAIN sent' /\ sent'[N] = rec
  BY <1>0, <1>2, <1>4 DEF Send, TypeOK
<1>6. process_message(c, m, req, queue)
  BY <1>0 DEF Send
<1>7. PICK T, S, K : Effect(c, m, req, queue, T, S, K)
  BY <1>1, <1>2, <1>3, <1>6, ProcessEffect
<1>8. UNCHANGED <<now, registered, understood>>
  BY DEF Send
<1> HIDE DEF m, c, rec
<1>9. /\ NewQueue(queue, c, T, Copy(c, m, T))
      /\ NewDelivered(c, S, N)
      /\ NewCache(c, K, Entry(m, req))
  BY <1>1, <1>2, <1>3, <1>7, EffectElements
<1>10. /\ T \subseteq Link[c] /\ c \notin T /\ T \subseteq Computers
       /\ T \subseteq Computers /\ S \subseteq Services /\ S \subseteq registered[c]
  BY <1>1, <1>2, <1>7 DEF Effect, TypeOK, Uninformed
<1>11. /\ Copy(c, m, T) \in Message
       /\ Copy(c, m, T).n = N
       /\ Copy(c, m, T).hops # 0
       /\ MyAddress[c] \in Copy(c, m, T).informed
  BY <1>1, <1>3, <1>10, CopyType DEF OwnAddress
<1>12. rec.origin = c /\ rec.service = req.service /\ rec.server = req.server
  BY DEF rec
<1>13. queue[c][c] = <<>>
  BY <1>1, <1>2 DEF TypeOK
<1>14. TypeOK'
  <2>1. listeners' \in [1 .. MaxMessages -> SUBSET (Computers \X Services)]
    <3>1. listeners' = [listeners EXCEPT ![N] = Understanding]
      BY <1>0, <1>3 DEF Send, m
    <3>2. Understanding \in SUBSET (Computers \X Services)
      BY DEF Understanding
    <3> QED BY <1>2, <3>1, <3>2 DEF TypeOK
  <2>2. \A x, y \in Computers : queue'[x][y] # <<>> => y \in Link[x]
    <3>1. \A x, y \in Computers : queue[x][y] # <<>> => y \in Link[x]
      BY <1>2 DEF TypeOK
    <3>2. \A x, y \in Computers : queue'[x][y] = queue[x][y] \/ (x = c /\ y \in T)
      BY <1>7 DEF Effect
    <3> QED BY <1>10, <3>1, <3>2
  <2>3. Len(sent') <= MaxMessages
    BY <1>2, <1>5
  <2> QED BY <1>2, <1>5, <1>7, <1>8, <2>1, <2>2, <2>3 DEF TypeOK, Effect, Queues, Entries, Marks
<1>15. OnLinks'
  <2>1. ASSUME NEW x \in Computers, NEW y \in Computers, NEW i \in DOMAIN queue'[x][y],
               NEW q, q = queue'[x][y][i]
        PROVE  /\ q.n \in DOMAIN sent'
               /\ q.hops # 0
               /\ MyAddress[sent'[q.n].origin] \in q.informed
               /\ Recognised(sent'[q.n].origin) => y # sent'[q.n].origin
               /\ IsBroadcast(q.n)' => y \in Scope(q.n)' /\ sent'[q.n].server = "*"
               /\ sent'[q.n].server # "*" => x = sent'[q.n].origin /\ y = sent'[q.n].server
    <3>1. CASE i \in DOMAIN queue[x][y] /\ q = queue[x][y][i]
      <4>1. OnLinks
        BY DEF Inv
      <4>2. /\ q.n \in DOMAIN sent /\ q.hops # 0
            /\ MyAddress[sent[q.n].origin] \in q.informed
            /\ Recognised(sent[q.n].origin) => y # sent[q.n].origin
            /\ IsBroadcast(q.n) => y \in Scope(q.n) /\ sent[q.n].server = "*"
            /\ sent[q.n].server # "*" => x = sent[q.n].origin /\ y = sent[q.n].server
        BY <3>1, <4>1 DEF OnLinks
      <4>3. q.n \in DOMAIN sent' /\ sent'[q.n] = sent[q.n]
        BY <1>5, <4>2
      <4>4. (IsBroadcast(q.n)' <=> IsBroadcast(q.n)) /\ Scope(q.n)' = Scope(q.n)
        BY <4>3 DEF IsBroadcast, Scope
      <4> QED BY <4>2, <4>3, <4>4
    <3>2. CASE x = c /\ y \in T /\ q = Copy(c, m, T)
      <4>1. sent'[q.n] = rec /\ q.n \in DOMAIN sent'
        BY <1>5, <1>11, <3>2
      <4>2. MyAddress[sent'[q.n].origin] \in q.informed /\ y # sent'[q.n].origin
        BY <1>10, <1>11, <1>12, <3>2, <4>1
      <4>3. req.service \in Wide => y \in Scope(q.n)' /\ sent'[q.n].server = "*"
        BY <1>7, <1>12, <3>2, <4>1 DEF Effect, Scope, Wide
      <4>4. req.server # "*" => x = c /\ y = req.server
        BY <1>1, <1>7, <3>2 DEF Effect, Accepting
      <4> QED BY <1>11, <1>12, <3>2, <4>1, <4>2, <4>3, <4>4 DEF IsBroadcast
    <3> QED BY <1>9, <2>1, <3>1, <3>2 DEF NewQueue
  <2> QED BY <2>1 DEF OnLinks
<1>16. Recorded'
  <2>1. ASSUME NEW d \in Computers, NEW s \in Services, NEW i \in DOMAIN delivered'[d][s],
               NEW n, n = delivered'[d][s][i]
        PROVE  /\ n \in DOMAIN sent'
               /\ IsBroadcast(n)' => \/ d = sent'[n].origin
                                     \/ sent'[n].timeout < now'
                                     \/ Mark(n)' \in received'[d]
    <3>1. CASE i \in DOMAIN delivered[d][s] /\ n = delivered[d][s][i]
      <4>1. /\ n \in DOMAIN sent
            /\ IsBroadcast(n) => \/ d = sent[n].origin
                                 \/ sent[n].timeout < now
                                 \/ Mark(n) \in received[d]
        BY <3>1 DEF Inv, Recorded
      <4>2. Mark(n) \in received[d] => Mark(n) \in received'[d] \/ sent[n].timeout < now
        BY <1>7 DEF Effect, Mark
      <4> QED BY <1>5, <1>8, <4>1, <4>2 DEF IsBroadcast, Mark
    <3>2. CASE d = c /\ n = N
      BY <1>5, <1>12, <3>2
    <3> QED BY <1>9, <2>1, <3>1, <3>2 DEF NewDelivered
  <2> QED BY <2>1 DEF Recorded
<1>17. Waiting'
  <2>1. ASSUME NEW d \in Computers, NEW i \in DOMAIN cache'[d]
        PROVE  /\ cache'[d][i].n \in DOMAIN sent'
               /\ sent'[cache'[d][i].n].service = cache'[d][i].service
    <3>1. CASE i \in DOMAIN cache[d] /\ cache'[d][i] = cache[d][i]
      BY <1>5, <3>1 DEF Inv, Waiting
    <3>2. CASE cache'[d][i] = Entry(m, req)
      BY <1>3, <1>5, <1>12, <3>2 DEF Entry
    <3> QED BY <1>9, <3>1, <3>2 DEF NewCache
  <2> QED BY <2>1 DEF Waiting
<1>18. NothingForgotten'
  <2>1. ASSUME NEW d \in Computers, NEW i \in DOMAIN cache'[d]
        PROVE  cache'[d][i].service \notin registered'[d]
    <3>1. CASE i \in DOMAIN cache[d] /\ cache'[d][i] = cache[d][i]
      BY <1>8, <3>1 DEF Inv, NothingForgotten
    <3>2. CASE d = c /\ K /\ cache'[d][i] = Entry(m, req)
      BY <1>7, <1>8, <3>2 DEF Entry, Effect
    <3> QED BY <1>9, <3>1, <3>2 DEF NewCache
  <2> QED BY <2>1 DEF NothingForgotten
<1>19. \A d \in Computers, s \in Services : \A i \in DOMAIN delivered[d][s] : delivered[d][s][i] \in DOMAIN sent
  BY DEF Inv, Recorded
<1>20. \A d \in Computers, s \in Services : delivered'[d][s] \in Seq(1 .. MaxMessages)
  BY <1>14 DEF TypeOK
<1>21. AtMostOnce' /\ RecordedTwice'
  <2>1. ASSUME NEW d \in Computers, NEW s \in Services,
               NEW i \in DOMAIN delivered'[d][s], NEW j \in DOMAIN delivered'[d][s],
               NEW n, n = delivered'[d][s][i], n = delivered'[d][s][j], IsBroadcast(n)', i # j
        PROVE  /\ sent'[n].origin = d /\ ~Recognised(d)
               /\ \A k \in DOMAIN delivered'[d][s] : delivered'[d][s][k] = n => k \in {i, j}
               /\ sent'[n].timeout < now' \/ Mark(n)' \in received'[d]
    <3> DEFINE Old(k) == k \in DOMAIN delivered[d][s] /\ delivered'[d][s][k] = delivered[d][s][k]
    <3>1. CASE n = N
      <4>1. ~Old(i) /\ ~Old(j)
        BY <1>5, <1>19, <2>1, <3>1
      <4>2. i <= j /\ j <= i
        BY <1>9, <4>1 DEF NewDelivered
      <4>3. i \in Nat /\ j \in Nat
        BY <1>20
      <4> QED BY <2>1, <4>2, <4>3
    <3>2. CASE n # N
      <4>1. \A k \in DOMAIN delivered'[d][s] : delivered'[d][s][k] = n => Old(k)
        BY <1>9, <3>2 DEF NewDelivered
      <4>2. /\ i \in DOMAIN delivered[d][s] /\ delivered[d][s][i] = n
            /\ j \in DOMAIN delivered[d][s] /\ delivered[d][s][j] = n
        BY <2>1, <4>1
      <4>3. n \in DOMAIN sent
        BY <1>19, <4>2
      <4>4. IsBroadcast(n) /\ sent'[n] = sent[n]
        BY <1>5, <2>1, <4>3 DEF IsBroadcast
      <4>5. /\ sent[n].origin = d /\ ~Recognised(d)
            /\ \A k \in DOMAIN delivered[d][s] : delivered[d][s][k] = n => k \in {i, j}
            /\ sent[n].timeout < now \/ Mark(n) \in received[d]
        <5>1. AtMostOnce /\ RecordedTwice
          BY DEF Inv
        <5> QED BY <2>1, <4>2, <4>4, <5>1, TwoPlaces
      <4>6. \A k \in DOMAIN delivered'[d][s] : delivered'[d][s][k] = n => k \in {i, j}
        BY <4>1, <4>5
      <4>7. Mark(n) \in received[d] => Mark(n) \in received'[d] \/ sent[n].timeout < now
        BY <1>7 DEF Effect, Mark
      <4>8. Mark(n)' = Mark(n) /\ now' = now
        BY <1>8, <4>4 DEF Mark
      <4> QED BY <4>4, <4>5, <4>6, <4>7, <4>8
    <3> QED BY <3>1, <3>2
  <2> QED BY <2>1 DEF AtMostOnce, RecordedTwice
<1>22. ScopeIsKept'
  <2>1. ASSUME NEW d \in Computers, NEW s \in Services, NEW i \in DOMAIN delivered'[d][s],
               NEW n, n = delivered'[d][s][i], IsBroadcast(n)'
        PROVE  d \in Scope(n)'
    <3>1. CASE i \in DOMAIN delivered[d][s] /\ n = delivered[d][s][i]
      BY <1>5, <1>19, <2>1, <3>1 DEF Inv, ScopeIsKept, IsBroadcast, Scope
    <3>2. CASE d = c /\ n = N
      BY <1>5, <1>12, <3>2 DEF Scope
    <3> QED BY <1>9, <2>1, <3>1, <3>2 DEF NewDelivered
  <2> QED BY <2>1 DEF ScopeIsKept
<1>23. \A a, b \in DOMAIN sent : \A d \in Computers : Earlier(a, b, d) => Earlier(a, b, d)'
  BY <1>5 DEF Earlier
<1>24. \A a \in DOMAIN sent : \A d \in Computers : Earlier(a, N, d)'
  BY <1>5 DEF Earlier
<1>25. \A x, y \in Computers : \A i \in DOMAIN queue[x][y] :
           /\ queue[x][y][i].n \in DOMAIN sent
           /\ sent[queue[x][y][i].n].server = y => x = sent[queue[x][y][i].n].origin
  <2>1. OnLinks /\ \A y \in Computers : y # "*"
    BY DEF Inv, Wide
  <2> QED BY <2>1 DEF OnLinks
<1>26. \A d \in Computers : \A i \in DOMAIN cache[d] : cache[d][i].n \in DOMAIN sent
  BY DEF Inv, Waiting
<1>27. /\ \A x, y \in Computers : queue'[x][y] \in Seq(Message)
       /\ \A d \in Computers : cache'[d] \in Seq(Entries)
  BY <1>7 DEF Effect, Queues
<1>28. QueueInOrder'
  <2>1. ASSUME NEW x \in Computers, NEW y \in Computers,
               NEW i \in DOMAIN queue'[x][y], NEW j \in DOMAIN queue'[x][y], i < j,
               NEW a, a = queue'[x][y][i].n, NEW b, b = queue'[x][y][j].n
        PROVE  Earlier(a, b, y)'
    <3>1. i \in DOMAIN queue[x][y] /\ queue'[x][y][i] = queue[x][y][i]
      BY <1>9, <1>27, <2>1 DEF NewQueue
    <3>2. CASE j \in DOMAIN queue[x][y] /\ queue'[x][y][j] = queue[x][y][j]
      BY <1>23, <1>25, <2>1, <3>1, <3>2 DEF Inv, QueueInOrder
    <3>3. CASE b = N
      BY <1>24, <1>25, <2>1, <3>1, <3>3
    <3> QED BY <1>9, <1>11, <2>1, <3>2, <3>3 DEF NewQueue
  <2> QED BY <2>1 DEF QueueInOrder
<1>29. ASSUME NEW x \in Computers, NEW j \in DOMAIN queue'[x][c], NEW b, b = queue'[x][c][j].n
       PROVE  Earlier(N, b, c)'
  <2>1. j \in DOMAIN queue[x][c] /\ queue'[x][c][j] = queue[x][c][j]
    BY <1>1, <1>9, <1>10, <1>29 DEF NewQueue
  <2>2. sent[b].server = c => x # c
    BY <1>1, <1>13, <1>25, <1>29, <2>1
  <2>3. sent[b].server = c => sent[b].origin # c
    BY <1>1, <1>25, <1>29, <2>1, <2>2
  <2>4. sent'[b] = sent[b] /\ sent'[N].origin = c
    BY <1>1, <1>5, <1>12, <1>25, <1>29, <2>1
  <2> QED BY <2>3, <2>4 DEF Earlier
<1>30. DeliveredBeforeQueue'
  <2>1. ASSUME NEW x \in Computers, NEW d \in Computers, NEW s \in Services,
               NEW i \in DOMAIN delivered'[d][s], NEW j \in DOMAIN queue'[x][d],
               NEW a, a = delivered'[d][s][i], NEW b, b = queue'[x][d][j].n
        PROVE  Earlier(a, b, d)'
    <3>1. CASE d = c /\ a = N
      BY <1>29, <2>1, <3>1
    <3>2. CASE i \in DOMAIN delivered[d][s] /\ a = delivered[d][s][i]
      <4>1. CASE j \in DOMAIN queue[x][d] /\ queue'[x][d][j] = queue[x][d][j]
        BY <1>19, <1>23, <1>25, <2>1, <3>2, <4>1 DEF Inv, DeliveredBeforeQueue
      <4>2. CASE b = N
        BY <1>19, <1>24, <2>1, <3>2, <4>2
      <4> QED BY <1>9, <1>11, <2>1, <4>1, <4>2 DEF NewQueue
    <3> QED BY <1>9, <2>1, <3>1, <3>2 DEF NewDelivered
  <2> QED BY <2>1 DEF DeliveredBeforeQueue
<1>31. CacheBeforeQueue'
  <2>1. ASSUME NEW x \in Computers, NEW d \in Computers,
               NEW i \in DOMAIN cache'[d], NEW j \in DOMAIN queue'[x][d],
               NEW a, a = cache'[d][i].n, NEW b, b = queue'[x][d][j].n
        PROVE  Earlier(a, b, d)'
    <3>1. CASE d = c /\ a = N
      BY <1>29, <2>1, <3>1
    <3>2. CASE i \in DOMAIN cache[d] /\ cache'[d][i] = cache[d][i]
      <4>1. CASE j \in DOMAIN queue[x][d] /\ queue'[x][d][j] = queue[x][d][j]
        BY <1>23, <1>25, <1>26, <2>1, <3>2, <4>1 DEF Inv, CacheBeforeQueue
      <4>2. CASE b = N
        BY <1>24, <1>26, <2>1, <3>2, <4>2
      <4> QED BY <1>9, <1>11, <2>1, <4>1, <4>2 DEF NewQueue
    <3>3. Entry(m, req).n = N
      BY <1>3 DEF Entry
    <3> QED BY <1>9, <2>1, <3>1, <3>2, <3>3 DEF NewCache
  <2> QED BY <2>1 DEF CacheBeforeQueue
<1>32. CacheInOrder'
  <2>1. ASSUME NEW d \in Computers, NEW i \in DOMAIN cache'[d], NEW j \in DOMAIN cache'[d], i < j,
               NEW a, a = cache'[d][i].n, NEW b, b = cache'[d][j].n
        PROVE  Earlier(a, b, d)'
    <3>1. i \in DOMAIN cache[d] /\ cache'[d][i] = cache[d][i]
      BY <1>9, <1>27, <2>1 DEF NewCache
    <3>2. CASE j \in DOMAIN cache[d] /\ cache'[d][j] = cache[d][j]
      BY <1>23, <1>26, <2>1, <3>1, <3>2 DEF Inv, CacheInOrder
    <3>3. CASE b = N
      BY <1>24, <1>26, <2>1, <3>1, <3>3
    <3>4. Entry(m, req).n = N
      BY <1>3 DEF Entry
    <3> QED BY <1>9, <2>1, <3>2, <3>3, <3>4 DEF NewCache
  <2> QED BY <2>1 DEF CacheInOrder
<1>33. DeliveredBeforeCache'
  <2>1. ASSUME NEW d \in Computers, NEW s \in Services,
               NEW i \in DOMAIN delivered'[d][s], NEW j \in DOMAIN cache'[d], cache'[d][j].service = s,
               NEW a, a = delivered'[d][s][i], NEW b, b = cache'[d][j].n
        PROVE  Earlier(a, b, d)'
    <3>1. ~(d = c /\ s \in S)
      <4>1. s \notin registered'[d]
        BY <1>18, <2>1 DEF NothingForgotten
      <4> QED BY <1>8, <1>10, <4>1
    <3>2. i \in DOMAIN delivered[d][s] /\ a = delivered[d][s][i]
      BY <1>9, <2>1, <3>1 DEF NewDelivered
    <3>3. CASE j \in DOMAIN cache[d] /\ cache'[d][j] = cache[d][j]
      BY <1>19, <1>23, <1>26, <2>1, <3>2, <3>3 DEF Inv, DeliveredBeforeCache
    <3>4. CASE b = N
      BY <1>19, <1>24, <2>1, <3>2, <3>4
    <3>5. Entry(m, req).n = N
      BY <1>3 DEF Entry
    <3> QED BY <1>9, <2>1, <3>3, <3>4, <3>5 DEF NewCache
  <2> QED BY <2>1 DEF DeliveredBeforeCache
<1>34. ArrivesInOrder'
  <2>1. ASSUME NEW d \in Computers, NEW s \in Services,
               NEW i \in DOMAIN delivered'[d][s], NEW j \in DOMAIN delivered'[d][s], i < j,
               NEW a, a = delivered'[d][s][i], NEW b, b = delivered'[d][s][j]
        PROVE  Earlier(a, b, d)'
    <3>1. i \in DOMAIN delivered[d][s] /\ a = delivered[d][s][i]
      BY <1>9, <1>20, <2>1 DEF NewDelivered
    <3>2. CASE j \in DOMAIN delivered[d][s] /\ b = delivered[d][s][j]
      <4>1. Earlier(a, b, d)
        BY <2>1, <3>1, <3>2 DEF Inv, ArrivesInOrder, Earlier
      <4> QED BY <1>19, <1>23, <2>1, <3>1, <3>2, <4>1
    <3>3. CASE b = N
      BY <1>19, <1>24, <2>1, <3>1, <3>3
    <3> QED BY <1>9, <2>1, <3>2, <3>3 DEF NewDelivered
  <2> QED BY <2>1 DEF ArrivesInOrder, Earlier
<1> QED BY <1>14, <1>15, <1>16, <1>17, <1>18, <1>21, <1>22, <1>28, <1>30, <1>31, <1>32, <1>33, <1>34 DEF Inv

\* Nothing is sent, waits or was delivered.
LEMMA InitInv == Init => Inv
<1> SUFFICES ASSUME Init PROVE Inv
  OBVIOUS
<1> USE NumbersAssumption
<1>1. TypeOK
  BY DEF Init, TypeOK
<1>2. /\ \A x, y \in Computers : DOMAIN queue[x][y] = {}
      /\ \A c \in Computers : DOMAIN cache[c] = {}
      /\ \A c \in Computers, s \in Services : DOMAIN delivered[c][s] = {}
  BY DEF Init
<1> QED BY <1>1, <1>2 DEF Inv, OnLinks, Recorded, RecordedTwice, Waiting, NothingForgotten, AtMostOnce,
           ScopeIsKept, QueueInOrder, DeliveredBeforeQueue, CacheBeforeQueue, CacheInOrder, DeliveredBeforeCache,
           ArrivesInOrder

\* Where the element i of the link from u to y was before x's first message to c
\* was taken.
Place(x, c, u, y, i) == IF u = x /\ y = c THEN i + 1 ELSE i

\* The links without that message.
Rest(x, c) == [queue EXCEPT ![x][c] = Tail(@)]

\* What is left on the links is what was there.
LEMMA RestElements ==
    ASSUME NEW x \in Computers, NEW c \in Computers, queue \in Queues, queue[x][c] # <<>>,
           NEW rest, rest = Rest(x, c)
    PROVE  /\ rest \in Queues
           /\ \A u, y \in Computers : \A i \in DOMAIN rest[u][y] :
                 /\ Place(x, c, u, y, i) \in DOMAIN queue[u][y]
                 /\ rest[u][y][i] = queue[u][y][Place(x, c, u, y, i)]
           /\ \A u, y \in Computers : rest[u][y] # <<>> => queue[u][y] # <<>>
<1>1. /\ queue[x][c] \in Seq(Message) /\ Tail(queue[x][c]) \in Seq(Message)
      /\ \A i \in DOMAIN Tail(queue[x][c]) :
            i + 1 \in DOMAIN queue[x][c] /\ Tail(queue[x][c])[i] = queue[x][c][i + 1]
  BY DEF Queues
<1>0. rest = [queue EXCEPT ![x][c] = Tail(@)]
  BY DEF Rest
<1>2. \A u, y \in Computers : rest[u][y] = IF u = x /\ y = c THEN Tail(queue[u][y]) ELSE queue[u][y]
  BY <1>0 DEF Queues
<1>3. rest \in Queues
  BY <1>0, <1>1 DEF Queues
<1>4. ASSUME NEW u \in Computers, NEW y \in Computers, NEW i \in DOMAIN rest[u][y]
      PROVE  /\ Place(x, c, u, y, i) \in DOMAIN queue[u][y]
             /\ rest[u][y][i] = queue[u][y][Place(x, c, u, y, i)]
  <2>1. CASE u = x /\ y = c
    <3>1. rest[u][y] = Tail(queue[x][c]) /\ Place(x, c, u, y, i) = i + 1
      BY <1>2, <2>1 DEF Place
    <3> QED BY <1>1, <1>4, <2>1, <3>1
  <2>2. CASE ~(u = x /\ y = c)
    BY <1>2, <1>4, <2>2 DEF Place
  <2> QED BY <2>1, <2>2
<1> QED BY <1>1, <1>2, <1>3, <1>4

\* Receive: the message that is read is the first of its link; it is ignored if it
\* is too old or was received, and else goes through process_message().
LEMMA ReceiveKeeps ==
    ASSUME Inv, NEW x \in Computers, NEW c \in Computers, Receive(x, c)
    PROVE  Inv'
<1> USE LinkAssumption, NamesAssumption, NumbersAssumption
<1>0. PICK m, rest : m = Head(queue[x][c]) /\ rest = [queue EXCEPT ![x][c] = Tail(@)]
  OBVIOUS
<1>1. PICK N, req : N = m.n /\ req = sent[N]
  OBVIOUS
<1>2. /\ TypeOK /\ queue \in Queues /\ queue[x][c] # <<>> /\ queue[x][c] \in Seq(Message)
      /\ sent \in Seq(Sent) /\ now \in Nat
  <2>1. TypeOK /\ queue[x][c] # <<>>
    BY DEF Inv, Receive
  <2>2. queue \in Queues /\ sent \in Seq(Sent) /\ now \in Nat
    BY <2>1 DEF TypeOK, Queues
  <2>3. queue[x][c] \in Seq(Message)
    BY <2>2 DEF Queues
  <2> QED BY <2>1, <2>2, <2>3
<1>3. m \in Message /\ 1 \in DOMAIN queue[x][c] /\ m = queue[x][c][1]
  BY <1>0, <1>2
<1>4. /\ rest \in Queues
      /\ \A u, y \in Computers : \A i \in DOMAIN rest[u][y] :
            /\ Place(x, c, u, y, i) \in DOMAIN queue[u][y]
            /\ rest[u][y][i] = queue[u][y][Place(x, c, u, y, i)]
      /\ \A u, y \in Computers : rest[u][y] # <<>> => queue[u][y] # <<>>
  <2>1. queue \in Queues /\ queue[x][c] # <<>> /\ rest = Rest(x, c)
    BY <1>0, <1>2 DEF Rest
  <2> QED BY <2>1, RestElements
<1>5. /\ N \in DOMAIN sent /\ m.hops # 0 /\ N \in 1 .. MaxMessages
      /\ MyAddress[req.origin] \in m.informed
      /\ Recognised(req.origin) => c # req.origin
      /\ req.service \in Wide => c \in Scope(N) /\ req.server = "*"
      /\ req.server # "*" => x = req.origin /\ c = req.server
  BY <1>1, <1>3 DEF Inv, OnLinks, IsBroadcast, Message
<1>6. req \in Sent /\ req.service \in Services \cup Wide /\ req.server \in Computers \cup {"*"}
  <2>1. sent[N] \in Sent
    BY <1>2, <1>5
  <2> QED BY <1>1, <2>1 DEF Sent
<1>7. UNCHANGED <<now, registered, understood, sent, listeners>>
  BY DEF Receive
<1>8. PICK T, S, K : /\ Effect(c, m, req, rest, T, S, K)
                     /\ S # {} => StillValid(req.timeout) /\ ~Seen(c, req.msgid)
  <2>1. CASE StillValid(req.timeout) /\ ~Seen(c, req.msgid)
    <3>1. process_message(c, m, req, rest)
      BY <1>0, <1>1, <2>1 DEF Receive
    <3>2. \E T, S, K : Effect(c, m, req, rest, T, S, K)
      BY <1>1, <1>2, <1>3, <1>4, <1>5, <1>6, <3>1, ProcessEffect
    <3> QED BY <2>1, <3>2
  <2>2. CASE ~(StillValid(req.timeout) /\ ~Seen(c, req.msgid))
    <3>1. queue' = rest /\ UNCHANGED <<received, sequence, cache, delivered>>
      BY <1>0, <1>1, <2>2 DEF Receive
    <3>2. Effect(c, m, req, rest, {}, {}, FALSE)
      BY <1>2, <1>4, <3>1 DEF Effect, TypeOK, Entries, Marks
    <3> QED BY <3>2
  <2> QED BY <2>1, <2>2
<1>9. /\ NewQueue(rest, c, T, Copy(c, m, T))
      /\ NewDelivered(c, S, N)
      /\ NewCache(c, K, Entry(m, req))
  BY <1>1, <1>2, <1>3, <1>4, <1>8, EffectElements
<1>10. /\ T \subseteq Uninformed(c, m) /\ T \subseteq Link[c] /\ c \notin T /\ T \subseteq Computers
       /\ S \subseteq Services /\ S \subseteq registered[c]
       /\ T # {} => req.server = "*"
  <2>1. T # {} /\ req.service \in Services => req.server # c
    BY <1>8 DEF Effect
  <2>2. T # {} /\ req.service \in Wide => req.server = "*"
    BY <1>8 DEF Effect
  <2>3. T \subseteq Uninformed(c, m) /\ T \subseteq Link[c] /\ S \subseteq registered[c]
    BY <1>8 DEF Effect, Uninformed
  <2>4. registered[c] \subseteq Services
    BY <1>2 DEF TypeOK
  <2> QED BY <1>5, <1>6, <2>1, <2>2, <2>3, <2>4
<1>11. /\ Copy(c, m, T) \in Message
       /\ Copy(c, m, T).n = N
       /\ Copy(c, m, T).hops # 0
       /\ m.informed \subseteq Copy(c, m, T).informed
  <2>1. T \in SUBSET Computers
    BY <1>10
  <2>2. m.hops \in Nat /\ m.hops + 1 # 0
    BY <1>3 DEF Message
  <2> QED BY <1>1, <1>3, <2>1, <2>2, CopyType
<1>12. \A u, y \in Computers : \A i \in DOMAIN queue'[u][y] :
          \/ /\ Place(x, c, u, y, i) \in DOMAIN queue[u][y]
             /\ queue'[u][y][i] = queue[u][y][Place(x, c, u, y, i)]
          \/ /\ u = c /\ y \in T /\ queue'[u][y][i] = Copy(c, m, T)
             /\ \A j \in DOMAIN queue'[u][y] : j <= i
  BY <1>4, <1>9 DEF NewQueue
<1>13. /\ \A u, y \in Computers : queue'[u][y] \in Seq(Message)
       /\ \A d \in Computers : cache'[d] \in Seq(Entries)
       /\ \A d \in Computers, s \in Services : delivered'[d][s] \in Seq(1 .. MaxMessages)
  BY <1>8 DEF Effect, Queues
<1>14. TypeOK'
  <2>1. \A u, y \in Computers : queue'[u][y] # <<>> => y \in Link[u]
    <3>1. \A u, y \in Computers : queue[u][y] # <<>> => y \in Link[u]
      BY <1>2 DEF TypeOK
    <3>2. \A u, y \in Computers : queue'[u][y] = rest[u][y] \/ (u = c /\ y \in T)
      BY <1>8 DEF Effect
    <3> QED BY <1>4, <1>10, <3>1, <3>2
  <2> QED BY <1>2, <1>7, <1>8, <2>1 DEF TypeOK, Effect, Queues, Entries, Marks
<1>15. OnLinks'
  <2>1. ASSUME NEW u \in Computers, NEW y \in Computers, NEW i \in DOMAIN queue'[u][y],
               NEW q, q = queue'[u][y][i]
        PROVE  /\ q.n \in DOMAIN sent
               /\ q.hops # 0
               /\ MyAddress[sent[q.n].origin] \in q.informed
               /\ Recognised(sent[q.n].origin) => y # sent[q.n].origin
               /\ IsBroadcast(q.n) => y \in Scope(q.n) /\ sent[q.n].server = "*"
               /\ sent[q.n].server # "*" => u = sent[q.n].origin /\ y = sent[q.n].server
    <3>1. CASE /\ Place(x, c, u, y, i) \in DOMAIN queue[u][y]
               /\ q = queue[u][y][Place(x, c, u, y, i)]
      BY <3>1 DEF Inv, OnLinks
    <3>2. CASE u = c /\ y \in T /\ q = Copy(c, m, T)
      <4>1. q.n = N /\ sent[q.n] = req /\ q.hops # 0 /\ req.server = "*"
        BY <1>1, <1>10, <1>11, <3>2
      <4>2. MyAddress[req.origin] \in q.informed
        BY <1>5, <1>11, <3>2
      <4>3. Recognised(req.origin) => y # req.origin
        <5>1. y \in Link[c] /\ Address[c][y] \notin m.informed
          BY <1>10, <3>2 DEF Uninformed
        <5> QED BY <1>5, <5>1 DEF Recognised
      <4>4. req.service \in Wide => y \in Scope(N)
        BY <1>1, <1>5, <1>8, <3>2 DEF Effect, Scope, Wide
      <4> QED BY <1>5, <4>1, <4>2, <4>3, <4>4 DEF IsBroadcast
    <3> QED BY <1>12, <2>1, <3>1, <3>2
  <2> QED BY <1>7, <2>1 DEF OnLinks, IsBroadcast, Scope
<1>16. Recorded'
  <2>1. ASSUME NEW d \in Computers, NEW s \in Services, NEW i \in DOMAIN delivered'[d][s],
               NEW n, n = delivered'[d][s][i]
        PROVE  /\ n \in DOMAIN sent
               /\ IsBroadcast(n) => \/ d = sent[n].origin
                                    \/ sent[n].timeout < now
                                    \/ Mark(n) \in received'[d]
    <3>1. CASE i \in DOMAIN delivered[d][s] /\ n = delivered[d][s][i]
      <4>1. /\ n \in DOMAIN sent
            /\ IsBroadcast(n) => \/ d = sent[n].origin
                                 \/ sent[n].timeout < now
                                 \/ Mark(n) \in received[d]
        BY <3>1 DEF Inv, Recorded
      <4>2. Mark(n) \in received[d] => Mark(n) \in received'[d] \/ sent[n].timeout < now
        BY <1>8 DEF Effect, Mark
      <4> QED BY <4>1, <4>2
    <3>2. CASE d = c /\ s \in S /\ n = N
      <4>1. IsBroadcast(n) => Mark(n) \in received'[d]
        BY <1>1, <1>5, <1>8, <3>2 DEF Effect, IsBroadcast
      <4> QED BY <1>5, <3>2, <4>1
    <3> QED BY <1>9, <2>1, <3>1, <3>2 DEF NewDelivered
  <2> QED BY <1>7, <2>1 DEF Recorded, IsBroadcast, Mark
<1>17. Waiting'
  <2>1. ASSUME NEW d \in Computers, NEW i \in DOMAIN cache'[d]
        PROVE  /\ cache'[d][i].n \in DOMAIN sent
               /\ sent[cache'[d][i].n].service = cache'[d][i].service
    <3>1. CASE i \in DOMAIN cache[d] /\ cache'[d][i] = cache[d][i]
      BY <3>1 DEF Inv, Waiting
    <3>2. CASE cache'[d][i] = Entry(m, req)
      BY <1>1, <1>5, <3>2 DEF Entry
    <3> QED BY <1>9, <3>1, <3>2 DEF NewCache
  <2> QED BY <1>7, <2>1 DEF Waiting
<1>18. NothingForgotten'
  <2>1. ASSUME NEW d \in Computers, NEW i \in DOMAIN cache'[d]
        PROVE  cache'[d][i].service \notin registered[d]
    <3>1. CASE i \in DOMAIN cache[d] /\ cache'[d][i] = cache[d][i]
      BY <3>1 DEF Inv, NothingForgotten
    <3>2. CASE d = c /\ K /\ cache'[d][i] = Entry(m, req)
      BY <1>8, <3>2 DEF Entry, Effect
    <3> QED BY <1>9, <3>1, <3>2 DEF NewCache
  <2> QED BY <1>7, <2>1 DEF NothingForgotten
<1>19. \A d \in Computers, s \in Services : \A i \in DOMAIN delivered[d][s] : delivered[d][s][i] \in DOMAIN sent
  BY DEF Inv, Recorded
\* A broadcast that is taken again came back to its computer, for the first time.
<1>20. ASSUME S # {}, req.service \in Wide, NEW s \in Services, NEW i \in DOMAIN delivered[c][s],
              delivered[c][s][i] = N
       PROVE  /\ req.origin = c /\ ~Recognised(c)
              /\ \A j \in DOMAIN delivered[c][s] : delivered[c][s][j] = N => j = i
  <2>1. Recorded /\ RecordedTwice /\ AtMostOnce /\ IsBroadcast(N)
    BY <1>1, <1>20 DEF Inv, IsBroadcast
  <2>2. now <= req.timeout /\ req.timeout \in Nat
    BY <1>6, <1>8, <1>20 DEF StillValid, Sent
  <2>3. Mark(N) \notin received[c]
    BY <1>1, <1>8, <1>20 DEF Seen, Mark
  <2>4. ~(req.timeout < now \/ Mark(N) \in received[c])
    BY <1>2, <2>2, <2>3
  <2>5. req.origin = c
    BY <1>1, <1>20, <2>1, <2>4 DEF Recorded
  <2>6. ASSUME NEW j \in DOMAIN delivered[c][s], delivered[c][s][j] = N PROVE j = i
    BY <1>1, <1>20, <2>1, <2>4, <2>6, TwoPlaces
  <2> QED BY <1>5, <2>5, <2>6
<1>21. AtMostOnce' /\ RecordedTwice'
  <2>1. ASSUME NEW d \in Computers, NEW s \in Services,
               NEW i \in DOMAIN delivered'[d][s], NEW j \in DOMAIN delivered'[d][s],
               NEW n, n = delivered'[d][s][i], n = delivered'[d][s][j], IsBroadcast(n), i # j
        PROVE  /\ sent[n].origin = d /\ ~Recognised(d)
               /\ \A k \in DOMAIN delivered'[d][s] : delivered'[d][s][k] = n => k \in {i, j}
               /\ sent[n].timeout < now \/ Mark(n) \in received'[d]
    <3> DEFINE Old(k) == k \in DOMAIN delivered[d][s] /\ delivered[d][s][k] = n
               New(k) == d = c /\ s \in S /\ n = N /\ \A l \in DOMAIN delivered'[d][s] : l <= k
    <3>1. \A k \in DOMAIN delivered'[d][s] : delivered'[d][s][k] = n => Old(k) \/ New(k)
      BY <1>9 DEF NewDelivered
    <3>2. \A k, l \in DOMAIN delivered'[d][s] : New(k) /\ New(l) => k = l
      <4>1. \A k \in DOMAIN delivered'[d][s] : k \in Nat
        BY <1>13
      <4>2. ASSUME NEW k \in DOMAIN delivered'[d][s], NEW l \in DOMAIN delivered'[d][s], New(k), New(l)
            PROVE  k = l
        <5>1. k <= l /\ l <= k
          BY <4>2
        <5> QED BY <4>1, <5>1
      <4> QED BY <4>2
    <3>3. CASE \E l \in DOMAIN delivered'[d][s] : New(l)
      <4>1. d = c /\ s \in S /\ n = N /\ S # {} /\ req.service \in Wide
        BY <1>1, <2>1, <3>3 DEF IsBroadcast
      <4>2. \A k, l \in DOMAIN delivered[c][s] :
               delivered[c][s][k] = N /\ delivered[c][s][l] = N => k = l /\ req.origin = c /\ ~Recognised(c)
        <5> HIDE DEF New, Old
        <5> QED BY <1>20, <4>1
      <4>3. Mark(n) \in received'[d]
        BY <1>1, <1>5, <1>8, <4>1 DEF Effect
      <4> HIDE DEF New
      <4>4. (Old(i) \/ New(i)) /\ (Old(j) \/ New(j))
        BY <2>1, <3>1
      <4>5. ~(New(i) /\ New(j))
        BY <2>1, <3>2
      <4>6. sent[n].origin = d /\ ~Recognised(d)
        BY <1>1, <4>1, <4>2, <4>4, <4>5
      <4>7. ASSUME NEW k \in DOMAIN delivered'[d][s], delivered'[d][s][k] = n PROVE k \in {i, j}
        <5>1. Old(k) \/ New(k)
          BY <3>1, <4>7
        <5>2. New(k) /\ New(i) => k = i
          BY <3>2
        <5>3. New(k) /\ New(j) => k = j
          BY <3>2
        <5>4. ~(Old(i) /\ Old(j))
          BY <2>1, <4>1, <4>2
        <5>5. (Old(k) /\ Old(i) => k = i) /\ (Old(k) /\ Old(j) => k = j)
          BY <4>1, <4>2
        <5> HIDE DEF Old
        <5>6. k = i \/ k = j
          BY <4>4, <4>5, <5>1, <5>2, <5>3, <5>4, <5>5, Zenon
        <5> QED BY <5>6
      <4> QED BY <4>3, <4>6, <4>7
    <3>4. CASE ~ \E l \in DOMAIN delivered'[d][s] : New(l)
      <4>1. \A k \in DOMAIN delivered'[d][s] : delivered'[d][s][k] = n => Old(k)
        <5> HIDE DEF New, Old
        <5> QED BY <3>1, <3>4
      <4>2. Old(i) /\ Old(j)
        BY <2>1, <4>1
      <4>3. AtMostOnce /\ RecordedTwice
        BY DEF Inv
      <4>4. /\ sent[n].origin = d /\ ~Recognised(d)
            /\ \A k \in DOMAIN delivered[d][s] : delivered[d][s][k] = n => k \in {i, j}
            /\ sent[n].timeout < now \/ Mark(n) \in received[d]
        BY <2>1, <4>2, <4>3, TwoPlaces
      <4>5. Mark(n) \in received[d] => Mark(n) \in received'[d] \/ sent[n].timeout < now
        BY <1>8 DEF Effect, Mark
      <4> QED BY <4>1, <4>4, <4>5
    <3> QED BY <3>3, <3>4
  <2>2. \A n : (IsBroadcast(n)' <=> IsBroadcast(n)) /\ Mark(n)' = Mark(n)
    BY <1>7 DEF IsBroadcast, Mark
  <2>3. UNCHANGED <<now, sent>>
    BY <1>7
  <2>4. AtMostOnce'
    BY <2>1, <2>2, <2>3 DEF AtMostOnce
  <2>5. RecordedTwice'
    BY <2>1, <2>2, <2>3 DEF RecordedTwice
  <2> QED BY <2>4, <2>5
<1>22. ScopeIsKept'
  <2>1. ASSUME NEW d \in Computers, NEW s \in Services, NEW i \in DOMAIN delivered'[d][s],
               NEW n, n = delivered'[d][s][i], IsBroadcast(n)
        PROVE  d \in Scope(n)
    <3>1. CASE i \in DOMAIN delivered[d][s] /\ n = delivered[d][s][i]
      BY <2>1, <3>1 DEF Inv, ScopeIsKept
    <3>2. CASE d = c /\ n = N
      BY <1>1, <1>5, <2>1, <3>2 DEF IsBroadcast
    <3> QED BY <1>9, <2>1, <3>1, <3>2 DEF NewDelivered
  <2> QED BY <1>7, <2>1 DEF ScopeIsKept, IsBroadcast, Scope
<1>23. \A a, b, d : Earlier(a, b, d)' <=> Earlier(a, b, d)
  BY <1>7 DEF Earlier
<1>24. ASSUME NEW u \in Computers, NEW j \in DOMAIN queue'[u][c], NEW b, b = queue'[u][c][j].n
       PROVE  Earlier(N, b, c)
  <2>1. SUFFICES ASSUME req.server = c, sent[b].server = c, sent[b].origin = req.origin
                 PROVE  N < b
    BY <1>1 DEF Earlier
  <2>2. /\ Place(x, c, u, c, j) \in DOMAIN queue[u][c]
        /\ queue'[u][c][j] = queue[u][c][Place(x, c, u, c, j)]
    BY <1>10, <1>12, <1>24
  <2>3. req.server # "*"
    BY <2>1 DEF Wide
  <2>4. u = sent[b].origin
    BY <1>24, <2>1, <2>2, <2>3 DEF Inv, OnLinks
  <2>5. u = x
    BY <1>5, <2>1, <2>3, <2>4
  <2>6. Place(x, c, u, c, j) = j + 1 /\ j \in Nat /\ j # 0
    BY <1>13, <2>5 DEF Place
  <2>7. Earlier(N, b, c)
    BY <1>1, <1>3, <1>24, <2>2, <2>5, <2>6 DEF Inv, QueueInOrder
  <2> QED BY <1>1, <2>1, <2>7 DEF Earlier
<1>25. ASSUME NEW y \in T, NEW a PROVE Earlier(a, N, y)
  <2>1. req.server = "*" /\ y # "*"
    BY <1>10 DEF Wide
  <2> QED BY <1>1, <2>1 DEF Earlier
<1>26. QueueInOrder'
  <2>1. ASSUME NEW u \in Computers, NEW y \in Computers,
               NEW i \in DOMAIN queue'[u][y], NEW j \in DOMAIN queue'[u][y], i < j,
               NEW a, a = queue'[u][y][i].n, NEW b, b = queue'[u][y][j].n
        PROVE  Earlier(a, b, y)
    <3>1. CASE y \in T /\ b = N
      BY <1>25, <3>1
    <3>2. CASE /\ Place(x, c, u, y, j) \in DOMAIN queue[u][y]
               /\ queue'[u][y][j] = queue[u][y][Place(x, c, u, y, j)]
      <4>1. i \in Nat /\ j \in Nat
        BY <1>13
      <4>2. /\ Place(x, c, u, y, i) \in DOMAIN queue[u][y]
            /\ queue'[u][y][i] = queue[u][y][Place(x, c, u, y, i)]
        BY <1>12, <2>1, <4>1
      <4>3. Place(x, c, u, y, i) < Place(x, c, u, y, j)
        BY <2>1, <4>1 DEF Place
      <4> QED BY <2>1, <3>2, <4>2, <4>3 DEF Inv, QueueInOrder
    <3> QED BY <1>11, <1>12, <2>1, <3>1, <3>2
  <2> QED BY <1>23, <2>1 DEF QueueInOrder
<1>27. DeliveredBeforeQueue'
  <2>1. ASSUME NEW u \in Computers, NEW d \in Computers, NEW s \in Services,
               NEW i \in DOMAIN delivered'[d][s], NEW j \in DOMAIN queue'[u][d],
               NEW a, a = delivered'[d][s][i], NEW b, b = queue'[u][d][j].n
        PROVE  Earlier(a, b, d)
    <3>1. CASE d = c /\ a = N
      BY <1>24, <2>1, <3>1
    <3>2. CASE d \in T /\ b = N
      BY <1>25, <3>2
    <3>3. CASE /\ i \in DOMAIN delivered[d][s] /\ a = delivered[d][s][i]
               /\ Place(x, c, u, d, j) \in DOMAIN queue[u][d]
               /\ queue'[u][d][j] = queue[u][d][Place(x, c, u, d, j)]
      BY <2>1, <3>3 DEF Inv, DeliveredBeforeQueue
    <3> QED BY <1>9, <1>11, <1>12, <2>1, <3>1, <3>2, <3>3 DEF NewDelivered
  <2> QED BY <1>23, <2>1 DEF DeliveredBeforeQueue
<1>28. Entry(m, req).n = N
  BY <1>1 DEF Entry
<1>29. CacheBeforeQueue'
  <2>1. ASSUME NEW u \in Computers, NEW d \in Computers,
               NEW i \in DOMAIN cache'[d], NEW j \in DOMAIN queue'[u][d],
               NEW a, a = cache'[d][i].n, NEW b, b = queue'[u][d][j].n
        PROVE  Earlier(a, b, d)
    <3>1. CASE d = c /\ a = N
      BY <1>24, <2>1, <3>1
    <3>2. CASE d \in T /\ b = N
      BY <1>25, <3>2
    <3>3. CASE /\ i \in DOMAIN cache[d] /\ cache'[d][i] = cache[d][i]
               /\ Place(x, c, u, d, j) \in DOMAIN queue[u][d]
               /\ queue'[u][d][j] = queue[u][d][Place(x, c, u, d, j)]
      BY <2>1, <3>3 DEF Inv, CacheBeforeQueue
    <3> QED BY <1>9, <1>11, <1>12, <1>28, <2>1, <3>1, <3>2, <3>3 DEF NewCache
  <2> QED BY <1>23, <2>1 DEF CacheBeforeQueue
<1>30. CacheInOrder'
  <2>1. ASSUME NEW d \in Computers, NEW i \in DOMAIN cache'[d], NEW j \in DOMAIN cache'[d], i < j,
               NEW a, a = cache'[d][i].n, NEW b, b = cache'[d][j].n
        PROVE  Earlier(a, b, d)
    <3>1. i \in DOMAIN cache[d] /\ cache'[d][i] = cache[d][i]
      BY <1>9, <1>13, <2>1 DEF NewCache
    <3>2. CASE j \in DOMAIN cache[d] /\ cache'[d][j] = cache[d][j]
      BY <2>1, <3>1, <3>2 DEF Inv, CacheInOrder
    <3>3. CASE d = c /\ b = N
      BY <1>1, <1>3, <2>1, <3>1, <3>3 DEF Inv, CacheBeforeQueue
    <3> QED BY <1>9, <1>28, <2>1, <3>2, <3>3 DEF NewCache
  <2> QED BY <1>23, <2>1 DEF CacheInOrder
<1>31. DeliveredBeforeCache'
  <2>1. ASSUME NEW d \in Computers, NEW s \in Services,
               NEW i \in DOMAIN delivered'[d][s], NEW j \in DOMAIN cache'[d], cache'[d][j].service = s,
               NEW a, a = delivered'[d][s][i], NEW b, b = cache'[d][j].n
        PROVE  Earlier(a, b, d)
    <3>1. ~(d = c /\ s \in S)
      <4>1. s \notin registered'[d]
        BY <1>18, <2>1 DEF NothingForgotten
      <4> QED BY <1>7, <1>10, <4>1
    <3>2. i \in DOMAIN delivered[d][s] /\ a = delivered[d][s][i]
      BY <1>9, <2>1, <3>1 DEF NewDelivered
    <3>3. CASE j \in DOMAIN cache[d] /\ cache'[d][j] = cache[d][j]
      BY <2>1, <3>2, <3>3 DEF Inv, DeliveredBeforeCache
    <3>4. CASE d = c /\ b = N
      BY <1>1, <1>3, <2>1, <3>2, <3>4 DEF Inv, DeliveredBeforeQueue
    <3> QED BY <1>9, <1>28, <2>1, <3>3, <3>4 DEF NewCache
  <2> QED BY <1>23, <2>1 DEF DeliveredBeforeCache
<1>32. ArrivesInOrder'
  <2>1. ASSUME NEW d \in Computers, NEW s \in Services,
               NEW i \in DOMAIN delivered'[d][s], NEW j \in DOMAIN delivered'[d][s], i < j,
               NEW a, a = delivered'[d][s][i], NEW b, b = delivered'[d][s][j]
        PROVE  Earlier(a, b, d)
    <3>1. i \in DOMAIN delivered[d][s] /\ a = delivered[d][s][i]
      BY <1>9, <1>13, <2>1 DEF NewDelivered
    <3>2. CASE j \in DOMAIN delivered[d][s] /\ b = delivered[d][s][j]
      BY <2>1, <3>1, <3>2 DEF Inv, ArrivesInOrder, Earlier
    <3>3. CASE d = c /\ b = N
      BY <1>1, <1>3, <2>1, <3>1, <3>3 DEF Inv, DeliveredBeforeQueue
    <3> QED BY <1>9, <2>1, <3>2, <3>3 DEF NewDelivered
  <2>2. \A d \in Computers, s \in Services : \A i, j \in DOMAIN delivered'[d][s] :
           i < j => Earlier(delivered'[d][s][i], delivered'[d][s][j], d)
    BY <2>1
  <2> QED BY <1>7, <2>2 DEF ArrivesInOrder, Earlier
<1> QED BY <1>14, <1>15, <1>16, <1>17, <1>18, <1>21, <1>22, <1>26, <1>27, <1>29, <1>30, <1>31, <1>32 DEF Inv

\* A selection of a selection is one of the first sequence.
LEMMA PickTwice ==
    ASSUME NEW E, NEW s \in Seq(E), NEW I, NEW t, t = Pick(s, I),
           NEW J \in SUBSET DOMAIN t, NEW u, u = Pick(t, J)
    PROVE  /\ u \in Seq(E)
           /\ Picked(u, s, DOMAIN s)
           /\ \A i \in DOMAIN u : \E k \in J : u[i] = t[k]
<1>1. t \in Seq(E) /\ Picked(t, s, I)
  BY PickIsPicked
<1>3. u \in Seq(E) /\ Picked(u, t, J)
  BY <1>1, PickIsPicked
<1>4. PICK g \in [DOMAIN t -> I \cap DOMAIN s] :
          /\ \A i \in DOMAIN t : t[i] = s[g[i]]
          /\ \A i, j \in DOMAIN t : i < j => g[i] < g[j]
  BY <1>1 DEF Picked
<1>5. PICK h \in [DOMAIN u -> J \cap DOMAIN t] :
          /\ \A i \in DOMAIN u : u[i] = t[h[i]]
          /\ \A i, j \in DOMAIN u : i < j => h[i] < h[j]
  BY <1>3 DEF Picked
<1> DEFINE k == [i \in DOMAIN u |-> g[h[i]]]
<1>6. \A i \in DOMAIN u : h[i] \in J /\ h[i] \in DOMAIN t /\ g[h[i]] \in DOMAIN s
  BY <1>4, <1>5
<1>7. k \in [DOMAIN u -> DOMAIN s \cap DOMAIN s]
  BY <1>6
<1>8. \A i \in DOMAIN u : u[i] = s[k[i]]
  BY <1>4, <1>5, <1>6
<1>9. \A i, j \in DOMAIN u : i < j => k[i] < k[j]
  BY <1>4, <1>5, <1>6
<1> HIDE DEF k
<1>10. Picked(u, s, DOMAIN s)
  BY <1>7, <1>8, <1>9 DEF Picked
<1> QED BY <1>3, <1>5, <1>6, <1>10

\* An element of p \o q is one of p, or one of q behind all of p.
LEMMA ConcatElements ==
    ASSUME NEW E, NEW p \in Seq(E), NEW q \in Seq(E), NEW i \in DOMAIN (p \o q)
    PROVE  \/ i \in DOMAIN p /\ (p \o q)[i] = p[i]
           \/ i - Len(p) \in DOMAIN q /\ (p \o q)[i] = q[i - Len(p)] /\ \A j \in DOMAIN p : j < i
  OBVIOUS

\* Register: the cache loses the service's entries and the ones that timed out; the
\* service gets the former behind what it got before.
LEMMA RegisterKeeps ==
    ASSUME Inv, NEW c \in Computers, NEW s \in Services, Register(c, s)
    PROVE  Inv'
<1> USE NamesAssumption, NumbersAssumption
<1>1. PICK V, valid : /\ V = {i \in DOMAIN cache[c] : CacheValid(cache[c][i].timeout)}
                      /\ valid = Pick(cache[c], V)
  OBVIOUS
<1>2. PICK left, mine : left = LeftInCache(valid, s) /\ mine = Forwarded(valid, s)
  OBVIOUS
<1>3. /\ TypeOK /\ cache[c] \in Seq(Entries) /\ cache \in [Computers -> Seq(Entries)]
      /\ delivered \in [Computers -> [Services -> Seq(1 .. MaxMessages)]]
  <2>1. TypeOK
    BY DEF Inv
  <2>2. /\ cache \in [Computers -> Seq(Entries)]
        /\ delivered \in [Computers -> [Services -> Seq(1 .. MaxMessages)]]
    BY <2>1 DEF TypeOK, Entries
  <2> QED BY <2>1, <2>2
<1>4. /\ left \in Seq(Entries)
      /\ Picked(left, cache[c], DOMAIN cache[c])
      /\ \A i \in DOMAIN left : left[i].service # s
  <2>1. PICK J : J = DOMAIN valid \ For(valid, s)
    OBVIOUS
  <2>2. /\ left \in Seq(Entries)
        /\ Picked(left, cache[c], DOMAIN cache[c])
        /\ \A i \in DOMAIN left : \E k \in J : left[i] = valid[k]
    <3>1. J \in SUBSET DOMAIN valid /\ left = Pick(valid, J)
      BY <1>2, <2>1 DEF LeftInCache
    <3>2. PICK all : all = cache[c]
      OBVIOUS
    <3>3. all \in Seq(Entries) /\ valid = Pick(all, V)
      BY <1>1, <1>3, <3>2
    <3>4. left \in Seq(Entries) /\ Picked(left, all, DOMAIN all)
          /\ \A i \in DOMAIN left : \E k \in J : left[i] = valid[k]
      BY <3>1, <3>3, PickTwice
    <3> QED BY <3>2, <3>4
  <2> QED BY <2>1, <2>2 DEF For
<1>5. /\ mine \in Seq(Entries)
      /\ Picked(mine, cache[c], DOMAIN cache[c])
      /\ \A i \in DOMAIN mine : mine[i].service = s
  <2>1. PICK J : J = For(valid, s)
    OBVIOUS
  <2>2. /\ mine \in Seq(Entries)
        /\ Picked(mine, cache[c], DOMAIN cache[c])
        /\ \A i \in DOMAIN mine : \E k \in J : mine[i] = valid[k]
    <3>1. J \in SUBSET DOMAIN valid /\ mine = Pick(valid, J)
      BY <1>2, <2>1 DEF Forwarded, For
    <3>2. PICK all : all = cache[c]
      OBVIOUS
    <3>3. all \in Seq(Entries) /\ valid = Pick(all, V)
      BY <1>1, <1>3, <3>2
    <3>4. mine \in Seq(Entries) /\ Picked(mine, all, DOMAIN all)
          /\ \A i \in DOMAIN mine : \E k \in J : mine[i] = valid[k]
      BY <3>1, <3>3, PickTwice
    <3> QED BY <3>2, <3>4
  <2> QED BY <2>1, <2>2 DEF For
<1>6. PICK g \in [DOMAIN left -> DOMAIN cache[c]] :
          /\ \A i \in DOMAIN left : left[i] = cache[c][g[i]]
          /\ \A i, j \in DOMAIN left : i < j => g[i] < g[j]
  BY <1>4 DEF Picked
<1>7. PICK h \in [DOMAIN mine -> DOMAIN cache[c]] :
          /\ \A i \in DOMAIN mine : mine[i] = cache[c][h[i]]
          /\ \A i, j \in DOMAIN mine : i < j => h[i] < h[j]
  BY <1>5 DEF Picked
<1>8. UNCHANGED <<now, understood, queue, received, sequence, sent, listeners>>
  BY DEF Register
<1>9. /\ cache' = [cache EXCEPT ![c] = left]
      /\ delivered' = [delivered EXCEPT ![c][s] = @ \o Numbers(mine)]
      /\ registered' = [registered EXCEPT ![c] = @ \cup {s}]
  BY <1>1, <1>2 DEF Register
<1>10. /\ Numbers(mine) \in Seq(1 .. MaxMessages)
       /\ DOMAIN Numbers(mine) = DOMAIN mine
       /\ \A i \in DOMAIN mine : Numbers(mine)[i] = mine[i].n
  <2>1. \A i \in DOMAIN mine : mine[i].n \in 1 .. MaxMessages
    <3>1. \A i \in DOMAIN mine : mine[i] \in Entries
      BY <1>5
    <3> QED BY <3>1 DEF Entries
  <2>2. DOMAIN mine = 1 .. Len(mine) /\ Len(mine) \in Nat
    BY <1>5
  <2>3. Numbers(mine) = [i \in 1 .. Len(mine) |-> mine[i].n]
    BY <2>2 DEF Numbers
  <2> QED BY <2>1, <2>2, <2>3
<1>11. /\ cache' \in [Computers -> Seq(Entries)]
       /\ delivered' \in [Computers -> [Services -> Seq(1 .. MaxMessages)]]
       /\ registered' \in [Computers -> SUBSET Services]
       /\ \A d \in Computers : cache'[d] = IF d = c THEN left ELSE cache[d]
       /\ \A d \in Computers, t \in Services :
             delivered'[d][t] = IF d = c /\ t = s THEN delivered[c][s] \o Numbers(mine) ELSE delivered[d][t]
       /\ \A d \in Computers : registered'[d] = IF d = c THEN registered[d] \cup {s} ELSE registered[d]
  <2>1. cache' \in [Computers -> Seq(Entries)] /\ \A d \in Computers : cache'[d] = IF d = c THEN left ELSE cache[d]
    BY <1>3, <1>4, <1>9
  <2>2. /\ registered' \in [Computers -> SUBSET Services]
        /\ \A d \in Computers : registered'[d] = IF d = c THEN registered[d] \cup {s} ELSE registered[d]
    <3>1. registered \in [Computers -> SUBSET Services]
      BY <1>3 DEF TypeOK
    <3> QED BY <1>9, <3>1
  <2>3. delivered[c][s] \o Numbers(mine) \in Seq(1 .. MaxMessages)
    <3>1. delivered[c][s] \in Seq(1 .. MaxMessages)
      BY <1>3
    <3> QED BY <1>10, <3>1
  <2>4. /\ delivered' \in [Computers -> [Services -> Seq(1 .. MaxMessages)]]
        /\ \A d \in Computers, t \in Services :
              delivered'[d][t] = IF d = c /\ t = s THEN delivered[c][s] \o Numbers(mine) ELSE delivered[d][t]
    <3> DEFINE both == delivered[c][s] \o Numbers(mine)
    <3>1. delivered' = [delivered EXCEPT ![c][s] = both]
      BY <1>9
    <3>2. both \in Seq(1 .. MaxMessages)
      BY <2>3
    <3> HIDE DEF both
    <3>3. /\ delivered' \in [Computers -> [Services -> Seq(1 .. MaxMessages)]]
          /\ \A d \in Computers, t \in Services :
                delivered'[d][t] = IF d = c /\ t = s THEN both ELSE delivered[d][t]
      BY <1>3, <3>1, <3>2
    <3> QED BY <3>3 DEF both
  <2> QED BY <2>1, <2>2, <2>4
<1>12. PICK L : L = Len(delivered[c][s])
  OBVIOUS
<1>13. \A d \in Computers, t \in Services : \A i \in DOMAIN delivered'[d][t] :
          \/ i \in DOMAIN delivered[d][t] /\ delivered'[d][t][i] = delivered[d][t][i]
          \/ /\ d = c /\ t = s /\ i - L \in DOMAIN mine /\ delivered'[d][t][i] = mine[i - L].n
             /\ \A j \in DOMAIN delivered[d][t] : j < i
  <2>1. ASSUME NEW d \in Computers, NEW t \in Services, NEW i \in DOMAIN delivered'[d][t], d = c, t = s
        PROVE  \/ i \in DOMAIN delivered[d][t] /\ delivered'[d][t][i] = delivered[d][t][i]
               \/ /\ i - L \in DOMAIN mine /\ delivered'[d][t][i] = mine[i - L].n
                  /\ \A j \in DOMAIN delivered[d][t] : j < i
    <3>1. delivered[c][s] \in Seq(1 .. MaxMessages)
      BY <1>3
    <3>2. delivered'[d][t] = delivered[c][s] \o Numbers(mine)
      BY <1>11, <2>1
    <3>3. PICK p, q : p = delivered[c][s] /\ q = Numbers(mine)
      OBVIOUS
    <3>4. p \in Seq(1 .. MaxMessages) /\ q \in Seq(1 .. MaxMessages) /\ i \in DOMAIN (p \o q)
      BY <1>10, <2>1, <3>1, <3>2, <3>3
    <3>5. \/ i \in DOMAIN p /\ (p \o q)[i] = p[i]
          \/ i - Len(p) \in DOMAIN q /\ (p \o q)[i] = q[i - Len(p)] /\ \A j \in DOMAIN p : j < i
      BY <3>4, ConcatElements, Zenon
    <3>6. delivered'[d][t] = p \o q /\ delivered[d][t] = p /\ L = Len(p)
      BY <1>12, <2>1, <3>2, <3>3
    <3>7. DOMAIN q = DOMAIN mine /\ \A k \in DOMAIN mine : q[k] = mine[k].n
      BY <1>10, <3>3
    <3> QED BY <3>5, <3>6, <3>7
  <2> QED BY <1>11, <2>1
<1>14. \A d \in Computers : \A i \in DOMAIN cache'[d] :
          \/ d # c /\ i \in DOMAIN cache[d] /\ cache'[d][i] = cache[d][i]
          \/ /\ d = c /\ i \in DOMAIN left /\ g[i] \in DOMAIN cache[d]
             /\ cache'[d][i] = left[i] /\ cache'[d][i] = cache[d][g[i]]
  BY <1>6, <1>11
<1>15. \A i \in DOMAIN mine : /\ h[i] \in DOMAIN cache[c] /\ mine[i].n = cache[c][h[i]].n
                              /\ cache[c][h[i]].service = s
                              /\ mine[i].n \in DOMAIN sent /\ sent[mine[i].n].service = s
                              /\ ~IsBroadcast(mine[i].n)
  <2>1. \A i \in DOMAIN mine : /\ h[i] \in DOMAIN cache[c] /\ mine[i].n = cache[c][h[i]].n
                               /\ cache[c][h[i]].service = s
    BY <1>5, <1>7
  <2>2. \A i \in DOMAIN cache[c] : cache[c][i].n \in DOMAIN sent /\ sent[cache[c][i].n].service = cache[c][i].service
    BY DEF Inv, Waiting
  <2>3. s \notin Wide
    OBVIOUS
  <2> QED BY <2>1, <2>2, <2>3 DEF IsBroadcast
<1>16. \A a, b, d : Earlier(a, b, d)' <=> Earlier(a, b, d)
  BY <1>8 DEF Earlier
<1>17. TypeOK'
  <2>1. \A d \in Computers : understood'[d] \subseteq registered'[d]
    BY <1>3, <1>8, <1>11 DEF TypeOK
  <2> QED BY <1>3, <1>8, <1>11, <2>1 DEF TypeOK, Entries
<1>18. OnLinks' /\ QueueInOrder'
  BY <1>8, <1>16 DEF Inv, OnLinks, QueueInOrder, IsBroadcast, Scope
<1>19. Recorded'
  <2>1. ASSUME NEW d \in Computers, NEW t \in Services, NEW i \in DOMAIN delivered'[d][t],
               NEW n, n = delivered'[d][t][i]
        PROVE  /\ n \in DOMAIN sent
               /\ IsBroadcast(n) => \/ d = sent[n].origin
                                    \/ sent[n].timeout < now
                                    \/ Mark(n) \in received[d]
    <3>1. CASE i \in DOMAIN delivered[d][t] /\ n = delivered[d][t][i]
      BY <3>1 DEF Inv, Recorded
    <3>2. CASE i - L \in DOMAIN mine /\ n = mine[i - L].n
      BY <1>15, <3>2
    <3> QED BY <1>13, <2>1, <3>1, <3>2
  <2> QED BY <1>8, <2>1 DEF Recorded, IsBroadcast, Mark
<1>20. Waiting'
  <2>1. \A d \in Computers : \A i \in DOMAIN cache'[d] : \E k \in DOMAIN cache[d] : cache'[d][i] = cache[d][k]
    BY <1>14
  <2> QED BY <1>8, <2>1 DEF Inv, Waiting
<1>21. NothingForgotten'
  <2>1. ASSUME NEW d \in Computers, NEW i \in DOMAIN cache'[d]
        PROVE  cache'[d][i].service \notin registered'[d]
    <3>1. \A k \in DOMAIN cache[d] : cache[d][k].service \notin registered[d]
      BY DEF Inv, NothingForgotten
    <3>2. CASE d = c
      <4>1. i \in DOMAIN left /\ cache'[d][i] = left[i] /\ g[i] \in DOMAIN cache[d] /\ left[i] = cache[d][g[i]]
        BY <1>14, <3>2
      <4>2. left[i].service # s /\ left[i].service \notin registered[d]
        BY <1>4, <3>1, <4>1
      <4>3. registered'[d] = registered[d] \cup {s}
        BY <1>11, <3>2
      <4> QED BY <4>1, <4>2, <4>3
    <3>3. CASE d # c
      BY <1>11, <1>14, <3>1, <3>3
    <3> QED BY <3>2, <3>3
  <2> QED BY <2>1 DEF NothingForgotten
<1>22. AtMostOnce' /\ RecordedTwice'
  <2>1. ASSUME NEW d \in Computers, NEW t \in Services,
               NEW i \in DOMAIN delivered'[d][t], NEW j \in DOMAIN delivered'[d][t],
               NEW n, n = delivered'[d][t][i], n = delivered'[d][t][j], IsBroadcast(n), i # j
        PROVE  /\ sent[n].origin = d /\ ~Recognised(d)
               /\ \A k \in DOMAIN delivered'[d][t] : delivered'[d][t][k] = n => k \in {i, j}
               /\ sent[n].timeout < now \/ Mark(n) \in received[d]
    <3>1. \A k \in DOMAIN delivered'[d][t] :
             delivered'[d][t][k] = n => k \in DOMAIN delivered[d][t] /\ delivered[d][t][k] = n
      BY <1>13, <1>15, <2>1
    <3>2. AtMostOnce /\ RecordedTwice
      BY DEF Inv
    <3>3. /\ i \in DOMAIN delivered[d][t] /\ delivered[d][t][i] = n
          /\ j \in DOMAIN delivered[d][t] /\ delivered[d][t][j] = n
      BY <2>1, <3>1
    <3>4. /\ sent[n].origin = d /\ ~Recognised(d)
          /\ \A k \in DOMAIN delivered[d][t] : delivered[d][t][k] = n => k \in {i, j}
          /\ sent[n].timeout < now \/ Mark(n) \in received[d]
      BY <2>1, <3>2, <3>3, TwoPlaces
    <3> QED BY <3>1, <3>4
  <2>2. \A n : (IsBroadcast(n)' <=> IsBroadcast(n)) /\ Mark(n)' = Mark(n)
    BY <1>8 DEF IsBroadcast, Mark
  <2>3. UNCHANGED <<now, sent, received>>
    BY <1>8
  <2>4. AtMostOnce'
    BY <2>1, <2>2, <2>3 DEF AtMostOnce
  <2>5. RecordedTwice'
    BY <2>1, <2>2, <2>3 DEF RecordedTwice
  <2> QED BY <2>4, <2>5
<1>23. ScopeIsKept'
  <2>1. ASSUME NEW d \in Computers, NEW t \in Services, NEW i \in DOMAIN delivered'[d][t],
               NEW n, n = delivered'[d][t][i], IsBroadcast(n)
        PROVE  d \in Scope(n)
    <3>1. i \in DOMAIN delivered[d][t] /\ delivered[d][t][i] = n
      BY <1>13, <1>15, <2>1
    <3> QED BY <2>1, <3>1 DEF Inv, ScopeIsKept
  <2> QED BY <1>8, <2>1 DEF ScopeIsKept, IsBroadcast, Scope
<1>24. DeliveredBeforeQueue'
  <2>1. ASSUME NEW u \in Computers, NEW d \in Computers, NEW t \in Services,
               NEW i \in DOMAIN delivered'[d][t], NEW j \in DOMAIN queue[u][d],
               NEW a, a = delivered'[d][t][i]
        PROVE  Earlier(a, queue[u][d][j].n, d)
    <3>1. CASE i \in DOMAIN delivered[d][t] /\ a = delivered[d][t][i]
      BY <3>1 DEF Inv, DeliveredBeforeQueue
    <3>2. CASE d = c /\ i - L \in DOMAIN mine /\ a = mine[i - L].n
      BY <1>15, <3>2 DEF Inv, CacheBeforeQueue
    <3> QED BY <1>13, <2>1, <3>1, <3>2
  <2> QED BY <1>8, <1>16, <2>1 DEF DeliveredBeforeQueue
<1>25. CacheBeforeQueue'
  <2>1. ASSUME NEW u \in Computers, NEW d \in Computers,
               NEW i \in DOMAIN cache'[d], NEW j \in DOMAIN queue[u][d]
        PROVE  Earlier(cache'[d][i].n, queue[u][d][j].n, d)
    <3>1. PICK k \in DOMAIN cache[d] : cache'[d][i] = cache[d][k]
      BY <1>14
    <3> QED BY <3>1 DEF Inv, CacheBeforeQueue
  <2> QED BY <1>8, <1>16, <2>1 DEF CacheBeforeQueue
<1>26. CacheInOrder'
  <2>1. ASSUME NEW d \in Computers, NEW i \in DOMAIN cache'[d], NEW j \in DOMAIN cache'[d], i < j
        PROVE  Earlier(cache'[d][i].n, cache'[d][j].n, d)
    <3>1. CASE d # c
      BY <1>14, <2>1, <3>1 DEF Inv, CacheInOrder
    <3>2. CASE d = c
      <4>1. /\ g[i] \in DOMAIN cache[c] /\ g[j] \in DOMAIN cache[c] /\ g[i] < g[j]
            /\ cache'[d][i] = cache[c][g[i]] /\ cache'[d][j] = cache[c][g[j]]
        BY <1>6, <1>14, <2>1, <3>2
      <4> QED BY <3>2, <4>1 DEF Inv, CacheInOrder
    <3> QED BY <3>1, <3>2
  <2> QED BY <1>16, <2>1 DEF CacheInOrder
<1>27. DeliveredBeforeCache'
  <2>1. ASSUME NEW d \in Computers, NEW t \in Services,
               NEW i \in DOMAIN delivered'[d][t], NEW j \in DOMAIN cache'[d], cache'[d][j].service = t
        PROVE  Earlier(delivered'[d][t][i], cache'[d][j].n, d)
    <3>1. PICK k \in DOMAIN cache[d] : cache'[d][j] = cache[d][k]
      BY <1>14
    <3>2. ~(d = c /\ t = s)
      BY <1>4, <1>14, <2>1
    <3>3. i \in DOMAIN delivered[d][t] /\ delivered'[d][t][i] = delivered[d][t][i]
      BY <1>13, <2>1, <3>2
    <3> QED BY <2>1, <3>1, <3>3 DEF Inv, DeliveredBeforeCache
  <2> QED BY <1>16, <2>1 DEF DeliveredBeforeCache
<1>28. ArrivesInOrder'
  <2>1. ASSUME NEW d \in Computers, NEW t \in Services,
               NEW i \in DOMAIN delivered'[d][t], NEW j \in DOMAIN delivered'[d][t], i < j,
               NEW a, a = delivered'[d][t][i], NEW b, b = delivered'[d][t][j]
        PROVE  Earlier(a, b, d)
    <3>1. CASE /\ i \in DOMAIN delivered[d][t] /\ a = delivered[d][t][i]
               /\ j \in DOMAIN delivered[d][t] /\ b = delivered[d][t][j]
      BY <2>1, <3>1 DEF Inv, ArrivesInOrder, Earlier
    <3>2. CASE /\ i \in DOMAIN delivered[d][t] /\ a = delivered[d][t][i]
               /\ d = c /\ t = s /\ j - L \in DOMAIN mine /\ b = mine[j - L].n
      BY <1>15, <3>2 DEF Inv, DeliveredBeforeCache
    <3>3. CASE /\ d = c /\ t = s /\ i - L \in DOMAIN mine /\ a = mine[i - L].n
               /\ j - L \in DOMAIN mine /\ b = mine[j - L].n
      <4>1. h[i - L] < h[j - L]
        <5>1. i \in Nat /\ j \in Nat /\ L \in Nat
          <6>1. delivered'[d][t] \in Seq(1 .. MaxMessages) /\ delivered[c][s] \in Seq(1 .. MaxMessages)
            BY <1>3, <1>11
          <6> QED BY <1>12, <6>1
        <5>2. i - L < j - L
          BY <2>1, <5>1
        <5> QED BY <1>7, <3>3, <5>2
      <4> QED BY <1>15, <3>3, <4>1 DEF Inv, CacheInOrder
    <3>4. ASSUME i \notin DOMAIN delivered[d][t] \/ delivered'[d][t][i] # delivered[d][t][i]
          PROVE  ~(j \in DOMAIN delivered[d][t])
      <4>1. \A k \in DOMAIN delivered[d][t] : k < i
        BY <1>13, <3>4
      <4>2. delivered'[d][t] \in Seq(1 .. MaxMessages)
        BY <1>11
      <4>3. i \in Nat /\ j \in Nat
        BY <4>2
      <4> QED BY <2>1, <4>1, <4>3
    <3> QED BY <1>13, <2>1, <3>1, <3>2, <3>3, <3>4
  <2>2. \A d \in Computers, t \in Services : \A i, j \in DOMAIN delivered'[d][t] :
           i < j => Earlier(delivered'[d][t][i], delivered'[d][t][j], d)
    BY <2>1
  <2> QED BY <1>8, <2>2 DEF ArrivesInOrder, Earlier
<1> QED BY <1>17, <1>18, <1>19, <1>20, <1>21, <1>22, <1>23, <1>24, <1>25, <1>26, <1>27, <1>28 DEF Inv

\* The rest of Inv does not depend on what the other steps change.
LEMMA QuietKeeps ==
    ASSUME Inv, TypeOK', NothingForgotten', now <= now', now' \in Nat,
           UNCHANGED <<queue, received, cache, sent, delivered>>
    PROVE  Inv'
<1>1. Recorded' /\ RecordedTwice'
  <2>1. \A n \in DOMAIN sent : sent[n].timeout \in Nat
    <3>1. sent \in Seq(Sent)
      BY DEF Inv, TypeOK
    <3>2. \A n \in DOMAIN sent : sent[n] \in Sent
      BY <3>1
    <3> QED BY <3>2 DEF Sent
  <2>2. Recorded /\ RecordedTwice /\ now \in Nat
    BY DEF Inv, TypeOK
  <2>3. Recorded'
    BY <2>1, <2>2 DEF Recorded, IsBroadcast, Mark
  <2>4. \A d \in Computers, s \in Services : \A i \in DOMAIN delivered[d][s] : delivered[d][s][i] \in DOMAIN sent
    BY <2>2 DEF Recorded
  <2>5. RecordedTwice'
    BY <2>1, <2>2, <2>4 DEF RecordedTwice, IsBroadcast, Mark
  <2> QED BY <2>3, <2>5
<1>2. OnLinks' /\ Waiting' /\ AtMostOnce' /\ ScopeIsKept'
  BY DEF Inv, OnLinks, Waiting, AtMostOnce, ScopeIsKept, IsBroadcast, Scope
<1>3. /\ QueueInOrder' /\ DeliveredBeforeQueue' /\ CacheBeforeQueue' /\ CacheInOrder'
      /\ DeliveredBeforeCache' /\ ArrivesInOrder'
  BY DEF Inv, QueueInOrder, DeliveredBeforeQueue, CacheBeforeQueue, CacheInOrder, DeliveredBeforeCache,
         ArrivesInOrder, Earlier
<1> QED BY <1>1, <1>2, <1>3 DEF Inv

\* Every step keeps the invariant.
LEMMA InvKept == Inv /\ [Next]_vars => Inv'
<1> SUFFICES ASSUME Inv, [Next]_vars PROVE Inv'
  OBVIOUS
<1> USE NumbersAssumption
<1>0. TypeOK /\ NothingForgotten /\ now \in Nat
  BY DEF Inv, TypeOK
<1>1. ASSUME NEW req \in Inputs, Send(req) PROVE Inv'
  BY <1>1, SendKeeps
<1>2. ASSUME NEW x \in Computers, NEW c \in Computers, Receive(x, c) PROVE Inv'
  BY <1>2, ReceiveKeeps
<1>3. ASSUME NEW c \in Computers, NEW s \in Services, Register(c, s) PROVE Inv'
  BY <1>3, RegisterKeeps
<1>4. ASSUME NEW c \in Computers, NEW s \in Services, Commands(c, s) PROVE Inv'
  <2>1. TypeOK'
    BY <1>0, <1>4 DEF Commands, TypeOK
  <2> QED BY <1>0, <1>4, <2>1, QuietKeeps DEF Commands, NothingForgotten
<1>5. ASSUME NEW c \in Computers, NEW s \in Services, Unregister(c, s) PROVE Inv'
  <2>1. TypeOK'
    <3>1. registered \in [Computers -> SUBSET Services] /\ understood \in [Computers -> SUBSET Services]
      BY <1>0 DEF TypeOK
    <3>2. /\ registered' \in [Computers -> SUBSET Services] /\ understood' \in [Computers -> SUBSET Services]
          /\ \A d \in Computers : understood'[d] \subseteq registered'[d]
      <4>1. \A d \in Computers : understood[d] \subseteq registered[d]
        BY <1>0 DEF TypeOK
      <4> QED BY <1>5, <3>1, <4>1 DEF Unregister, Forgotten
    <3>3. listeners' \in [1 .. MaxMessages -> SUBSET (Computers \X Services)]
      BY <1>0, <1>5 DEF Unregister, TypeOK
    <3> QED BY <1>0, <1>5, <3>2, <3>3 DEF Unregister, TypeOK
  <2>2. NothingForgotten'
    BY <1>0, <1>5 DEF Unregister, NothingForgotten, TypeOK
  <2> QED BY <1>0, <1>5, <2>1, <2>2, QuietKeeps DEF Unregister
<1>6. ASSUME Tick PROVE Inv'
  <2>1. TypeOK'
    <3>1. now' \in Nat /\ UNCHANGED <<registered, understood, queue, received, sequence, cache, sent, listeners, delivered>>
      BY <1>0, <1>6 DEF Tick
    <3> QED BY <1>0, <3>1 DEF TypeOK
  <2> QED BY <1>0, <1>6, <2>1, QuietKeeps DEF Tick, NothingForgotten
<1>7. ASSUME UNCHANGED vars PROVE Inv'
  <2>1. TypeOK'
    BY <1>0, <1>7 DEF vars, TypeOK
  <2> QED BY <1>0, <1>7, <2>1, QuietKeeps DEF vars, NothingForgotten
<1> QED BY <1>1, <1>2, <1>3, <1>4, <1>5, <1>6, <1>7 DEF Next

\* It always holds.
LEMMA InvHolds == Spec => []Inv
  BY InitInv, InvKept, PTL DEF Spec

-----------------------------------------------------------------------------

\* The maps of snap_communicator_server and the messages on the links have their
\* types, whatever the services send, and a computer only sends on its links.
THEOREM TypeCorrect == Spec => []TypeOK
<1>1. Inv => TypeOK
  BY DEF Inv
<1> QED BY <1>1, InvHolds, PTL

\* broadcast_message(): in a cluster of any shape, with any number of messages and
\* any delay of a link, and whatever address each computer has for each of its
\* neighbors, no service gets a broadcast twice, but for those of the computer that
\* sent it: they get it at most twice, and only if another computer knows theirs
\* under another address than the one it writes in its list of informed neighbors.
THEOREM BroadcastsOnce == Spec => []AtMostOnce
<1>1. Inv => AtMostOnce
  BY DEF Inv
<1> QED BY <1>1, InvHolds, PTL

\* broadcast_message(): no path of links takes a broadcast out of its network.
THEOREM BroadcastsStayInScope == Spec => []ScopeIsKept
<1>1. Inv => ScopeIsKept
  BY DEF Inv
<1> QED BY <1>1, InvHolds, PTL

\* process_message() and REGISTER: a service that is registered has no message left
\* in f_local_message_cache.
THEOREM CacheIsEmptied == Spec => []NothingForgotten
<1>1. Inv => NothingForgotten
  BY DEF Inv
<1> QED BY <1>1, InvHolds, PTL

\* process_message() and REGISTER: the messages of one computer to a service of
\* another one arrive in their order and once, through the links and the cache.
THEOREM DirectedInOrder == Spec => []ArrivesInOrder
<1>1. Inv => ArrivesInOrder
  BY DEF Inv
<1> QED BY <1>1, InvHolds, PTL

=============================================================================
