------------------------ MODULE SnapLockBakeryProofs ------------------------
(***************************************************************************)
(* The bakery argument of snaplock, proved for one computer (OneDaemon)    *)
(* and for any number of clients that each ask for the lock once           *)
(* (AskOnce), whatever the timeouts, deaths and delays:                    *)
(*   HeldLocksKeepTickets   Spec => []HeldLockKeepsTicket                  *)
(*   LockExcludes           Spec => []MutualExclusion                      *)
(*   DaemonImplementsLock   Spec => ImplementsLock                         *)
(* and, before the first timeout can expire (NeverLate):                   *)
(*   DaemonNeverAborts      Spec => []NoAbort                              *)
(*   NothingIsLeft          Spec => []NothingLeftBehind, if no client      *)
(*                          stops or dies (MayStop = {})                   *)
(*   TicketsAreOrdered      Spec => []BakeryOrder                          *)
(*   GrantsAreOrdered       Spec => GrantsFollowTickets                    *)
(* The runs bound the hypotheses: ThreeServers, RemoteExpiry and Retry     *)
(* violate MutualExclusion with more daemons or with clients that ask      *)
(* again, LateTicket violates NoAbort with a timeout.                      *)
(***************************************************************************)
EXTENDS SnapLockProofs

\* One computer, and clients that create one snap_lock object each.
OneDaemon == \A s, t \in Servers : s = t
AskOnce   == MaxLocks = 1

-----------------------------------------------------------------------------
(* The inductive invariant.                                                *)

\* The messages on their way to daemon t.
Mail(t) == {inbox[t][i] : i \in DOMAIN inbox[t]}

\* Request r is in f_tickets.
Held(nd, r) == \E u \in nd.tickets : u[2] = r

\* The messages that take an entering request to its lock, and the ones that end it.
Entries == {"LOCKENTERING", "LOCKENTERED", "GETMAXTICKET", "MAXTICKET", "ADDTICKET",
            "TICKETADDED", "LOCKEXITING"}
Exits   == {"UNLOCK", "DROPTICKET"}

\* A client has one message on its way at most.
Alone(q) == \A i, j \in DOMAIN q : q[i].key = q[j].key => i = j

\* The order in which a ticket object goes through its life.
Memory(nd) ==
    \A r \in Requests :
        LET tk == nd.ticket[r]
        IN  /\ \A u \in nd.tickets : u[2] = r => u[1] = tk.our_ticket /\ tk.added_ticket
            /\ tk.added_ticket_quorum => tk.added_ticket
            /\ tk.ticket_ready => tk.added_ticket_quorum /\ tk.still_entering = {}
            /\ tk.locked => tk.ticket_ready

\* What message m says of the ticket of its client.
StageOf(nd, m, n) ==
    LET r  == <<m.key, 1>>
        tk == nd.ticket[r]
    IN  /\ m.cmd \notin Exits => ~tk.locked
        /\ m.cmd \in {"LOCK", "LOCKENTERING", "LOCKENTERED", "GETMAXTICKET", "MAXTICKET"}
           => ~tk.added_ticket /\ tk.our_ticket = 0
        /\ m.cmd = "ADDTICKET" => ~Held(nd, r)
        /\ m.cmd \in {"ADDTICKET", "TICKETADDED"}
           => tk.added_ticket /\ tk.our_ticket = m.id /\ ~tk.added_ticket_quorum
        /\ m.cmd = "LOCKEXITING" => TimedOut(tk, n) \/ r \in tk.still_entering
        /\ m.cmd \in Entries \ {"LOCKENTERING"} => TimedOut(tk, n) \/ r \in nd.entering

Stage(nd, mail, n) == \A m \in mail : StageOf(nd, m, n)

\* The bakery: a request r that q does not wait for (any more) will have a larger
\* number than q, or is in f_tickets; and behind q once q is granted.
Numbered(nd, q, r, m) ==
    m.key = Key(r) => /\ m.cmd = "MAXTICKET" => m.id >= nd.ticket[q].our_ticket
                      /\ m.cmd = "ADDTICKET" => m.id > nd.ticket[q].our_ticket

Passed(nd, q, r, n) ==
    /\ q # r
    /\ Held(nd, q)
    /\ nd.ticket[q].added_ticket_quorum
    /\ r \notin nd.ticket[q].still_entering
    /\ ~TimedOut(nd.ticket[q], n)
    /\ ~TimedOut(nd.ticket[r], n)

Behind(nd, q, r) ==
    nd.ticket[q].locked /\ Held(nd, r)
    => Before(<<nd.ticket[q].our_ticket, q>>, <<nd.ticket[r].our_ticket, r>>)

Order(nd, mail, n) ==
    \A q, r \in Requests : Passed(nd, q, r, n) =>
        /\ \A m \in mail : Numbered(nd, q, r, m)
        /\ Behind(nd, q, r)

Bakery(nd, mail, n) == Memory(nd) /\ Stage(nd, mail, n) /\ Order(nd, mail, n)

\* What client c knows and was sent is what the daemon granted, and its ticket
\* stays in f_tickets.
Told(c, nd, mail, answers) ==
    LET r  == <<c, 1>>
        tk == nd.ticket[r]
    IN  /\ client[c].service = 0 => /\ \A m \in mail : m.key # c
                                    /\ ~tk.added_ticket /\ tk.our_ticket = 0
        /\ \A m \in mail : m.key = c /\ m.cmd \in Exits => ~Connected(c)
        /\ IF client[c].state = "locked"
           THEN tk.locked /\ client[c].timeout_date = tk.lock_timeout
           ELSE client[c].timeout_date = 0
        /\ \A i \in DOMAIN answers :
              IF answers[i].cmd = "LOCKED"
              THEN tk.locked /\ answers[i].timeout_date = tk.lock_timeout
              ELSE answers[i].timeout_date = 0
        /\ Connected(c) /\ tk.locked /\ ~TimedOut(tk, now) => Held(nd, r)

BakeryInv ==
    /\ MatchInv
    /\ \A t \in Servers :
          /\ \A s \in Servers : link[s][t] = <<>>
          /\ Alone(inbox[t])
          /\ Bakery(node[t], Mail(t), now)
          /\ \A c \in Clients : Told(c, node[t], Mail(t), toClient[c])

-----------------------------------------------------------------------------
(* What activate_first_lock() and cleanup() do to the bakery.              *)

\* Nothing but its lock changes in a ticket.
SameNumber(was, is) ==
    /\ is.obtention_timeout = was.obtention_timeout
    /\ is.our_ticket = was.our_ticket
    /\ is.added_ticket = was.added_ticket
    /\ is.added_ticket_quorum = was.added_ticket_quorum
    /\ is.still_entering = was.still_entering
    /\ is.ticket_ready = was.ticket_ready

\* The ticket of r is granted: it is ready and ahead of every live ticket.
Granted(old, new, r, n) ==
    /\ old.ticket[r].ticket_ready
    /\ ~TimedOut(old.ticket[r], n)
    /\ ~TimedOut(new.ticket[r], n)
    /\ \E v \in new.tickets :
          /\ v[2] = r
          /\ \A u \in new.tickets : u = v \/ Before(v, u) \/ TimedOut(old.ticket[u[2]], n)

\* Only what timed out leaves the maps; a lock that is granted stays.
Settles(old, new, n) ==
    /\ new.tickets \subseteq old.tickets
    /\ new.entering \subseteq old.entering
    /\ \A u \in old.tickets \ new.tickets : TimedOut(old.ticket[u[2]], n)
    /\ \A r \in old.entering \ new.entering : TimedOut(new.ticket[r], n)
    /\ \A r \in Requests :
          LET was == old.ticket[r]
              is  == new.ticket[r]
          IN  /\ SameNumber(was, is)
              /\ was.locked => is.locked /\ is.lock_timeout = was.lock_timeout
              /\ is.locked /\ ~was.locked => Granted(old, new, r, n)

LEMMA FailTicketsSame ==
    ASSUME NEW nd \in Node, NEW s, NEW D \in SUBSET nd.tickets, NEW r \in Requests
    PROVE  LET was == nd.ticket[r]
               is  == FailTickets(nd, s, D).ticket[r]
           IN  /\ SameNumber(was, is)
               /\ is.locked = was.locked
               /\ is.lock_timeout = was.lock_timeout
<1> DEFINE was == nd.ticket[r]
<1>1. was \in Ticket
  BY DEF Node
<1>2. FailTickets(nd, s, D).ticket[r] =
        IF Home[Key(r)] = s /\ \E t \in D : t[2] = r
        THEN [was EXCEPT !.lock_failed = TRUE] ELSE was
  BY DEF FailTickets, Node
<1> HIDE DEF was
<1>3. LET is == [was EXCEPT !.lock_failed = TRUE]
      IN  SameNumber(was, is) /\ is.locked = was.locked /\ is.lock_timeout = was.lock_timeout
  BY <1>1 DEF Ticket, SameNumber
<1> QED
  BY <1>2, <1>3 DEF was, SameNumber

\* lock_failed() on tickets that timed out.
LEMMA FailTicketsSettles ==
    ASSUME NEW nd \in Node, NEW s, NEW n, NEW D \in SUBSET nd.tickets,
           \A u \in D : TimedOut(nd.ticket[u[2]], n)
    PROVE  Settles(nd, FailTickets(nd, s, D), n)
BY FailTicketsMaps, FailTicketsSame DEF Settles

\* Settling is transitive.
LEMMA SettlesTwice ==
    ASSUME NEW a \in Node, NEW b \in Node, NEW c \in Node, NEW n \in Nat,
           Settles(a, b, n), Settles(b, c, n)
    PROVE  Settles(a, c, n)
<1>1. ASSUME NEW r \in Requests
      PROVE  /\ SameNumber(a.ticket[r], c.ticket[r])
             /\ a.ticket[r].locked => /\ c.ticket[r].locked
                                      /\ c.ticket[r].lock_timeout = a.ticket[r].lock_timeout
             /\ TimedOut(b.ticket[r], n) => TimedOut(a.ticket[r], n)
             /\ TimedOut(b.ticket[r], n) => TimedOut(c.ticket[r], n)
  BY <1>1 DEF Settles, SameNumber, TimedOut, Granted
<1>2. /\ a.tickets \in SUBSET (Nat \X Requests) /\ a.entering \in SUBSET Requests
      /\ b.tickets \in SUBSET (Nat \X Requests) /\ b.entering \in SUBSET Requests
  BY DEF Node
<1>3. /\ c.tickets \subseteq a.tickets /\ c.entering \subseteq a.entering
      /\ \A u \in a.tickets \ c.tickets : TimedOut(a.ticket[u[2]], n)
      /\ \A r \in a.entering \ c.entering : TimedOut(c.ticket[r], n)
  BY <1>1, <1>2 DEF Settles
<1>4. ASSUME NEW r \in Requests, c.ticket[r].locked, ~a.ticket[r].locked
      PROVE  Granted(a, c, r, n)
  <2>1. CASE b.ticket[r].locked
    <3>1. Granted(a, b, r, n)
      BY <1>4, <2>1 DEF Settles
    <3>2. PICK v \in b.tickets :
             /\ v[2] = r
             /\ \A u \in b.tickets : u = v \/ Before(v, u) \/ TimedOut(a.ticket[u[2]], n)
      BY <3>1 DEF Granted
    <3>3. ~TimedOut(b.ticket[r], n)
      BY <3>1 DEF Granted
    <3>4. v \in c.tickets /\ c.tickets \subseteq b.tickets
      BY <3>2, <3>3 DEF Settles
    <3>5. ~TimedOut(c.ticket[r], n)
      BY <2>1, <3>3 DEF Settles, TimedOut
    <3> QED
      BY <3>1, <3>2, <3>4, <3>5 DEF Granted
  <2>2. CASE ~b.ticket[r].locked
    <3>1. Granted(b, c, r, n)
      BY <1>4, <2>2 DEF Settles
    <3>2. PICK v \in c.tickets :
             /\ v[2] = r
             /\ \A u \in c.tickets : u = v \/ Before(v, u) \/ TimedOut(b.ticket[u[2]], n)
      BY <3>1 DEF Granted
    <3>3. \A u \in c.tickets : u[2] \in Requests
      BY <1>2 DEF Settles
    <3>4. /\ a.ticket[r].ticket_ready
          /\ ~TimedOut(a.ticket[r], n)
          /\ ~TimedOut(c.ticket[r], n)
      BY <1>4, <2>2, <3>1 DEF Granted, Settles, SameNumber, TimedOut
    <3> QED
      BY <1>1, <3>2, <3>3, <3>4 DEF Granted
  <2> QED
    BY <2>1, <2>2
<1> QED
  BY <1>1, <1>3, <1>4 DEF Settles

\* activate_first_lock() settles a node.
LEMMA ActivateFirstLockSettles ==
    ASSUME NEW nd \in Node, NEW s, NEW n \in Nat
    PROVE  Settles(nd, ActivateFirstLock(nd, s, n), n)
<1> DEFINE live    == {t \in nd.tickets : ~TimedOut(nd.ticket[t[2]], n)}
           first   == {t \in live : \A u \in live : u = t \/ Before(t, u)}
           expired == {t \in nd.tickets \ live : \A u \in live : Before(t, u)}
           left    == FailTickets(nd, s, expired)
           new     == ActivateFirstLock(nd, s, n)
<1>1. expired \in SUBSET nd.tickets /\ \A u \in expired : TimedOut(nd.ticket[u[2]], n)
  OBVIOUS
<1>2. left \in Node
  BY FailTicketsType
<1>3. Settles(nd, left, n)
  BY <1>1, FailTicketsSettles
<1>4. /\ left.tickets = nd.tickets \ expired
      /\ left.entering = nd.entering
  BY <1>1, FailTicketsMaps
<1>5. \A r \in Requests :
          /\ SameNumber(nd.ticket[r], left.ticket[r])
          /\ left.ticket[r].locked = nd.ticket[r].locked
          /\ left.ticket[r].lock_timeout = nd.ticket[r].lock_timeout
  BY <1>1, FailTicketsSame
<1>6. new = [left EXCEPT !.ticket = [r \in Requests |->
            IF Grantable(left, s, r) /\ \E t \in first : t[2] = r
            THEN ActivateLock(left, r, n)
            ELSE left.ticket[r]]]
  BY DEF ActivateFirstLock
<1>7. ASSUME NEW v \in first
      PROVE  /\ v \in left.tickets /\ v[2] \in Requests /\ ~TimedOut(nd.ticket[v[2]], n)
             /\ \A u \in left.tickets : u = v \/ Before(v, u) \/ TimedOut(nd.ticket[u[2]], n)
  BY <1>4 DEF Node
<1> HIDE DEF live, first, expired, left, new
<1>8. /\ new.tickets = left.tickets
      /\ new.entering = left.entering
      /\ \A r \in Requests : new.ticket[r] =
            IF Grantable(left, s, r) /\ \E t \in first : t[2] = r
            THEN ActivateLock(left, r, n)
            ELSE left.ticket[r]
  BY <1>2, <1>6 DEF Node
<1>9. ASSUME NEW r \in Requests
      PROVE  LET is == ActivateLock(left, r, n)
             IN  /\ SameNumber(left.ticket[r], is)
                 /\ is.locked
                 /\ is.lock_timeout >= n
  <2>1. left.ticket[r] \in Ticket
    BY <1>2 DEF Node
  <2>2. Duration[Key(r)] \in Nat
    BY RequestsType, DurationAssumption
  <2> QED
    BY <2>1, <2>2 DEF ActivateLock, Ticket, SameNumber
<1>10. ASSUME NEW r \in Requests
       PROVE  LET was == left.ticket[r]
                  is  == new.ticket[r]
              IN  /\ SameNumber(was, is)
                  /\ was.locked => is.locked /\ is.lock_timeout = was.lock_timeout
                  /\ is.locked /\ ~was.locked => Granted(left, new, r, n)
  <2>1. CASE Grantable(left, s, r) /\ \E t \in first : t[2] = r
    <3>1. PICK v \in first : v[2] = r
      BY <2>1
    <3>2. new.ticket[r] = ActivateLock(left, r, n)
      BY <1>8, <2>1
    <3>3. /\ left.ticket[r].ticket_ready
          /\ ~left.ticket[r].locked
      BY <2>1 DEF Grantable
    <3>4. \A q \in Requests : TimedOut(left.ticket[q], n) <=> TimedOut(nd.ticket[q], n)
      BY <1>5 DEF TimedOut, SameNumber
    <3>5. ~TimedOut(left.ticket[r], n)
      BY <1>7, <3>1, <3>4
    <3>6. ~TimedOut(new.ticket[r], n)
      <4>1. new.ticket[r].locked /\ new.ticket[r].lock_timeout >= n
        BY <1>9, <3>2
      <4>2. new.ticket[r].lock_timeout \in Nat
        BY <1>2, <3>2, ActivateLockType DEF Ticket
      <4> QED
        BY <4>1, <4>2 DEF TimedOut
    <3>7. /\ v \in new.tickets
          /\ \A u \in new.tickets : u[2] \in Requests
      BY <1>2, <1>7, <1>8 DEF Node
    <3>8. Granted(left, new, r, n)
      BY <1>7, <1>8, <3>1, <3>3, <3>4, <3>5, <3>6, <3>7 DEF Granted
    <3> QED
      BY <1>9, <3>2, <3>3, <3>8
  <2>2. CASE ~(Grantable(left, s, r) /\ \E t \in first : t[2] = r)
    BY <1>8, <2>2 DEF SameNumber
  <2> QED
    BY <2>1, <2>2
<1>11. Settles(left, new, n)
  BY <1>8, <1>10 DEF Settles
<1>12. new \in Node
  BY ActivateFirstLockType DEF new
<1> QED
  BY <1>2, <1>3, <1>11, <1>12, SettlesTwice DEF new

\* cleanup() settles a node.
LEMMA CleanupSettles ==
    ASSUME NEW nd \in Node, NEW s, NEW n \in Nat
    PROVE  Settles(nd, Cleanup(nd, s, n), n)
<1> DEFINE expired == {t \in nd.tickets : TimedOut(nd.ticket[t[2]], n)}
           failed  == FailTickets(nd, s, expired)
           left    == IF expired = {} THEN nd ELSE ActivateFirstLock(failed, s, n)
           new     == Cleanup(nd, s, n)
<1>1. failed \in Node /\ expired \in SUBSET nd.tickets
  BY FailTicketsType
<1>2. Settles(nd, failed, n)
  BY <1>1, FailTicketsSettles
<1>3. ActivateFirstLock(failed, s, n) \in Node /\ Settles(failed, ActivateFirstLock(failed, s, n), n)
  BY <1>1, ActivateFirstLockType, ActivateFirstLockSettles
<1>4. Settles(nd, ActivateFirstLock(failed, s, n), n)
  BY <1>1, <1>2, <1>3, SettlesTwice
<1>5. Settles(nd, nd, n)
  BY DEF Settles, SameNumber
<1>6. left \in Node /\ Settles(nd, left, n)
  BY <1>3, <1>4, <1>5
<1>7. new = [left EXCEPT !.entering = {r \in @ : ~TimedOut(left.ticket[r], n)}] /\ new \in Node
  BY CleanupType DEF Cleanup
<1> HIDE DEF expired, failed, left, new
<1>8. /\ new.tickets = left.tickets
      /\ new.entering = {r \in left.entering : ~TimedOut(left.ticket[r], n)}
      /\ new.ticket = left.ticket
  BY <1>6, <1>7 DEF Node
<1>9. Settles(left, new, n)
  BY <1>8 DEF Settles, SameNumber
<1> QED
  BY <1>6, <1>7, <1>9, SettlesTwice DEF new

-----------------------------------------------------------------------------
(* What keeps the bakery.                                                  *)

\* A client has one request, whose ticket its messages are about.
LEMMA OneRequest ==
    ASSUME AskOnce
    PROVE  /\ \A c \in Clients : <<c, 1>> \in Requests
           /\ \A r \in Requests : r = <<Key(r), 1>> /\ Key(r) \in Clients
           /\ \A q, r \in Requests : q # r => Key(q) # Key(r)
BY DEF AskOnce, Requests, Key

LEMMA MessageKey ==
    ASSUME NEW m \in Message
    PROVE  /\ m.key \in Clients
           /\ m.cmd \in Entries \cup Exits \cup {"LOCK"}
           /\ m.cmd \in {"MAXTICKET", "ADDTICKET", "TICKETADDED", "DROPTICKET"} => m.id \in Nat
BY DEF Message, DaemonMessage, ClientRequest, EnteringMessage, KeyMessage, TicketMessage,
       Entries, Exits

\* A ticket that timed out stays so whatever settles.
LEMMA SettlesTimedOut ==
    ASSUME NEW old, NEW new, NEW n, Settles(old, new, n), NEW r \in Requests
    PROVE  TimedOut(new.ticket[r], n) <=> TimedOut(old.ticket[r], n)
BY DEF Settles, SameNumber, Granted, TimedOut

LEMMA SettlesBakery ==
    ASSUME AskOnce, NEW old \in Node, NEW new \in Node, NEW n \in Nat,
           NEW mail \in SUBSET Message, Bakery(old, mail, n), Settles(old, new, n)
    PROVE  Bakery(new, mail, n)
<1>1. \A r \in Requests : TimedOut(new.ticket[r], n) <=> TimedOut(old.ticket[r], n)
  BY SettlesTimedOut
<1>2. ASSUME NEW r \in Requests
      PROVE  /\ SameNumber(old.ticket[r], new.ticket[r])
             /\ old.ticket[r].locked => new.ticket[r].locked
             /\ new.ticket[r].locked /\ ~old.ticket[r].locked
                => old.ticket[r].ticket_ready /\ ~TimedOut(old.ticket[r], n)
             /\ Held(new, r) => Held(old, r)
  BY DEF Settles, Granted, Held
<1>3. /\ new.tickets \subseteq old.tickets /\ new.entering \subseteq old.entering
      /\ old.tickets \in SUBSET (Nat \X Requests)
  BY DEF Settles, Node
<1>4. Memory(new)
  <2> SUFFICES ASSUME NEW r \in Requests
               PROVE  LET tk == new.ticket[r]
                      IN  /\ \A u \in new.tickets : u[2] = r => u[1] = tk.our_ticket /\ tk.added_ticket
                          /\ tk.added_ticket_quorum => tk.added_ticket
                          /\ tk.ticket_ready => tk.added_ticket_quorum /\ tk.still_entering = {}
                          /\ tk.locked => tk.ticket_ready
    BY DEF Memory
  <2> QED
    BY <1>2, <1>3 DEF Bakery, Memory, SameNumber
<1>5. Stage(new, mail, n)
  <2> SUFFICES ASSUME NEW m \in mail PROVE StageOf(new, m, n)
    BY DEF Stage
  <2> DEFINE r == <<m.key, 1>>
  <2>1. m.cmd \in Entries \cup Exits \cup {"LOCK"} /\ r \in Requests
    BY MessageKey, OneRequest
  <2>2. StageOf(old, m, n)
    BY DEF Bakery, Stage
  <2>3. /\ old.ticket[r].added_ticket_quorum => old.ticket[r].added_ticket
        /\ old.ticket[r].ticket_ready
           => old.ticket[r].added_ticket_quorum /\ old.ticket[r].still_entering = {}
    BY <2>1 DEF Bakery, Memory
  <2>4. r \in old.entering => r \in new.entering \/ TimedOut(new.ticket[r], n)
    BY DEF Settles
  <2>5. m.cmd \notin Exits => ~new.ticket[r].locked
    BY <1>2, <2>1, <2>2, <2>3 DEF StageOf, Entries
  <2>6. /\ SameNumber(old.ticket[r], new.ticket[r])
        /\ Held(new, r) => Held(old, r)
        /\ TimedOut(old.ticket[r], n) => TimedOut(new.ticket[r], n)
    BY <1>1, <1>2, <2>1
  <2> QED
    BY <2>2, <2>4, <2>5, <2>6 DEF StageOf, SameNumber
<1>6. Order(new, mail, n)
  <2> SUFFICES ASSUME NEW q \in Requests, NEW r \in Requests, Passed(new, q, r, n)
               PROVE  (\A m \in mail : Numbered(new, q, r, m)) /\ Behind(new, q, r)
    BY DEF Order
  <2>1. Passed(old, q, r, n)
    BY <1>1, <1>2 DEF Passed, SameNumber
  <2>2. (\A m \in mail : Numbered(old, q, r, m)) /\ Behind(old, q, r)
    BY <2>1 DEF Bakery, Order
  <2>3. \A m \in mail : Numbered(new, q, r, m)
    BY <1>2, <2>2 DEF Numbered, SameNumber
  <2>4. CASE old.ticket[q].locked
    BY <1>2, <2>2, <2>3, <2>4 DEF Behind, SameNumber
  <2>5. CASE ~old.ticket[q].locked
    <3> SUFFICES ASSUME new.ticket[q].locked, NEW u \in new.tickets, u[2] = r
                 PROVE  Before(<<new.ticket[q].our_ticket, q>>, <<new.ticket[r].our_ticket, r>>)
      BY <2>3 DEF Behind, Held
    <3>1. Granted(old, new, q, n)
      BY <2>5 DEF Settles
    <3>2. PICK v \in new.tickets :
             /\ v[2] = q
             /\ \A w \in new.tickets : w = v \/ Before(v, w) \/ TimedOut(old.ticket[w[2]], n)
      BY <3>1 DEF Granted
    <3>3. u[1] = new.ticket[r].our_ticket /\ v[1] = new.ticket[q].our_ticket
      BY <1>4, <3>2 DEF Memory
    <3>4. u # v /\ ~TimedOut(old.ticket[u[2]], n)
      BY <2>1, <3>2 DEF Passed
    <3>5. Before(v, u)
      BY <3>2, <3>4
    <3>6. u = <<u[1], u[2]>> /\ v = <<v[1], v[2]>>
      BY <1>3
    <3> QED
      BY <3>2, <3>3, <3>5, <3>6
  <2> QED
    BY <2>3, <2>4, <2>5
<1> QED
  BY <1>4, <1>5, <1>6 DEF Bakery

\* A message that is gone, or one more message.
LEMMA LessMailBakery ==
    ASSUME NEW nd, NEW mail, NEW n, Bakery(nd, mail, n), NEW less \in SUBSET mail
    PROVE  Bakery(nd, less, n)
BY DEF Bakery, Stage, Order

LEMMA MoreMailBakery ==
    ASSUME NEW nd, NEW mail, NEW n, Bakery(nd, mail, n), NEW m, StageOf(nd, m, n),
           \A q, r \in Requests : Passed(nd, q, r, n) => Numbered(nd, q, r, m)
    PROVE  Bakery(nd, mail \cup {m}, n)
BY DEF Bakery, Stage, Order

\* Time passes.
LEMMA TickBakery ==
    ASSUME AskOnce, NEW nd \in Node, NEW mail \in SUBSET Message, NEW n \in Nat, Bakery(nd, mail, n)
    PROVE  Bakery(nd, mail, n + 1)
<1>1. \A r \in Requests : TimedOut(nd.ticket[r], n) => TimedOut(nd.ticket[r], n + 1)
  BY DEF Node, Ticket, TimedOut
<1>2. \A m \in mail : <<m.key, 1>> \in Requests
  BY MessageKey, OneRequest
<1>3. Stage(nd, mail, n + 1)
  <2> SUFFICES ASSUME NEW m \in mail PROVE StageOf(nd, m, n + 1)
    BY DEF Stage
  <2>1. StageOf(nd, m, n)
    BY DEF Bakery, Stage
  <2>2. TimedOut(nd.ticket[<<m.key, 1>>], n) => TimedOut(nd.ticket[<<m.key, 1>>], n + 1)
    BY <1>1, <1>2
  <2> QED
    BY <2>1, <2>2 DEF StageOf
<1>4. Order(nd, mail, n + 1)
  BY <1>1 DEF Bakery, Order, Passed
<1> QED
  BY <1>3, <1>4 DEF Bakery

\* A step that changes the ticket of one client, which has no other message.
LEMMA TouchBakery ==
    ASSUME AskOnce, NEW old \in Node, NEW new \in Node, NEW n, NEW mail \in SUBSET Message,
           Bakery(old, mail, n), NEW r \in Requests,
           \A m \in mail : m.key # Key(r),
           \A q \in Requests : q # r => /\ new.ticket[q] = old.ticket[q]
                                        /\ q \in old.entering => q \in new.entering,
           \A u \in new.tickets : u[2] # r => u \in old.tickets,
           \A u \in new.tickets : u[2] = r => u[1] = new.ticket[r].our_ticket /\ new.ticket[r].added_ticket,
           new.ticket[r].added_ticket_quorum => new.ticket[r].added_ticket,
           new.ticket[r].ticket_ready
              => new.ticket[r].added_ticket_quorum /\ new.ticket[r].still_entering = {},
           new.ticket[r].locked => new.ticket[r].ticket_ready,
           \A q \in Requests :
              /\ Passed(new, r, q, n) => (\A m \in mail : Numbered(new, r, q, m)) /\ Behind(new, r, q)
              /\ Passed(new, q, r, n) => Behind(new, q, r)
    PROVE  Bakery(new, mail, n)
<1>1. \A q \in Requests : q # r /\ Held(new, q) => Held(old, q)
  BY DEF Held
<1>2. \A m \in mail : <<m.key, 1>> \in Requests /\ <<m.key, 1>> # r
  BY MessageKey, OneRequest
<1>3. Memory(new)
  BY DEF Bakery, Memory
<1>4. Stage(new, mail, n)
  <2> SUFFICES ASSUME NEW m \in mail PROVE StageOf(new, m, n)
    BY DEF Stage
  <2>1. StageOf(old, m, n)
    BY DEF Bakery, Stage
  <2>2. /\ new.ticket[<<m.key, 1>>] = old.ticket[<<m.key, 1>>]
        /\ <<m.key, 1>> \in old.entering => <<m.key, 1>> \in new.entering
        /\ Held(new, <<m.key, 1>>) => Held(old, <<m.key, 1>>)
    BY <1>1, <1>2
  <2> QED
    BY <2>1, <2>2 DEF StageOf
<1>5. Order(new, mail, n)
  <2> SUFFICES ASSUME NEW p \in Requests, NEW q \in Requests, Passed(new, p, q, n)
               PROVE  (\A m \in mail : Numbered(new, p, q, m)) /\ Behind(new, p, q)
    BY DEF Order
  <2>1. CASE p = r
    BY <2>1
  <2>2. CASE q = r
    BY <2>2 DEF Numbered
  <2>3. CASE p # r /\ q # r
    <3>1. new.ticket[p] = old.ticket[p] /\ new.ticket[q] = old.ticket[q]
      BY <2>3
    <3>2. Passed(old, p, q, n)
      BY <1>1, <2>3, <3>1 DEF Passed
    <3>3. (\A m \in mail : Numbered(old, p, q, m)) /\ Behind(old, p, q)
      BY <3>2 DEF Bakery, Order
    <3> QED
      BY <1>1, <2>3, <3>1, <3>3 DEF Numbered, Behind
  <2> QED
    BY <2>1, <2>2, <2>3
<1> QED
  BY <1>3, <1>4, <1>5 DEF Bakery

-----------------------------------------------------------------------------
(* The handlers of the daemon, as functions of its memory and its mail:    *)
(* m is the message it processes, rest what else is on its way.            *)

\* A message leaves the bakery as it is unless it gives a number.
LEMMA PlainMessage ==
    ASSUME NEW nd, NEW m, m.cmd \notin {"MAXTICKET", "ADDTICKET"}
    PROVE  \A q, r : Numbered(nd, q, r, m)
BY DEF Numbered

\* The node after the ticket of r became tk.
LEMMA TicketChanged ==
    ASSUME NEW nd \in Node, NEW r \in Requests, NEW tk \in Ticket
    PROVE  LET new == [nd EXCEPT !.ticket[r] = tk]
           IN  /\ new \in Node
               /\ new.entering = nd.entering
               /\ new.tickets = nd.tickets
               /\ new.ticket[r] = tk
               /\ \A q \in Requests : q # r => new.ticket[q] = nd.ticket[q]
BY DEF Node

\* lock() and lockentering(): a new ticket object for a request without a number.
LEMMA AllocateBakery ==
    ASSUME AskOnce, NEW nd \in Node, NEW n, NEW rest \in SUBSET Message, Bakery(nd, rest, n),
           NEW r \in Requests, NEW timeout \in Nat,
           \A x \in rest : x.key # Key(r), ~nd.ticket[r].added_ticket
    PROVE  LET new == Allocate(nd, r, timeout)
           IN  /\ new \in Node
               /\ Bakery(new, rest, n)
               /\ r \in new.entering
               /\ new.ticket[r] = NewTicket(timeout)
               /\ new.tickets = nd.tickets
               /\ \A q \in Requests : q # r => new.ticket[q] = nd.ticket[q]
<1> DEFINE new == Allocate(nd, r, timeout)
<1>1. /\ new.entering = (nd.entering \ Entering(nd, Key(r))) \cup {r}
      /\ new.tickets = nd.tickets
      /\ new.ticket[r] = NewTicket(timeout)
      /\ \A q \in Requests : q # r => new.ticket[q] = nd.ticket[q]
  BY DEF Allocate, Node
<1>2. new \in Node
  BY AllocateType
<1>3. \A q \in Requests : q # r /\ q \in nd.entering => q \in new.entering
  BY <1>1, OneRequest DEF Entering
<1>4. ~Held(nd, r)
  BY DEF Held, Bakery, Memory
<1>5. /\ ~new.ticket[r].added_ticket_quorum
      /\ ~new.ticket[r].ticket_ready
      /\ ~new.ticket[r].locked
  BY <1>1 DEF NewTicket
<1>6. ~Held(new, r)
  BY <1>1, <1>4 DEF Held
<1> HIDE DEF new
<1>7. \A q \in Requests : ~Passed(new, r, q, n) /\ Behind(new, q, r)
  BY <1>5, <1>6 DEF Passed, Behind
<1>8. Bakery(new, rest, n)
  BY <1>1, <1>2, <1>3, <1>5, <1>6, <1>7, TouchBakery DEF Held
<1> QED
  BY <1>1, <1>2, <1>8 DEF new

\* max_ticket(): the ticket takes a number after the one of every ticket that does
\* not wait for it.
LEMMA NumberBakery ==
    ASSUME AskOnce, NEW nd \in Node, NEW new \in Node, NEW n, NEW rest \in SUBSET Message,
           NEW m \in Message, NEW e \in Message, NEW r \in Requests,
           Bakery(nd, rest \cup {m}, n), \A x \in rest : x.key # Key(r),
           m.cmd = "MAXTICKET", m.key = Key(r), e.cmd = "ADDTICKET", e.key = Key(r), e.id = m.id + 1,
           new.entering = nd.entering, new.tickets = nd.tickets, r \in nd.entering,
           \A q \in Requests : q # r => new.ticket[q] = nd.ticket[q],
           new.ticket[r].our_ticket = m.id + 1, new.ticket[r].added_ticket,
           new.ticket[r].added_ticket_quorum = nd.ticket[r].added_ticket_quorum,
           new.ticket[r].ticket_ready = nd.ticket[r].ticket_ready,
           new.ticket[r].locked = nd.ticket[r].locked,
           new.ticket[r].lock_timeout = nd.ticket[r].lock_timeout,
           new.ticket[r].obtention_timeout = nd.ticket[r].obtention_timeout
    PROVE  Bakery(new, rest \cup {e}, n)
<1>1. Bakery(nd, rest, n)
  BY LessMailBakery
<1>2. StageOf(nd, m, n) /\ <<m.key, 1>> = r
  BY OneRequest DEF Bakery, Stage
<1>3. ~nd.ticket[r].added_ticket /\ ~nd.ticket[r].locked
  BY <1>2 DEF StageOf, Exits
<1>4. ~nd.ticket[r].added_ticket_quorum /\ ~nd.ticket[r].ticket_ready /\ ~Held(nd, r)
  BY <1>1, <1>3 DEF Bakery, Memory, Held
<1>5. ~Held(new, r)
  BY <1>4 DEF Held
<1>6. \A q \in Requests : ~Passed(new, r, q, n) /\ Behind(new, q, r)
  BY <1>4, <1>5 DEF Passed, Behind
<1>7. Bakery(new, rest, n)
  BY <1>1, <1>3, <1>4, <1>5, <1>6, TouchBakery DEF Held
<1>8. StageOf(new, e, n)
  <2>1. <<e.key, 1>> = r
    BY OneRequest
  <2> QED
    BY <2>1, <1>3, <1>4, <1>5 DEF StageOf
<1>9. ASSUME NEW q \in Requests, NEW p \in Requests, Passed(new, q, p, n)
      PROVE  Numbered(new, q, p, e)
  <2>1. CASE p # r
    BY <2>1, OneRequest DEF Numbered
  <2>2. CASE p = r
    <3>1. q # r /\ new.ticket[q] = nd.ticket[q] /\ new.ticket[q].our_ticket \in Nat
      BY <1>9, <2>2 DEF Passed, Node, Ticket
    <3>2. Passed(nd, q, r, n)
      BY <1>9, <2>2, <3>1 DEF Passed, Held, TimedOut
    <3>3. Numbered(nd, q, r, m)
      BY <3>2 DEF Bakery, Order
    <3>4. m.id \in Nat
      BY MessageKey
    <3>5. m.id >= nd.ticket[q].our_ticket
      BY <3>3 DEF Numbered
    <3>6. e.id > new.ticket[q].our_ticket
      BY <3>1, <3>4, <3>5
    <3> QED
      BY <3>6 DEF Numbered
  <2> QED
    BY <2>1, <2>2
<1> QED
  BY <1>7, <1>8, <1>9, MoreMailBakery

\* add_ticket(): the ticket enters f_tickets behind every ticket that is granted.
LEMMA AddBakery ==
    ASSUME AskOnce, NEW nd \in Node, NEW new \in Node, NEW n, NEW rest \in SUBSET Message,
           NEW m \in Message, NEW e \in Message, NEW r \in Requests,
           Bakery(nd, rest \cup {m}, n), \A x \in rest : x.key # Key(r),
           m.cmd = "ADDTICKET", m.key = Key(r), e.cmd = "TICKETADDED", e.key = Key(r), e.id = m.id,
           new.entering = nd.entering, new.ticket = nd.ticket, r \in nd.entering,
           new.tickets \subseteq nd.tickets \cup {<<m.id, r>>}
    PROVE  Bakery(new, rest \cup {e}, n)
<1>1. Bakery(nd, rest, n)
  BY LessMailBakery
<1>2. StageOf(nd, m, n) /\ <<m.key, 1>> = r
  BY OneRequest DEF Bakery, Stage
<1>3. /\ nd.ticket[r].added_ticket /\ nd.ticket[r].our_ticket = m.id
      /\ ~nd.ticket[r].added_ticket_quorum /\ ~nd.ticket[r].locked /\ ~Held(nd, r)
  BY <1>2 DEF StageOf, Exits
<1>4. ~nd.ticket[r].ticket_ready
  BY <1>1, <1>3 DEF Bakery, Memory
<1>5. ASSUME NEW q \in Requests, Passed(new, q, r, n) PROVE Behind(new, q, r)
  <2>1. q # r /\ Passed(nd, q, r, n)
    BY <1>5 DEF Passed, Held
  <2>2. Numbered(nd, q, r, m)
    BY <2>1 DEF Bakery, Order
  <2>3. nd.ticket[q].our_ticket \in Nat /\ m.id \in Nat
    BY MessageKey DEF Node, Ticket
  <2>4. m.id > nd.ticket[q].our_ticket
    BY <2>2 DEF Numbered
  <2> QED
    BY <1>3, <2>3, <2>4 DEF Behind, Before
<1>6. \A q \in Requests : ~Passed(new, r, q, n)
  BY <1>3 DEF Passed
<1>7. \A u \in new.tickets : u[2] = r => u[1] = new.ticket[r].our_ticket /\ new.ticket[r].added_ticket
  BY <1>3 DEF Held
<1>8. \A u \in new.tickets : u[2] # r => u \in nd.tickets
  OBVIOUS
<1>9. Bakery(new, rest, n)
  BY <1>1, <1>3, <1>4, <1>5, <1>6, <1>7, <1>8, TouchBakery
<1>10. StageOf(new, e, n)
  <2>1. <<e.key, 1>> = r
    BY OneRequest
  <2> QED
    BY <2>1, <1>3 DEF StageOf
<1> QED
  BY <1>9, <1>10, PlainMessage, MoreMailBakery

\* ticket_added(): the requests that are entering are copied; a request that has its
\* number, or is about to get it, and is not in f_tickets is one of them.
LEMMA CopyBakery ==
    ASSUME AskOnce, NEW nd \in Node, NEW new \in Node, NEW n, NEW rest \in SUBSET Message,
           NEW m \in Message, NEW e \in Message, NEW r \in Requests,
           Bakery(nd, rest \cup {m}, n), \A x \in rest : x.key # Key(r),
           m.cmd = "TICKETADDED", m.key = Key(r), e.cmd = "LOCKEXITING", e.key = Key(r),
           new.entering = nd.entering, new.tickets = nd.tickets,
           \A q \in Requests : q # r => new.ticket[q] = nd.ticket[q],
           new.ticket[r].added_ticket_quorum, new.ticket[r].still_entering = nd.entering,
           new.ticket[r].our_ticket = nd.ticket[r].our_ticket,
           new.ticket[r].added_ticket = nd.ticket[r].added_ticket,
           new.ticket[r].ticket_ready = nd.ticket[r].ticket_ready,
           new.ticket[r].locked = nd.ticket[r].locked,
           new.ticket[r].lock_timeout = nd.ticket[r].lock_timeout,
           new.ticket[r].obtention_timeout = nd.ticket[r].obtention_timeout
    PROVE  Bakery(new, rest \cup {e}, n)
<1>1. Bakery(nd, rest, n)
  BY LessMailBakery
<1>2. StageOf(nd, m, n) /\ <<m.key, 1>> = r
  BY OneRequest DEF Bakery, Stage
<1>3. /\ nd.ticket[r].added_ticket /\ ~nd.ticket[r].added_ticket_quorum /\ ~nd.ticket[r].locked
      /\ TimedOut(nd.ticket[r], n) \/ r \in nd.entering
  BY <1>2 DEF StageOf, Exits, Entries
<1>4. ~nd.ticket[r].ticket_ready
  BY <1>1, <1>3 DEF Bakery, Memory
<1>5. ASSUME NEW q \in Requests, Passed(new, r, q, n)
      PROVE  (\A x \in rest : Numbered(new, r, q, x)) /\ Behind(new, r, q)
  <2>1. q # r /\ q \notin nd.entering /\ ~TimedOut(nd.ticket[q], n)
    BY <1>5 DEF Passed
  <2>2. ASSUME NEW x \in rest PROVE Numbered(new, r, q, x)
    <3>1. x.key = Key(q) => <<x.key, 1>> = q
      BY OneRequest
    <3>2. StageOf(nd, x, n)
      BY DEF Bakery, Stage
    <3>3. x.key = Key(q) => x.cmd \notin {"MAXTICKET", "ADDTICKET"}
      BY <2>1, <3>1, <3>2 DEF StageOf, Entries
    <3> QED
      BY <3>3 DEF Numbered
  <2> QED
    BY <1>3, <2>2 DEF Behind
<1>6. ASSUME NEW q \in Requests, Passed(new, q, r, n) PROVE Behind(new, q, r)
  <2>1. q # r /\ new.ticket[q] = nd.ticket[q]
    BY <1>6 DEF Passed
  <2>2. Passed(nd, q, r, n)
    BY <1>6, <2>1 DEF Passed, Held, TimedOut
  <2>3. Behind(nd, q, r)
    BY <2>2 DEF Bakery, Order
  <2> QED
    BY <2>1, <2>3 DEF Behind, Held
<1>7. \A u \in new.tickets : u[2] = r => u[1] = new.ticket[r].our_ticket /\ new.ticket[r].added_ticket
  BY <1>1 DEF Bakery, Memory
<1>8. Bakery(new, rest, n)
  BY <1>1, <1>3, <1>4, <1>5, <1>6, <1>7, TouchBakery
<1>9. StageOf(new, e, n)
  <2>1. <<e.key, 1>> = r
    BY OneRequest
  <2> QED
    BY <2>1, <1>3 DEF StageOf, TimedOut
<1> QED
  BY <1>8, <1>9, PlainMessage, MoreMailBakery

\* drop_ticket(): the entries of a client go.
LEMMA DropBakery ==
    ASSUME AskOnce, NEW nd \in Node, NEW new \in Node, NEW n, NEW rest \in SUBSET Message,
           NEW r \in Requests, Bakery(nd, rest, n), \A x \in rest : x.key # Key(r),
           new.ticket = nd.ticket, new.tickets \subseteq nd.tickets,
           \A q \in nd.entering : q # r => q \in new.entering
    PROVE  Bakery(new, rest, n)
<1>1. ASSUME NEW p \in Requests, NEW q \in Requests, Passed(new, p, q, n)
      PROVE  (\A x \in rest : Numbered(new, p, q, x)) /\ Behind(new, p, q)
  <2>1. Passed(nd, p, q, n)
    BY <1>1 DEF Passed, Held
  <2>2. (\A x \in rest : Numbered(nd, p, q, x)) /\ Behind(nd, p, q)
    BY <2>1 DEF Bakery, Order
  <2> QED
    BY <2>2 DEF Numbered, Behind, Held
<1>2. /\ \A u \in new.tickets : u[2] = r => u[1] = new.ticket[r].our_ticket /\ new.ticket[r].added_ticket
      /\ new.ticket[r].added_ticket_quorum => new.ticket[r].added_ticket
      /\ new.ticket[r].ticket_ready
         => new.ticket[r].added_ticket_quorum /\ new.ticket[r].still_entering = {}
      /\ new.ticket[r].locked => new.ticket[r].ticket_ready
  BY DEF Bakery, Memory
<1> QED
  BY <1>1, <1>2, TouchBakery

\* remove_entering(): what changes in a ticket.
StillLeft(nd, tk, c, n) == {r \in tk.still_entering : Key(r) # c /\ ~TimedOut(nd.ticket[r], n)}

LEMMA RemoveEnteringFields ==
    ASSUME NEW nd, NEW tk \in Ticket, NEW c, NEW n
    PROVE  LET is   == RemoveEntering(nd, tk, c, n)
               left == StillLeft(nd, tk, c, n)
           IN  /\ is.obtention_timeout = tk.obtention_timeout
               /\ is.our_ticket = tk.our_ticket
               /\ is.added_ticket = tk.added_ticket
               /\ is.added_ticket_quorum = tk.added_ticket_quorum
               /\ is.locked = tk.locked
               /\ is.lock_timeout = tk.lock_timeout
               /\ is.lock_failed = tk.lock_failed
               /\ is.get_max_ticket = tk.get_max_ticket
               /\ \/ is.still_entering = tk.still_entering /\ is.ticket_ready = tk.ticket_ready
                  \/ /\ tk.added_ticket_quorum /\ ~tk.ticket_ready
                     /\ is.still_entering = left /\ (is.ticket_ready => left = {})
BY DEF RemoveEntering, Ticket, StillLeft

\* lockexiting(), before activate_first_lock(): the tickets stop waiting for the
\* client that is in f_tickets by now, and for those whose time is over.
LEMMA ExitBakery ==
    ASSUME AskOnce, NEW nd \in Node, NEW new \in Node, NEW n, NEW rest \in SUBSET Message,
           NEW c \in Clients, Bakery(nd, rest, n), \A x \in rest : x.key # c,
           new.entering = nd.entering \ Entering(nd, c), new.tickets = nd.tickets,
           \A r \in Requests : new.ticket[r] = IF Held(nd, r)
                                               THEN RemoveEntering(nd, nd.ticket[r], c, n)
                                               ELSE nd.ticket[r]
    PROVE  Bakery(new, rest, n)
<1> DEFINE left(r) == StillLeft(nd, nd.ticket[r], c, n)
<1>1. ASSUME NEW r \in Requests
      PROVE  LET is == new.ticket[r]
                 tk == nd.ticket[r]
             IN  /\ is.obtention_timeout = tk.obtention_timeout
                 /\ is.our_ticket = tk.our_ticket
                 /\ is.added_ticket = tk.added_ticket
                 /\ is.added_ticket_quorum = tk.added_ticket_quorum
                 /\ is.locked = tk.locked
                 /\ is.lock_timeout = tk.lock_timeout
                 /\ \/ is.still_entering = tk.still_entering /\ is.ticket_ready = tk.ticket_ready
                    \/ /\ tk.added_ticket_quorum /\ ~tk.ticket_ready
                       /\ is.still_entering = left(r) /\ (is.ticket_ready => left(r) = {})
  <2>1. nd.ticket[r] \in Ticket
    BY DEF Node
  <2>2. CASE Held(nd, r)
    <3>1. new.ticket[r] = RemoveEntering(nd, nd.ticket[r], c, n)
      BY <2>2
    <3> QED
      BY <2>1, <3>1, RemoveEnteringFields
  <2>3. CASE ~Held(nd, r)
    BY <2>3
  <2> QED
    BY <2>2, <2>3
<1>2. \A r \in Requests : /\ TimedOut(new.ticket[r], n) <=> TimedOut(nd.ticket[r], n)
                          /\ Held(new, r) <=> Held(nd, r)
  BY <1>1 DEF TimedOut, Held
<1>3. ASSUME NEW r \in Requests, NEW p \in Requests,
             p \in nd.ticket[r].still_entering, p \notin new.ticket[r].still_entering
      PROVE  /\ Key(p) = c \/ TimedOut(nd.ticket[p], n)
             /\ ~nd.ticket[r].ticket_ready
  BY <1>1, <1>3 DEF StillLeft
<1>4. Memory(new)
  <2> SUFFICES ASSUME NEW r \in Requests
               PROVE  LET tk == new.ticket[r]
                      IN  /\ \A u \in new.tickets : u[2] = r => u[1] = tk.our_ticket /\ tk.added_ticket
                          /\ tk.added_ticket_quorum => tk.added_ticket
                          /\ tk.ticket_ready => tk.added_ticket_quorum /\ tk.still_entering = {}
                          /\ tk.locked => tk.ticket_ready
    BY DEF Memory
  <2>1. LET tk == nd.ticket[r]
        IN  /\ \A u \in nd.tickets : u[2] = r => u[1] = tk.our_ticket /\ tk.added_ticket
            /\ tk.added_ticket_quorum => tk.added_ticket
            /\ tk.ticket_ready => tk.added_ticket_quorum /\ tk.still_entering = {}
            /\ tk.locked => tk.ticket_ready
    BY DEF Bakery, Memory
  <2> HIDE DEF left
  <2> QED
    BY <1>1, <2>1
<1> HIDE DEF left
<1>5. Stage(new, rest, n)
  <2> SUFFICES ASSUME NEW x \in rest PROVE StageOf(new, x, n)
    BY DEF Stage
  <2> DEFINE r == <<x.key, 1>>
  <2>1. r \in Requests /\ Key(r) # c
    BY MessageKey, OneRequest DEF Key
  <2>2. StageOf(nd, x, n)
    BY DEF Bakery, Stage
  <2>3. /\ new.ticket[r].added_ticket = nd.ticket[r].added_ticket
        /\ new.ticket[r].our_ticket = nd.ticket[r].our_ticket
        /\ new.ticket[r].added_ticket_quorum = nd.ticket[r].added_ticket_quorum
        /\ new.ticket[r].locked = nd.ticket[r].locked
    BY <1>1, <2>1
  <2>4. /\ TimedOut(new.ticket[r], n) <=> TimedOut(nd.ticket[r], n)
        /\ Held(new, r) <=> Held(nd, r)
    BY <1>2, <2>1
  <2>5. r \in nd.entering => r \in new.entering
    BY <2>1 DEF Entering
  <2>6. r \in nd.ticket[r].still_entering
        => r \in new.ticket[r].still_entering \/ TimedOut(nd.ticket[r], n)
    BY <1>3, <2>1
  <2> HIDE DEF r
  <2> QED
    BY <2>2, <2>3, <2>4, <2>5, <2>6 DEF StageOf, r
<1>6. Order(new, rest, n)
  <2> SUFFICES ASSUME NEW q \in Requests, NEW r \in Requests, Passed(new, q, r, n)
               PROVE  (\A x \in rest : Numbered(new, q, r, x)) /\ Behind(new, q, r)
    BY DEF Order
  <2>1. CASE r \notin nd.ticket[q].still_entering
    <3>1. Passed(nd, q, r, n)
      BY <1>1, <1>2, <2>1 DEF Passed
    <3>2. (\A x \in rest : Numbered(nd, q, r, x)) /\ Behind(nd, q, r)
      BY <3>1 DEF Bakery, Order
    <3> QED
      BY <1>1, <1>2, <3>2 DEF Numbered, Behind
  <2>2. CASE r \in nd.ticket[q].still_entering
    <3>1. r \notin new.ticket[q].still_entering /\ ~TimedOut(nd.ticket[r], n)
      BY <1>2 DEF Passed
    <3>2. Key(r) = c /\ ~nd.ticket[q].ticket_ready
      BY <1>3, <2>2, <3>1
    <3>3. ~nd.ticket[q].locked
      BY <3>2 DEF Bakery, Memory
    <3> QED
      BY <1>1, <3>2, <3>3 DEF Numbered, Behind
  <2> QED
    BY <2>1, <2>2
<1> QED
  BY <1>4, <1>5, <1>6 DEF Bakery

-----------------------------------------------------------------------------
(* The mail.                                                               *)

\* What is left when the first message, the only one of its client, is processed.
Rest(t) == {x \in Mail(t) : x.key # Head(inbox[t]).key}

\* The messages of a connection.
Elements(q) == {q[i] : i \in DOMAIN q}

LEMMA TailAlone ==
    ASSUME NEW q \in Seq(Message), q # <<>>, Alone(q)
    PROVE  /\ Alone(Tail(q))
           /\ Elements(Tail(q)) = {x \in Elements(q) : x.key # Head(q).key}
           /\ Head(q) \in Elements(q)
           /\ Elements(q) = {x \in Elements(q) : x.key # Head(q).key} \cup {Head(q)}
<1>1. /\ DOMAIN q = 1 .. Len(q) /\ Len(q) \in Nat /\ Len(q) # 0 /\ Head(q) = q[1]
      /\ DOMAIN Tail(q) = 1 .. Len(q) - 1
      /\ \A i \in 1 .. Len(q) - 1 : Tail(q)[i] = q[i + 1]
  OBVIOUS
<1>2. Alone(Tail(q))
  <2> SUFFICES ASSUME NEW i \in DOMAIN Tail(q), NEW j \in DOMAIN Tail(q),
                      Tail(q)[i].key = Tail(q)[j].key
               PROVE  i = j
    BY DEF Alone
  <2>1. i + 1 \in DOMAIN q /\ j + 1 \in DOMAIN q /\ q[i + 1].key = q[j + 1].key
    BY <1>1
  <2>2. i + 1 = j + 1
    BY <2>1 DEF Alone
  <2> QED
    BY <1>1, <2>2
<1>3. \A i \in DOMAIN q : q[i].key = Head(q).key => i = 1
  BY <1>1 DEF Alone
<1>4. ASSUME NEW x \in Elements(Tail(q)) PROVE x \in Elements(q) /\ x.key # Head(q).key
  <2>1. PICK i \in DOMAIN Tail(q) : x = Tail(q)[i]
    BY DEF Elements
  <2>2. i + 1 \in DOMAIN q /\ x = q[i + 1] /\ i + 1 # 1
    BY <1>1, <2>1
  <2> QED
    BY <1>3, <2>2 DEF Elements
<1>5. ASSUME NEW x \in Elements(q), x.key # Head(q).key PROVE x \in Elements(Tail(q))
  <2>1. PICK i \in DOMAIN q : x = q[i]
    BY DEF Elements
  <2>2. i # 1
    BY <1>1, <1>5, <2>1
  <2>3. i - 1 \in DOMAIN Tail(q) /\ Tail(q)[i - 1] = q[i]
    BY <1>1, <2>2
  <2> QED
    BY <2>1, <2>3 DEF Elements
<1>6. 1 \in DOMAIN q
  BY <1>1
<1>7. Head(q) \in Elements(q)
  BY <1>1, <1>6 DEF Elements
<1>8. \A x \in Elements(q) : x.key = Head(q).key => x = Head(q)
  BY <1>1, <1>3 DEF Elements
<1> QED
  BY <1>2, <1>4, <1>5, <1>7, <1>8

LEMMA AppendAlone ==
    ASSUME NEW q \in Seq(Message), Alone(q), NEW m \in Message, \A x \in Elements(q) : x.key # m.key
    PROVE  /\ Alone(Append(q, m))
           /\ Elements(Append(q, m)) = Elements(q) \cup {m}
<1>1. /\ DOMAIN q = 1 .. Len(q) /\ Len(q) \in Nat
      /\ DOMAIN Append(q, m) = 1 .. Len(q) + 1
      /\ \A i \in 1 .. Len(q) : Append(q, m)[i] = q[i]
      /\ Append(q, m)[Len(q) + 1] = m
  OBVIOUS
<1>2. \A i \in DOMAIN q : q[i].key # m.key
  BY DEF Elements
<1>3. \A i \in DOMAIN Append(q, m) : i \in DOMAIN q \/ i = Len(q) + 1
  BY <1>1
<1>4. \A i \in DOMAIN q : i \in DOMAIN Append(q, m) /\ Append(q, m)[i] = q[i]
  BY <1>1
<1>5. Alone(Append(q, m))
  <2> SUFFICES ASSUME NEW i \in DOMAIN Append(q, m), NEW j \in DOMAIN Append(q, m),
                      Append(q, m)[i].key = Append(q, m)[j].key
               PROVE  i = j
    BY DEF Alone
  <2>1. i \in DOMAIN q /\ j \in DOMAIN q => i = j
    BY <1>4 DEF Alone
  <2>2. i \in DOMAIN q /\ j = Len(q) + 1 => FALSE
    BY <1>1, <1>2, <1>4
  <2>3. j \in DOMAIN q /\ i = Len(q) + 1 => FALSE
    BY <1>1, <1>2, <1>4
  <2> QED
    BY <1>3, <2>1, <2>2, <2>3
<1>6. Len(q) + 1 \in DOMAIN Append(q, m)
  BY <1>1
<1>7. Elements(Append(q, m)) = Elements(q) \cup {m}
  BY <1>1, <1>3, <1>4, <1>6 DEF Elements
<1> QED
  BY <1>5, <1>7

\* What a daemon does to its own mail: it reads the first message, and may answer it
\* with one message about the same client.
LEMMA ReadsMail ==
    ASSUME BakeryInv, NEW t \in Servers, inbox[t] # <<>>
    PROVE  LET m == Head(inbox[t])
           IN  /\ m \in Message
               /\ Rest(t) \in SUBSET Message
               /\ \A x \in Rest(t) : x.key # m.key
               /\ Mail(t) = Rest(t) \cup {m}
               /\ Bakery(node[t], Rest(t) \cup {m}, now)
               /\ Bakery(node[t], Rest(t), now)
               /\ StageOf(node[t], m, now)
<1>1. inbox[t] \in Seq(Message) /\ Alone(inbox[t]) /\ Bakery(node[t], Mail(t), now)
  BY DEF BakeryInv, MatchInv, TypeOK
<1>2. Mail(t) = Elements(inbox[t])
  BY DEF Mail, Elements
<1>3. Mail(t) = Rest(t) \cup {Head(inbox[t])}
  BY <1>1, <1>2, TailAlone DEF Rest
<1>4. Mail(t) \subseteq Message /\ Head(inbox[t]) \in Message
  BY <1>1 DEF Mail
<1>5. Rest(t) \in SUBSET Message /\ Rest(t) \in SUBSET Mail(t)
  BY <1>4 DEF Rest
<1>6. Bakery(node[t], Rest(t), now)
  BY <1>1, <1>5, LessMailBakery
<1>7. StageOf(node[t], Head(inbox[t]), now)
  BY <1>1, <1>3 DEF Bakery, Stage
<1>8. \A x \in Rest(t) : x.key # Head(inbox[t]).key
  BY DEF Rest
<1> QED
  BY <1>1, <1>3, <1>4, <1>5, <1>6, <1>7, <1>8

LEMMA SendsNothing ==
    ASSUME OneDaemon, BakeryInv, NEW t \in Servers, inbox[t] # <<>>, SendNothing(t)
    PROVE  /\ Alone(inbox'[t])
           /\ Mail(t)' = Rest(t)
           /\ \A s, u \in Servers : link'[s][u] = <<>>
<1>1. inbox \in [Servers -> Seq(Message)] /\ Alone(inbox[t])
  BY DEF BakeryInv, MatchInv, TypeOK
<1>2. inbox'[t] = Tail(inbox[t]) /\ link' = link
  BY <1>1 DEF SendNothing
<1>3. Alone(inbox'[t]) /\ Elements(inbox'[t]) = {x \in Elements(inbox[t]) : x.key # Head(inbox[t]).key}
  BY <1>1, <1>2, TailAlone
<1>4. Mail(t)' = Elements(inbox'[t]) /\ Mail(t) = Elements(inbox[t])
  BY DEF Mail, Elements
<1> QED
  BY <1>2, <1>3, <1>4 DEF Rest, BakeryInv

LEMMA SendsMessage ==
    ASSUME OneDaemon, BakeryInv, NEW t \in Servers, inbox[t] # <<>>, NEW e \in DaemonMessage,
           e.key = Head(inbox[t]).key, NEW s \in Servers, SendTo(t, s, e) \/ Broadcast(t, e)
    PROVE  /\ Alone(inbox'[t])
           /\ Mail(t)' = Rest(t) \cup {e}
           /\ \A v, u \in Servers : link'[v][u] = <<>>
<1>1. /\ inbox \in [Servers -> Seq(Message)] /\ Alone(inbox[t])
      /\ link \in [Servers -> [Servers -> Seq(DaemonMessage)]]
      /\ \A v, u \in Servers : link[v][u] = <<>>
  BY DEF BakeryInv, MatchInv, TypeOK
<1>2. s = t /\ \A v \in Servers : v = t
  BY DEF OneDaemon
<1>3. inbox'[t] = Append(Tail(inbox[t]), e)
  BY <1>1, <1>2 DEF SendTo, Broadcast
<1>4. \A v, u \in Servers : link'[v][u] = <<>>
  <2>1. CASE SendTo(t, s, e)
    BY <1>1, <1>2, <2>1 DEF SendTo
  <2>2. CASE Broadcast(t, e)
    BY <1>1, <1>2, <2>2 DEF Broadcast
  <2> QED
    BY <2>1, <2>2
<1>5. /\ Alone(Tail(inbox[t]))
      /\ Elements(Tail(inbox[t])) = {x \in Elements(inbox[t]) : x.key # Head(inbox[t]).key}
      /\ Tail(inbox[t]) \in Seq(Message)
  BY <1>1, TailAlone
<1>6. e \in Message /\ \A x \in Elements(Tail(inbox[t])) : x.key # e.key
  BY <1>5 DEF Message
<1>7. Alone(inbox'[t]) /\ Elements(inbox'[t]) = Elements(Tail(inbox[t])) \cup {e}
  BY <1>3, <1>5, <1>6, AppendAlone
<1>8. Mail(t)' = Elements(inbox'[t]) /\ Mail(t) = Elements(inbox[t])
  BY DEF Mail, Elements
<1> QED
  BY <1>4, <1>5, <1>7, <1>8 DEF Rest

-----------------------------------------------------------------------------
(* The clients.                                                            *)

\* A client that is connected has made its one request.
LEMMA ConnectedService ==
    ASSUME AskOnce, MatchInv, NEW c \in Clients
    PROVE  /\ Connected(c) => client[c].service = 1
           /\ client[c].service \in {0, 1}
           /\ <<c, 1>> \in Requests /\ Key(<<c, 1>>) = c
<1>1. client[c].service \in 0 .. 1
  BY DEF AskOnce, MatchInv, TypeOK, ClientState
<1>2. Connected(c) => client[c].service # 0
  BY DEF MatchInv, RequestsMatch, Registered
<1> QED
  BY <1>1, <1>2, OneRequest DEF Key

\* A step of the daemon that grants nothing.
LEMMA QuietTold ==
    ASSUME NEW c, NEW old, NEW new, NEW mail, NEW more, NEW answers, Told(c, old, mail, answers),
           LET r == <<c, 1>>
           IN  /\ new.ticket[r].locked <=> old.ticket[r].locked
               /\ old.ticket[r].locked => /\ new.ticket[r].lock_timeout = old.ticket[r].lock_timeout
                                          /\ Connected(c) /\ Held(old, r) => Held(new, r)
               /\ client[c].service = 0 => /\ new.ticket[r].added_ticket = old.ticket[r].added_ticket
                                           /\ new.ticket[r].our_ticket = old.ticket[r].our_ticket,
           \A m \in more : \E x \in mail : x.key = m.key /\ (m.cmd \in Exits => x.cmd \in Exits)
    PROVE  Told(c, new, more, answers)
<1>1. old.ticket[<<c, 1>>].locked
      => (TimedOut(new.ticket[<<c, 1>>], now) <=> TimedOut(old.ticket[<<c, 1>>], now))
  BY DEF TimedOut
<1> QED
  BY <1>1 DEF Told, TimedOut

\* Cleanup() and activate_first_lock(): the client is sent what was granted.
LEMMA SettlesTold ==
    ASSUME AskOnce, MatchInv, NEW t \in Servers, NEW c \in Clients, Home[c] = t,
           NEW old \in Node, NEW new \in Node, NEW mail,
           Told(c, old, mail, toClient[c]), Settles(old, new, now)
    PROVE  Told(c, new, mail, Notify(t, old, new)[c])
<1> DEFINE r   == <<c, 1>>
           was == old.ticket[r]
           is  == new.ticket[r]
           old_answers == toClient[c]
           answers == Notify(t, old, new)[c]
<1>1. /\ r \in Requests
      /\ Connected(c) => client[c].service = 1
      /\ old_answers \in Seq(ToClient) /\ now \in Nat
  BY ConnectedService DEF MatchInv, TypeOK
<1>2. /\ was.locked => is.locked /\ is.lock_timeout = was.lock_timeout
      /\ is.locked /\ ~was.locked => Granted(old, new, r, now)
      /\ is.added_ticket = was.added_ticket /\ is.our_ticket = was.our_ticket
      /\ TimedOut(is, now) <=> TimedOut(was, now)
  BY <1>1, SettlesTimedOut DEF Settles, SameNumber
<1>3. answers = IF ~Connected(c) THEN old_answers
                ELSE IF is.locked /\ ~was.locked
                THEN Append(old_answers, [cmd |-> "LOCKED", timeout_date |-> is.lock_timeout])
                ELSE IF is.lock_failed /\ ~was.lock_failed
                THEN Append(old_answers,
                            [cmd |-> IF was.locked THEN "UNLOCKED" ELSE "LOCKFAILED",
                             timeout_date |-> 0])
                ELSE old_answers
  BY <1>1 DEF Notify
<1>4. Connected(c) /\ is.locked /\ ~TimedOut(is, now) => Held(new, r)
  <2>1. CASE was.locked
    <3>1. Connected(c) /\ ~TimedOut(was, now) => Held(old, r)
      BY <2>1 DEF Told
    <3>2. ~TimedOut(was, now) /\ Held(old, r) => Held(new, r)
      BY DEF Held, Settles
    <3> QED
      BY <1>2, <3>1, <3>2
  <2>2. CASE ~was.locked
    BY <1>2, <2>2 DEF Granted, Held
  <2> QED
    BY <2>1, <2>2
<1>5. ASSUME NEW i \in DOMAIN old_answers
      PROVE  IF old_answers[i].cmd = "LOCKED"
             THEN is.locked /\ old_answers[i].timeout_date = is.lock_timeout
             ELSE old_answers[i].timeout_date = 0
  BY <1>2 DEF Told
<1>6. ASSUME NEW a, NEW i \in DOMAIN Append(old_answers, a)
      PROVE  \/ Append(old_answers, a)[i] = a
             \/ i \in DOMAIN old_answers /\ Append(old_answers, a)[i] = old_answers[i]
  <2>1. /\ DOMAIN Append(old_answers, a) = 1 .. Len(old_answers) + 1
        /\ DOMAIN old_answers = 1 .. Len(old_answers)
    BY <1>1
  <2>2. /\ Append(old_answers, a)[Len(old_answers) + 1] = a
        /\ \A j \in 1 .. Len(old_answers) : Append(old_answers, a)[j] = old_answers[j]
    BY <1>1
  <2>3. i \in 1 .. Len(old_answers) \/ i = Len(old_answers) + 1
    BY <1>1, <2>1
  <2> QED
    BY <2>1, <2>2, <2>3
<1> HIDE DEF was, is, old_answers, answers
<1>7. ASSUME NEW i \in DOMAIN answers
      PROVE  IF answers[i].cmd = "LOCKED"
             THEN is.locked /\ answers[i].timeout_date = is.lock_timeout
             ELSE answers[i].timeout_date = 0
  <2>1. CASE answers = old_answers
    BY <1>5, <1>7, <2>1
  <2>2. CASE is.locked /\ answers = Append(old_answers, [cmd |-> "LOCKED", timeout_date |-> is.lock_timeout])
    BY <1>5, <1>6, <1>7, <2>2
  <2>3. CASE \E x \in {"UNLOCKED", "LOCKFAILED"} :
                answers = Append(old_answers, [cmd |-> x, timeout_date |-> 0])
    BY <1>5, <1>6, <1>7, <2>3
  <2> QED
    BY <1>3, <2>1, <2>2, <2>3
<1> QED
  BY <1>2, <1>4, <1>7 DEF Told, was, is, old_answers, answers

-----------------------------------------------------------------------------
(* The daemon.                                                             *)

\* A quorum of one computer.
LEMMA QuorumOfOne ==
    ASSUME OneDaemon, TypeOK, NEW t \in Servers
    PROVE  quorum(t) = 1
<1>1. computers[t] \in SUBSET Servers
  BY DEF TypeOK
<1>2. computers[t] = {} \/ computers[t] = {t}
  BY <1>1 DEF OneDaemon
<1>3. Cardinality({}) = 0 /\ Cardinality({t}) = 1
  BY FS_EmptySet, FS_Singleton
<1>4. 0 \div 2 + 1 = 1 /\ 1 \div 2 + 1 = 1
  OBVIOUS
<1> QED
  BY <1>2, <1>3, <1>4 DEF quorum

\* entered(), max_ticket() and ticket_added() with that quorum.
LEMMA EnteredSame ==
    ASSUME NEW tk \in Ticket, NEW q
    PROVE  LET is == Entered(tk, q)
           IN  SameNumber(tk, is) /\ is.locked = tk.locked /\ is.lock_timeout = tk.lock_timeout
BY DEF Entered, Ticket, SameNumber

LEMMA MaxTicketFields ==
    ASSUME NEW tk \in Ticket, NEW id \in Nat, ~tk.added_ticket, tk.our_ticket = 0
    PROVE  LET is == MaxTicketReceived(tk, id, 1)
           IN  /\ is.our_ticket = id + 1 /\ is.added_ticket
               /\ is.added_ticket_quorum = tk.added_ticket_quorum
               /\ is.ticket_ready = tk.ticket_ready
               /\ is.locked = tk.locked /\ is.lock_timeout = tk.lock_timeout
               /\ is.obtention_timeout = tk.obtention_timeout
<1> DEFINE largest == IF id > tk.our_ticket THEN id ELSE tk.our_ticket
           count   == tk.max_ticket_count + 1
           quorate == count >= 1
           number  == IF quorate THEN largest + 1 ELSE largest
           is      == [tk EXCEPT !.our_ticket = number, !.max_ticket_count = count,
                                 !.added_ticket = quorate]
<1>1. tk.max_ticket_count \in Nat
  BY DEF Ticket
<1>2. quorate = TRUE /\ number = id + 1
  BY <1>1
<1>3. MaxTicketReceived(tk, id, 1) = is
  BY DEF MaxTicketReceived
<1> HIDE DEF largest, count, quorate, number
<1>4. /\ is.our_ticket = number /\ is.added_ticket = quorate
      /\ is.added_ticket_quorum = tk.added_ticket_quorum
      /\ is.ticket_ready = tk.ticket_ready
      /\ is.locked = tk.locked /\ is.lock_timeout = tk.lock_timeout
      /\ is.obtention_timeout = tk.obtention_timeout
  BY DEF Ticket
<1> HIDE DEF is
<1> QED
  BY <1>2, <1>3, <1>4

LEMMA TicketAddedFields ==
    ASSUME NEW tk \in Ticket, NEW E, ~tk.added_ticket_quorum
    PROVE  LET is == TicketAddedReceived(tk, E, 1)
           IN  /\ is.added_ticket_quorum /\ is.still_entering = E
               /\ is.our_ticket = tk.our_ticket /\ is.added_ticket = tk.added_ticket
               /\ is.ticket_ready = tk.ticket_ready
               /\ is.locked = tk.locked /\ is.lock_timeout = tk.lock_timeout
               /\ is.obtention_timeout = tk.obtention_timeout
<1> DEFINE count   == tk.ticket_added_count + 1
           quorate == count >= 1
           copied  == IF quorate THEN E ELSE tk.still_entering
           is      == [tk EXCEPT !.ticket_added_count = count, !.added_ticket_quorum = quorate,
                                 !.still_entering = copied]
<1>1. tk.ticket_added_count \in Nat
  BY DEF Ticket
<1>2. quorate = TRUE /\ copied = E
  BY <1>1
<1>3. TicketAddedReceived(tk, E, 1) = is
  BY DEF TicketAddedReceived
<1> HIDE DEF count, quorate, copied
<1>4. /\ is.added_ticket_quorum = quorate /\ is.still_entering = copied
      /\ is.our_ticket = tk.our_ticket /\ is.added_ticket = tk.added_ticket
      /\ is.ticket_ready = tk.ticket_ready
      /\ is.locked = tk.locked /\ is.lock_timeout = tk.lock_timeout
      /\ is.obtention_timeout = tk.obtention_timeout
  BY DEF Ticket
<1> HIDE DEF is
<1> QED
  BY <1>2, <1>3, <1>4

\* The locks of mid are the ones of old, no client loses its ticket, and nothing
\* happens to the ticket of a client that has not asked.
KeepsLocks(old, mid) ==
    \A r \in Requests :
        /\ mid.ticket[r].locked <=> old.ticket[r].locked
        /\ old.ticket[r].locked => /\ mid.ticket[r].lock_timeout = old.ticket[r].lock_timeout
                                   /\ Connected(Key(r)) /\ Held(old, r) => Held(mid, r)
        /\ client[Key(r)].service = 0 => /\ mid.ticket[r].added_ticket = old.ticket[r].added_ticket
                                         /\ mid.ticket[r].our_ticket = old.ticket[r].our_ticket

\* The mail after the daemon processed the first message: the rest, and an answer that
\* ends a request only if that message did.
Answers(t, more) ==
    \A x \in more : \/ x \in Rest(t)
                    \/ /\ x.key = Head(inbox[t]).key
                       /\ x.cmd \in Exits => Head(inbox[t]).cmd \in Exits

\* A step of the daemon: the message takes its memory from node[t] to mid, then it may
\* settle.
LEMMA DaemonStepBakery ==
    ASSUME OneDaemon, AskOnce, BakeryInv, MatchInv', NEW t \in Servers, inbox[t] # <<>>,
           NEW mid \in Node, NEW fin \in Node, NEW more \in SUBSET Message,
           Mail(t)' = more, Alone(inbox'[t]), \A s, u \in Servers : link'[s][u] = <<>>,
           Answers(t, more), Bakery(mid, more, now), KeepsLocks(node[t], mid),
           node' = [node EXCEPT ![t] = fin], UNCHANGED <<client, now>>,
           \/ fin = mid /\ toClient' = toClient
           \/ Settles(mid, fin, now) /\ toClient' = Notify(t, mid, fin)
    PROVE  BakeryInv'
<1>1. MatchInv /\ now \in Nat /\ node'[t] = fin
  BY DEF BakeryInv, MatchInv, TypeOK
<1>2. \A u \in Servers : u = t
  BY DEF OneDaemon
<1>3. Bakery(fin, more, now)
  BY <1>1, SettlesBakery
<1>4. ASSUME NEW c \in Clients PROVE Told(c, fin, more, toClient'[c])
  <2>1. Told(c, node[t], Mail(t), toClient[c])
    BY DEF BakeryInv
  <2>2. <<c, 1>> \in Requests /\ Key(<<c, 1>>) = c /\ Home[c] = t
    BY <1>1, <1>2, ConnectedService, HomeAssumption
  <2>3. Rest(t) \subseteq Mail(t) /\ Head(inbox[t]) \in Mail(t)
    BY ReadsMail
  <2>4. \A m \in more : \E x \in Mail(t) : x.key = m.key /\ (m.cmd \in Exits => x.cmd \in Exits)
    BY <2>3 DEF Answers
  <2>5. LET r == <<c, 1>>
        IN  /\ mid.ticket[r].locked <=> node[t].ticket[r].locked
            /\ node[t].ticket[r].locked
               => /\ mid.ticket[r].lock_timeout = node[t].ticket[r].lock_timeout
                  /\ Connected(c) /\ Held(node[t], r) => Held(mid, r)
            /\ client[c].service = 0
               => /\ mid.ticket[r].added_ticket = node[t].ticket[r].added_ticket
                  /\ mid.ticket[r].our_ticket = node[t].ticket[r].our_ticket
    BY <2>2 DEF KeepsLocks
  <2>6. Told(c, mid, more, toClient[c])
    BY <2>1, <2>4, <2>5, QuietTold
  <2> QED
    BY <1>1, <2>2, <2>6, SettlesTold
<1>5. ASSUME NEW c \in Clients PROVE Told(c, node[t], Mail(t), toClient[c])'
  <2>1. Told(c, fin, more, toClient'[c])
    BY <1>4
  <2> QED
    BY <1>1, <2>1 DEF Told, Connected
<1>6. Bakery(node[t], Mail(t), now)'
  <2>1. (node[t])' = fin /\ (Mail(t))' = more /\ now' = now
    BY <1>1
  <2> QED
    BY <1>3, <2>1 DEF Bakery, Memory, Stage, StageOf, Order, Passed, Numbered, Behind, Held
<1>7. Alone(inbox[t])'
  BY DEF Alone
<1> QED
  BY <1>2, <1>5, <1>6, <1>7 DEF BakeryInv

\* The same node keeps its locks.
LEMMA SameKeepsLocks ==
    ASSUME NEW nd PROVE KeepsLocks(nd, nd)
BY DEF KeepsLocks

\* A handler needs a message.
LEMMA HandlersRead ==
    ASSUME NEW t \in Servers, HandleMessage(t)
    PROVE  inbox[t] # <<>>
<1>1. CASE HandleLock(t)
  BY <1>1 DEF HandleLock, Receives
<1>2. CASE HandleUnlock(t)
  BY <1>2 DEF HandleUnlock, Receives
<1>3. CASE LockEntering(t)
  BY <1>3 DEF LockEntering, Receives
<1>4. CASE LockEntered(t)
  BY <1>4 DEF LockEntered, Receives
<1>5. CASE GetMaxTicket(t)
  BY <1>5 DEF GetMaxTicket, Receives
<1>6. CASE MaxTicket(t)
  BY <1>6 DEF MaxTicket, Receives
<1>7. CASE AddTicket(t)
  BY <1>7 DEF AddTicket, Receives
<1>8. CASE AddTicketThrows(t)
  BY <1>8 DEF AddTicketThrows, Receives
<1>9. CASE TicketAdded(t)
  BY <1>9 DEF TicketAdded, Receives
<1>10. CASE LockExiting(t)
  BY <1>10 DEF LockExiting, Receives
<1>11. CASE DropTicket(t)
  BY <1>11 DEF DropTicket, Receives
<1> QED
  BY <1>1, <1>2, <1>3, <1>4, <1>5, <1>6, <1>7, <1>8, <1>9, <1>10, <1>11 DEF HandleMessage

LEMMA HandlersBakery ==
    ASSUME OneDaemon, AskOnce, BakeryInv, MatchInv', NEW t \in Servers, HandleMessage(t)
    PROVE  BakeryInv'
<1> DEFINE m  == Head(inbox[t])
           r  == <<m.key, 1>>
           nd == node[t]
<1>1. /\ TypeOK /\ nd \in Node /\ now \in Nat /\ node \in [Servers -> Node]
      /\ node = [node EXCEPT ![t] = nd] /\ quorum(t) = 1
  BY QuorumOfOne DEF BakeryInv, MatchInv, TypeOK
<1>2. inbox[t] # <<>> /\ m \in Message
  <2>1. inbox[t] # <<>>
    BY HandlersRead
  <2>2. m \in Message
    BY <2>1, ReadsMail
  <2> QED
    BY <2>1, <2>2
<1>3. /\ Rest(t) \in SUBSET Message
      /\ \A x \in Rest(t) : x.key # m.key
      /\ Bakery(nd, Rest(t) \cup {m}, now)
      /\ Bakery(nd, Rest(t), now)
      /\ StageOf(nd, m, now)
  BY <1>2, ReadsMail
<1>4. r \in Requests /\ Key(r) = m.key /\ nd.ticket[r] \in Ticket /\ m.key \in Clients
  BY <1>1, <1>2, MessageKey, OneRequest DEF Key, Node
<1>5. Entering(nd, m.key) \subseteq {r} /\ (Entering(nd, m.key) # {} => r \in nd.entering)
  BY <1>1, OneRequest DEF Entering, Node
<1>6. \A q \in 1 .. MaxLocks : q = 1
  BY DEF AskOnce
<1>7. \A u \in nd.tickets : Key(u[2]) = m.key => u[2] = r
  BY <1>1, OneRequest DEF Node
<1>8. \A e \in DaemonMessage : e \in Message
  BY DEF Message
<1>9. ASSUME NEW fin \in Node, Bakery(fin, Rest(t), now), KeepsLocks(nd, fin), SendNothing(t),
             node' = [node EXCEPT ![t] = fin], UNCHANGED <<client, toClient, now>>
      PROVE  BakeryInv'
  <2>1. Answers(t, Rest(t))
    BY DEF Answers
  <2>2. Alone(inbox'[t]) /\ Mail(t)' = Rest(t) /\ \A s, u \in Servers : link'[s][u] = <<>>
    BY <1>2, <1>9, SendsNothing
  <2> HIDE DEF m, r, nd
  <2> QED
    BY <1>2, <1>3, <1>9, <2>1, <2>2, DaemonStepBakery DEF nd
<1>10. ASSUME NEW fin \in Node, NEW e \in DaemonMessage, e.key = m.key, e.cmd \in Exits => m.cmd \in Exits,
             Bakery(fin, Rest(t) \cup {e}, now), KeepsLocks(nd, fin),
             NEW s \in Servers, SendTo(t, s, e) \/ Broadcast(t, e),
             node' = [node EXCEPT ![t] = fin], UNCHANGED <<client, toClient, now>>
      PROVE  BakeryInv'
  <2>1. Answers(t, Rest(t) \cup {e})
    BY <1>10 DEF Answers
  <2>2. /\ Alone(inbox'[t]) /\ Mail(t)' = Rest(t) \cup {e}
        /\ \A v, u \in Servers : link'[v][u] = <<>>
    BY <1>2, <1>10, SendsMessage
  <2>3. Rest(t) \cup {e} \in SUBSET Message
    BY <1>3, <1>8
  <2> HIDE DEF m, r, nd
  <2> QED
    BY <1>2, <1>10, <2>1, <2>2, <2>3, DaemonStepBakery DEF nd
<1>11. KeepsLocks(nd, nd)
  BY SameKeepsLocks
<1>12. client[Key(r)].service # 0
  <2>1. m \in Mail(t)
    BY <1>2, ReadsMail
  <2> QED
    BY <1>4, <2>1 DEF BakeryInv, Told
<1>13. CASE HandleLock(t)
  <2> DEFINE e   == [cmd |-> "LOCKENTERING", from |-> t, key |-> m.key,
                     service |-> m.service, timeout |-> m.timeout]
             fin == Allocate(nd, r, m.timeout)
  <2>1. m.cmd = "LOCK" /\ m.service \in 1 .. MaxLocks /\ m.timeout \in Nat
    BY <1>1, <1>13, ReceivedType DEF HandleLock
  <2>2. /\ \/ SendNothing(t) /\ node' = [node EXCEPT ![t] = nd]
           \/ Broadcast(t, e) /\ node' = [node EXCEPT ![t] = Allocate(nd, <<m.key, m.service>>, m.timeout)]
        /\ UNCHANGED <<client, toClient, now>>
    BY <1>1, <1>13 DEF HandleLock
  <2>3. m.service = 1
    BY <1>6, <2>1
  <2>4. e \in DaemonMessage /\ e.key = m.key /\ e.cmd = "LOCKENTERING"
    BY <1>4, <2>1 DEF DaemonMessage, EnteringMessage
  <2>5. ~nd.ticket[r].added_ticket /\ ~nd.ticket[r].locked
    BY <1>3, <2>1 DEF StageOf, Exits
  <2> HIDE DEF m, r, nd, e
  <2>6. /\ fin \in Node
        /\ Bakery(fin, Rest(t), now)
        /\ fin.ticket[r] = NewTicket(m.timeout)
        /\ fin.tickets = nd.tickets
        /\ \A q \in Requests : q # r => fin.ticket[q] = nd.ticket[q]
    BY <1>1, <1>3, <1>4, <2>1, <2>5, AllocateBakery
  <2> HIDE DEF fin
  <2>7. StageOf(fin, e, now)
    BY <2>4, <2>6 DEF StageOf, NewTicket, r
  <2>8. Bakery(fin, Rest(t) \cup {e}, now)
    BY <2>4, <2>6, <2>7, PlainMessage, MoreMailBakery
  <2>9. ~fin.ticket[r].locked /\ ~nd.ticket[r].locked
    BY <1>4, <2>5, <2>6 DEF NewTicket, Ticket
  <2>10. KeepsLocks(nd, fin)
    BY <1>12, <2>6, <2>9 DEF KeepsLocks, Held
  <2>11. CASE SendNothing(t) /\ node' = [node EXCEPT ![t] = nd]
    BY <1>1, <1>3, <1>9, <1>11, <2>2, <2>11
  <2>12. CASE Broadcast(t, e) /\ node' = [node EXCEPT ![t] = fin]
    BY <1>10, <2>2, <2>4, <2>6, <2>8, <2>10, <2>12 DEF Exits
  <2> QED
    BY <2>2, <2>3, <2>11, <2>12 DEF fin, r
<1>14. CASE HandleUnlock(t)
  <2> DEFINE own   == {u \in nd.tickets : Key(u[2]) = m.key}
             first == {u \in own : \A v \in own : v = u \/ Before(u, v)}
             d(u)  == [cmd |-> "DROPTICKET", from |-> t, key |-> m.key,
                       id |-> IF nd.ticket[u[2]].added_ticket
                              THEN nd.ticket[u[2]].our_ticket ELSE 0]
  <2>1. m.cmd = "UNLOCK"
    BY <1>1, <1>14, ReceivedType DEF HandleUnlock
  <2>2. /\ SendNothing(t) \/ \E u \in first : Broadcast(t, d(u))
        /\ node' = [node EXCEPT ![t] = nd]
        /\ UNCHANGED <<client, toClient, now>>
    BY <1>1, <1>14 DEF HandleUnlock
  <2>3. ASSUME NEW u \in first
        PROVE  d(u) \in DaemonMessage /\ d(u).key = m.key /\ d(u).cmd = "DROPTICKET"
    <3>1. nd.ticket[u[2]].our_ticket \in Nat
      BY <1>1 DEF Node, Ticket
    <3> QED
      BY <1>4, <3>1 DEF DaemonMessage, TicketMessage
  <2> HIDE DEF m, r, nd, d, first
  <2>4. ASSUME NEW u \in first, Broadcast(t, d(u)) PROVE BakeryInv'
    <3>1. StageOf(nd, d(u), now)
      BY <2>3 DEF StageOf, Exits, Entries
    <3>2. Bakery(nd, Rest(t) \cup {d(u)}, now)
      BY <1>3, <2>3, <3>1, PlainMessage, MoreMailBakery
    <3> QED
      BY <1>1, <1>10, <1>11, <2>1, <2>2, <2>3, <2>4, <3>2 DEF Exits
  <2>5. CASE SendNothing(t)
    BY <1>1, <1>3, <1>9, <1>11, <2>2, <2>5
  <2> QED
    BY <2>2, <2>4, <2>5
<1>15. CASE LockEntering(t)
  <2> DEFINE fresh     == m.timeout > now
             allocated == IF fresh /\ Entering(nd, m.key) = {}
                          THEN Allocate(nd, <<m.key, m.service>>, m.timeout)
                          ELSE nd
             cleaned   == Cleanup(allocated, t, now)
             e         == [cmd |-> "LOCKENTERED", from |-> t, key |-> m.key]
  <2>1. m.cmd = "LOCKENTERING" /\ m.service \in 1 .. MaxLocks /\ m.timeout \in Nat /\ m.from \in Servers
    BY <1>1, <1>15, ReceivedType DEF LockEntering
  <2>2. /\ IF fresh THEN SendTo(t, m.from, e) ELSE SendNothing(t)
        /\ node' = [node EXCEPT ![t] = cleaned]
        /\ toClient' = Notify(t, allocated, cleaned)
        /\ UNCHANGED <<client, now>>
    BY <1>15 DEF LockEntering
  <2>3. m.service = 1
    BY <1>6, <2>1
  <2>4. e \in DaemonMessage /\ e.key = m.key /\ e.cmd = "LOCKENTERED"
    BY <1>4 DEF DaemonMessage, KeyMessage
  <2>5. ~nd.ticket[r].added_ticket /\ ~nd.ticket[r].locked /\ nd.ticket[r].our_ticket = 0
    BY <1>3, <2>1 DEF StageOf, Exits
  <2>6. CASE fresh /\ Entering(nd, m.key) = {}
    <3> DEFINE fin == Allocate(nd, r, m.timeout)
    <3>1. allocated = fin
      BY <2>3, <2>6
    <3> HIDE DEF m, r, nd, e, allocated
    <3>2. /\ fin \in Node
          /\ Bakery(fin, Rest(t), now)
          /\ r \in fin.entering
          /\ fin.ticket[r] = NewTicket(m.timeout)
          /\ fin.tickets = nd.tickets
          /\ \A q \in Requests : q # r => fin.ticket[q] = nd.ticket[q]
      BY <1>1, <1>3, <1>4, <2>1, <2>5, AllocateBakery
    <3> HIDE DEF fin
    <3>3. StageOf(fin, e, now)
      BY <2>4, <3>2 DEF StageOf, NewTicket, r
    <3>4. ~fin.ticket[r].locked /\ ~nd.ticket[r].locked
      BY <1>4, <2>5, <3>2 DEF NewTicket, Ticket
    <3>5. KeepsLocks(nd, fin)
      BY <1>12, <3>2, <3>4 DEF KeepsLocks, Held
    <3>6. Bakery(fin, Rest(t) \cup {e}, now)
      BY <2>4, <3>2, <3>3, PlainMessage, MoreMailBakery
    <3>7. cleaned \in Node /\ Settles(fin, cleaned, now)
      BY <1>1, <3>1, <3>2, CleanupType, CleanupSettles
    <3>8. Answers(t, Rest(t) \cup {e}) /\ Rest(t) \cup {e} \in SUBSET Message
      BY <1>3, <1>8, <2>4 DEF Answers, Exits, m
    <3>9. /\ Alone(inbox'[t]) /\ Mail(t)' = Rest(t) \cup {e}
          /\ \A v, u \in Servers : link'[v][u] = <<>>
      BY <1>2, <2>1, <2>2, <2>4, <2>6, SendsMessage DEF m
    <3> HIDE DEF cleaned
    <3> QED
      BY <1>2, <2>2, <3>1, <3>2, <3>5, <3>6, <3>7, <3>8, <3>9, DaemonStepBakery DEF nd
  <2>7. CASE fresh /\ Entering(nd, m.key) # {}
    <3>1. allocated = nd /\ r \in nd.entering
      BY <1>5, <2>7
    <3> HIDE DEF m, r, nd, e, allocated
    <3>2. StageOf(nd, e, now)
      BY <2>4, <2>5, <3>1 DEF StageOf, r
    <3>3. Bakery(nd, Rest(t) \cup {e}, now)
      BY <1>3, <2>4, <3>2, PlainMessage, MoreMailBakery
    <3>4. cleaned \in Node /\ Settles(nd, cleaned, now)
      BY <1>1, <3>1, CleanupType, CleanupSettles
    <3>5. Answers(t, Rest(t) \cup {e}) /\ Rest(t) \cup {e} \in SUBSET Message
      BY <1>3, <1>8, <2>4 DEF Answers, Exits, m
    <3>6. /\ Alone(inbox'[t]) /\ Mail(t)' = Rest(t) \cup {e}
          /\ \A v, u \in Servers : link'[v][u] = <<>>
      BY <1>2, <2>1, <2>2, <2>4, <2>7, SendsMessage DEF m
    <3> HIDE DEF cleaned
    <3> QED
      BY <1>1, <1>2, <1>11, <2>2, <3>1, <3>3, <3>4, <3>5, <3>6, DaemonStepBakery DEF nd
  <2>8. CASE ~fresh
    <3>1. allocated = nd
      BY <2>8
    <3> HIDE DEF m, r, nd, e, allocated
    <3>2. cleaned \in Node /\ Settles(nd, cleaned, now)
      BY <1>1, <3>1, CleanupType, CleanupSettles
    <3>3. Answers(t, Rest(t))
      BY DEF Answers
    <3>4. Alone(inbox'[t]) /\ Mail(t)' = Rest(t) /\ \A v, u \in Servers : link'[v][u] = <<>>
      BY <1>2, <2>2, <2>8, SendsNothing
    <3> HIDE DEF cleaned
    <3> QED
      BY <1>1, <1>2, <1>3, <1>11, <2>2, <3>1, <3>2, <3>3, <3>4, DaemonStepBakery DEF nd
  <2> QED
    BY <2>6, <2>7, <2>8
<1>16. CASE LockEntered(t)
  <2> DEFINE tk  == Entered(nd.ticket[r], 1)
             fin == [nd EXCEPT !.ticket[r] = tk]
             e   == [cmd |-> "GETMAXTICKET", from |-> t, key |-> m.key]
  <2>1. m.cmd = "LOCKENTERED"
    BY <1>1, <1>16, ReceivedType DEF LockEntered
  <2>2. /\ \/ SendNothing(t) /\ node' = [node EXCEPT ![t] = nd]
           \/ /\ r \in nd.entering
              /\ SendNothing(t) \/ Broadcast(t, e)
              /\ node' = [node EXCEPT ![t].ticket[r] = tk]
        /\ UNCHANGED <<client, toClient, now>>
    BY <1>1, <1>5, <1>16 DEF LockEntered
  <2>3. e \in DaemonMessage /\ e.key = m.key /\ e.cmd = "GETMAXTICKET"
    BY <1>4 DEF DaemonMessage, KeyMessage
  <2>4. ~nd.ticket[r].added_ticket /\ ~nd.ticket[r].locked /\ nd.ticket[r].our_ticket = 0
    BY <1>3, <2>1 DEF StageOf, Exits
  <2>5. node' = [node EXCEPT ![t].ticket[r] = tk] => node' = [node EXCEPT ![t] = fin]
    BY <1>1
  <2> HIDE DEF m, r, nd, e
  <2>6. /\ tk \in Ticket /\ SameNumber(nd.ticket[r], tk)
        /\ tk.locked = nd.ticket[r].locked /\ tk.lock_timeout = nd.ticket[r].lock_timeout
    BY <1>4, EnteredSame, EnteredType
  <2> HIDE DEF tk
  <2>7. /\ fin \in Node /\ fin.entering = nd.entering /\ fin.tickets = nd.tickets
        /\ fin.ticket[r] = tk
        /\ \A q \in Requests : q # r => fin.ticket[q] = nd.ticket[q]
    BY <1>1, <1>4, <2>6, TicketChanged
  <2> HIDE DEF fin
  <2>8. Settles(nd, fin, now)
    BY <2>6, <2>7 DEF Settles, SameNumber
  <2>9. Bakery(fin, Rest(t), now)
    BY <1>1, <1>3, <2>7, <2>8, SettlesBakery
  <2>10. KeepsLocks(nd, fin)
    BY <1>12, <2>6, <2>7 DEF KeepsLocks, Held
  <2>11. CASE SendNothing(t) /\ node' = [node EXCEPT ![t] = nd]
    BY <1>1, <1>3, <1>9, <1>11, <2>2, <2>11
  <2>12. CASE SendNothing(t) /\ node' = [node EXCEPT ![t] = fin]
    BY <1>9, <2>2, <2>7, <2>9, <2>10, <2>12
  <2>13. CASE r \in nd.entering /\ Broadcast(t, e) /\ node' = [node EXCEPT ![t] = fin]
    <3>1. StageOf(fin, e, now)
      BY <2>3, <2>4, <2>6, <2>7, <2>13 DEF StageOf, SameNumber, r
    <3>2. Bakery(fin, Rest(t) \cup {e}, now)
      BY <2>3, <2>9, <3>1, PlainMessage, MoreMailBakery
    <3> QED
      BY <1>10, <2>2, <2>3, <2>7, <2>10, <2>13, <3>2 DEF Exits
  <2> QED
    BY <2>2, <2>5, <2>11, <2>12, <2>13
<1>17. CASE GetMaxTicket(t)
  <2> DEFINE cleaned == Cleanup(nd, t, now)
             e(n)    == [cmd |-> "MAXTICKET", from |-> t, key |-> m.key, id |-> n]
  <2>1. m.cmd = "GETMAXTICKET" /\ m.from \in Servers
    BY <1>1, <1>17, ReceivedType DEF GetMaxTicket
  <2>2. /\ \E n \in LastTicket(cleaned) : SendTo(t, m.from, e(n))
        /\ node' = [node EXCEPT ![t] = cleaned]
        /\ toClient' = Notify(t, nd, cleaned)
        /\ UNCHANGED <<client, now>>
    BY <1>17 DEF GetMaxTicket
  <2>3. PICK n \in LastTicket(cleaned) : SendTo(t, m.from, e(n))
    BY <2>2
  <2>4. cleaned \in Node /\ Settles(nd, cleaned, now) /\ n \in Nat
    BY <1>1, CleanupType, CleanupSettles, LastTicketType
  <2>5. e(n) \in DaemonMessage /\ e(n).key = m.key /\ e(n).cmd = "MAXTICKET" /\ e(n).id = n
    BY <1>4, <2>4 DEF DaemonMessage, TicketMessage
  <2>6. \A u \in cleaned.tickets : cleaned.ticket[u[2]].our_ticket <= n
    BY DEF LastTicket
  <2> HIDE DEF m, r, nd, e, cleaned
  <2>7. StageOf(nd, e(n), now)
    BY <1>3, <2>1, <2>5 DEF StageOf, Entries, Exits
  <2>8. ASSUME NEW q \in Requests, NEW p \in Requests, Passed(nd, q, p, now)
         PROVE  Numbered(nd, q, p, e(n))
    <3>1. PICK u \in nd.tickets : u[2] = q
      BY <2>8 DEF Passed, Held
    <3>2. u \in cleaned.tickets
      BY <2>4, <2>8, <3>1 DEF Settles, Passed
    <3>3. nd.ticket[q].our_ticket = cleaned.ticket[q].our_ticket
      BY <2>4 DEF Settles, SameNumber
    <3>4. cleaned.ticket[q].our_ticket <= n /\ cleaned.ticket[q].our_ticket \in Nat
      BY <2>4, <2>6, <3>1, <3>2 DEF Node, Ticket
    <3>5. n >= nd.ticket[q].our_ticket
      BY <2>4, <3>3, <3>4
    <3> QED
      BY <2>5, <3>5 DEF Numbered
  <2>9. Bakery(nd, Rest(t) \cup {e(n)}, now)
    BY <1>3, <2>7, <2>8, MoreMailBakery
  <2>10. Answers(t, Rest(t) \cup {e(n)}) /\ Rest(t) \cup {e(n)} \in SUBSET Message
    BY <1>3, <1>8, <2>5 DEF Answers, Exits, m
  <2>11. /\ Alone(inbox'[t]) /\ Mail(t)' = Rest(t) \cup {e(n)}
         /\ \A v, u \in Servers : link'[v][u] = <<>>
    BY <1>2, <2>1, <2>3, <2>5, SendsMessage DEF m
  <2> QED
    BY <1>1, <1>2, <1>11, <2>2, <2>4, <2>9, <2>10, <2>11, DaemonStepBakery DEF nd
<1>18. CASE MaxTicket(t)
  <2> DEFINE tk  == MaxTicketReceived(nd.ticket[r], m.id, 1)
             fin == [nd EXCEPT !.ticket[r] = tk]
             e   == [cmd |-> "ADDTICKET", from |-> t, key |-> m.key, id |-> tk.our_ticket]
  <2>1. m.cmd = "MAXTICKET" /\ m.id \in Nat
    BY <1>1, <1>18, ReceivedType DEF MaxTicket
  <2>2. ~nd.ticket[r].added_ticket /\ ~nd.ticket[r].locked /\ nd.ticket[r].our_ticket = 0
    BY <1>3, <2>1 DEF StageOf, Exits
  <2>3. /\ tk.our_ticket = m.id + 1 /\ tk.added_ticket
        /\ tk.added_ticket_quorum = nd.ticket[r].added_ticket_quorum
        /\ tk.ticket_ready = nd.ticket[r].ticket_ready
        /\ tk.locked = nd.ticket[r].locked /\ tk.lock_timeout = nd.ticket[r].lock_timeout
        /\ tk.obtention_timeout = nd.ticket[r].obtention_timeout
    BY <1>4, <2>1, <2>2, MaxTicketFields
  <2>4. tk \in Ticket
    BY <1>4, <2>1, MaxTicketReceivedType
  <2>5. /\ \/ SendNothing(t) /\ node' = [node EXCEPT ![t] = nd]
           \/ /\ r \in nd.entering
              /\ Broadcast(t, e)
              /\ node' = [node EXCEPT ![t].ticket[r] = tk]
        /\ UNCHANGED <<client, toClient, now>>
    BY <1>1, <1>5, <1>18, <2>2, <2>3 DEF MaxTicket
  <2>6. node' = [node EXCEPT ![t].ticket[r] = tk] => node' = [node EXCEPT ![t] = fin]
    BY <1>1
  <2> HIDE DEF tk
  <2>7. e \in DaemonMessage /\ e.key = m.key /\ e.cmd = "ADDTICKET" /\ e.id = m.id + 1
    BY <1>4, <2>1, <2>3 DEF DaemonMessage, TicketMessage
  <2> HIDE DEF m, r, nd, e
  <2>8. /\ fin \in Node /\ fin.entering = nd.entering /\ fin.tickets = nd.tickets
        /\ fin.ticket[r] = tk
        /\ \A q \in Requests : q # r => fin.ticket[q] = nd.ticket[q]
    BY <1>1, <1>4, <2>4, TicketChanged
  <2> HIDE DEF fin
  <2>9. ASSUME r \in nd.entering PROVE Bakery(fin, Rest(t) \cup {e}, now)
    <3>1. /\ fin.ticket[r].our_ticket = m.id + 1 /\ fin.ticket[r].added_ticket
          /\ fin.ticket[r].added_ticket_quorum = nd.ticket[r].added_ticket_quorum
          /\ fin.ticket[r].ticket_ready = nd.ticket[r].ticket_ready
          /\ fin.ticket[r].locked = nd.ticket[r].locked
          /\ fin.ticket[r].lock_timeout = nd.ticket[r].lock_timeout
          /\ fin.ticket[r].obtention_timeout = nd.ticket[r].obtention_timeout
      BY <2>3, <2>8
    <3>2. /\ \A x \in Rest(t) : x.key # Key(r)
          /\ m.key = Key(r) /\ e.key = Key(r) /\ e \in Message
      BY <1>3, <1>4, <1>8, <2>7
    <3> QED
      <4>1. /\ nd \in Node /\ fin \in Node /\ Rest(t) \in SUBSET Message
            /\ m \in Message /\ r \in Requests /\ Bakery(nd, Rest(t) \cup {m}, now)
            /\ m.cmd = "MAXTICKET" /\ e.cmd = "ADDTICKET" /\ e.id = m.id + 1
            /\ fin.entering = nd.entering /\ fin.tickets = nd.tickets /\ r \in nd.entering
        BY <1>1, <1>2, <1>3, <1>4, <2>1, <2>7, <2>8, <2>9
      <4>2. \A q \in Requests : q # r => fin.ticket[q] = nd.ticket[q]
        BY <2>8
      <4> QED
        BY <3>1, <3>2, <4>1, <4>2, NumberBakery
  <2>10. ~fin.ticket[r].locked /\ ~nd.ticket[r].locked
    BY <1>4, <2>2, <2>3, <2>8 DEF Ticket
  <2>11. KeepsLocks(nd, fin)
    BY <1>12, <2>8, <2>10 DEF KeepsLocks, Held
  <2>12. CASE SendNothing(t) /\ node' = [node EXCEPT ![t] = nd]
    BY <1>1, <1>3, <1>9, <1>11, <2>5, <2>12
  <2>13. CASE r \in nd.entering /\ Broadcast(t, e) /\ node' = [node EXCEPT ![t] = fin]
    BY <1>10, <2>5, <2>7, <2>8, <2>9, <2>11, <2>13 DEF Exits
  <2> QED
    BY <2>5, <2>6, <2>12, <2>13
<1>19. CASE AddTicket(t)
  <2> DEFINE e   == [cmd |-> "TICKETADDED", from |-> t, key |-> m.key, id |-> m.id]
             fin == [nd EXCEPT !.tickets = (@ \ TicketsAt(nd, m.id, m.key)) \cup {<<m.id, r>>}]
  <2>1. m.cmd = "ADDTICKET" /\ m.id \in Nat /\ m.from \in Servers
    BY <1>1, <1>19, ReceivedType DEF AddTicket
  <2>2. /\ r \in nd.entering
        /\ node' = [node EXCEPT ![t].tickets = (@ \ TicketsAt(nd, m.id, m.key)) \cup {<<m.id, r>>}]
        /\ SendTo(t, m.from, e)
        /\ UNCHANGED <<client, toClient, now>>
    BY <1>5, <1>19 DEF AddTicket
  <2>3. node' = [node EXCEPT ![t] = fin]
    BY <1>1, <2>2
  <2>4. e \in DaemonMessage /\ e.key = m.key /\ e.cmd = "TICKETADDED" /\ e.id = m.id
    BY <1>4, <2>1 DEF DaemonMessage, TicketMessage
  <2>5. TicketsAt(nd, m.id, m.key) = {}
    <3>1. ~Held(nd, r)
      BY <1>3, <2>1 DEF StageOf
    <3> QED
      BY <1>7, <3>1 DEF Held, TicketsAt
  <2>6. fin = [nd EXCEPT !.tickets = nd.tickets \cup {<<m.id, r>>}]
    BY <1>1, <2>5 DEF Node
  <2> HIDE DEF m, r, nd, e, fin
  <2>7. /\ fin.entering = nd.entering /\ fin.ticket = nd.ticket
        /\ fin.tickets = nd.tickets \cup {<<m.id, r>>}
        /\ fin \in Node
    BY <1>1, <1>4, <2>1, <2>6 DEF Node
  <2>8. fin.tickets \subseteq nd.tickets \cup {<<m.id, r>>}
    BY <2>7
  <2>9. Bakery(fin, Rest(t) \cup {e}, now)
    <3>1. /\ \A x \in Rest(t) : x.key # Key(r)
          /\ m.key = Key(r) /\ e.key = Key(r) /\ e \in Message
      BY <1>3, <1>4, <1>8, <2>4
    <3> QED
      BY <1>1, <1>2, <1>3, <1>4, <2>1, <2>2, <2>4, <2>7, <2>8, <3>1, AddBakery
  <2>10. KeepsLocks(nd, fin)
    BY <1>12, <2>7 DEF KeepsLocks, Held
  <2> QED
    BY <1>10, <2>1, <2>2, <2>3, <2>4, <2>7, <2>9, <2>10 DEF Exits
<1>20. CASE AddTicketThrows(t)
  BY <1>1, <1>3, <1>9, <1>11, <1>20 DEF AddTicketThrows
<1>21. CASE TicketAdded(t)
  <2> DEFINE tk  == TicketAddedReceived(nd.ticket[r], nd.entering, 1)
             fin == [nd EXCEPT !.ticket[r] = tk]
             e   == [cmd |-> "LOCKEXITING", from |-> t, key |-> m.key]
  <2>1. m.cmd = "TICKETADDED" /\ m.id \in Nat
    BY <1>1, <1>21, ReceivedType DEF TicketAdded
  <2>2. ~nd.ticket[r].added_ticket_quorum /\ ~nd.ticket[r].locked
    BY <1>3, <2>1 DEF StageOf, Exits
  <2>3. /\ tk.added_ticket_quorum /\ tk.still_entering = nd.entering
        /\ tk.our_ticket = nd.ticket[r].our_ticket /\ tk.added_ticket = nd.ticket[r].added_ticket
        /\ tk.ticket_ready = nd.ticket[r].ticket_ready
        /\ tk.locked = nd.ticket[r].locked /\ tk.lock_timeout = nd.ticket[r].lock_timeout
        /\ tk.obtention_timeout = nd.ticket[r].obtention_timeout
    BY <1>4, <2>2, TicketAddedFields
  <2>4. tk \in Ticket
    BY <1>1, <1>4, TicketAddedReceivedType DEF Node
  <2>5. \A u \in TicketsAt(nd, m.id, m.key) : u[2] = r
    BY <1>7 DEF TicketsAt
  <2>6. /\ \/ SendNothing(t) /\ node' = [node EXCEPT ![t] = nd]
           \/ Broadcast(t, e) /\ node' = [node EXCEPT ![t].ticket[r] = tk]
        /\ UNCHANGED <<client, toClient, now>>
    <3>1. \/ SendNothing(t) /\ UNCHANGED node
          \/ \E u \in TicketsAt(nd, m.id, m.key) :
                LET old == nd.ticket[u[2]]
                    new == TicketAddedReceived(old, nd.entering, quorum(t))
                IN  /\ node' = [node EXCEPT ![t].ticket[u[2]] = new]
                    /\ IF new.added_ticket_quorum /\ ~old.added_ticket_quorum
                       THEN Broadcast(t, e) ELSE SendNothing(t)
      BY <1>21 DEF TicketAdded
    <3>2. UNCHANGED <<client, toClient, now>>
      BY <1>21 DEF TicketAdded
    <3>3. CASE SendNothing(t) /\ UNCHANGED node
      BY <1>1, <3>2, <3>3
    <3>4. CASE \E u \in TicketsAt(nd, m.id, m.key) :
                LET old == nd.ticket[u[2]]
                    new == TicketAddedReceived(old, nd.entering, quorum(t))
                IN  /\ node' = [node EXCEPT ![t].ticket[u[2]] = new]
                    /\ IF new.added_ticket_quorum /\ ~old.added_ticket_quorum
                       THEN Broadcast(t, e) ELSE SendNothing(t)
      <4>1. /\ node' = [node EXCEPT ![t].ticket[r] = tk]
            /\ IF tk.added_ticket_quorum /\ ~nd.ticket[r].added_ticket_quorum
               THEN Broadcast(t, e) ELSE SendNothing(t)
        BY <1>1, <2>5, <3>4
      <4> HIDE DEF tk, nd, e, r
      <4> QED
        BY <2>2, <2>3, <3>2, <4>1
    <3> QED
      BY <3>1, <3>3, <3>4
  <2>7. node' = [node EXCEPT ![t].ticket[r] = tk] => node' = [node EXCEPT ![t] = fin]
    BY <1>1
  <2>8. e \in DaemonMessage /\ e.key = m.key /\ e.cmd = "LOCKEXITING"
    BY <1>4 DEF DaemonMessage, KeyMessage
  <2> HIDE DEF m, r, nd, e, tk
  <2>9. /\ fin \in Node /\ fin.entering = nd.entering /\ fin.tickets = nd.tickets
        /\ fin.ticket[r] = tk
        /\ \A q \in Requests : q # r => fin.ticket[q] = nd.ticket[q]
    BY <1>1, <1>4, <2>4, TicketChanged
  <2> HIDE DEF fin
  <2>10. Bakery(fin, Rest(t) \cup {e}, now)
    <3>1. /\ fin.ticket[r].added_ticket_quorum /\ fin.ticket[r].still_entering = nd.entering
          /\ fin.ticket[r].our_ticket = nd.ticket[r].our_ticket
          /\ fin.ticket[r].added_ticket = nd.ticket[r].added_ticket
          /\ fin.ticket[r].ticket_ready = nd.ticket[r].ticket_ready
          /\ fin.ticket[r].locked = nd.ticket[r].locked
          /\ fin.ticket[r].lock_timeout = nd.ticket[r].lock_timeout
          /\ fin.ticket[r].obtention_timeout = nd.ticket[r].obtention_timeout
      BY <2>3, <2>9
    <3>2. /\ \A x \in Rest(t) : x.key # Key(r)
          /\ m.key = Key(r) /\ e.key = Key(r) /\ e \in Message
      BY <1>3, <1>4, <1>8, <2>8
    <3> QED
      <4>1. /\ nd \in Node /\ fin \in Node /\ Rest(t) \in SUBSET Message
            /\ m \in Message /\ r \in Requests /\ Bakery(nd, Rest(t) \cup {m}, now)
            /\ m.cmd = "TICKETADDED" /\ e.cmd = "LOCKEXITING"
            /\ fin.entering = nd.entering /\ fin.tickets = nd.tickets
        BY <1>1, <1>2, <1>3, <1>4, <2>1, <2>8, <2>9
      <4>2. \A q \in Requests : q # r => fin.ticket[q] = nd.ticket[q]
        BY <2>9
      <4> QED
        BY <3>1, <3>2, <4>1, <4>2, CopyBakery
  <2>11. ~fin.ticket[r].locked /\ ~nd.ticket[r].locked
    BY <1>4, <2>2, <2>3, <2>9 DEF Ticket
  <2>12. KeepsLocks(nd, fin)
    BY <1>12, <2>9, <2>11 DEF KeepsLocks, Held
  <2>13. CASE SendNothing(t) /\ node' = [node EXCEPT ![t] = nd]
    BY <1>1, <1>3, <1>9, <1>11, <2>6, <2>13
  <2>14. CASE Broadcast(t, e) /\ node' = [node EXCEPT ![t] = fin]
    BY <1>10, <2>6, <2>8, <2>9, <2>10, <2>12, <2>14 DEF Exits
  <2> QED
    BY <2>6, <2>7, <2>13, <2>14
<1>22. CASE LockExiting(t)
  <2> DEFINE exited    == [nd EXCEPT
                              !.entering = @ \ Entering(nd, m.key),
                              !.ticket   = [q \in Requests |->
                                  IF \E u \in nd.tickets : u[2] = q
                                  THEN RemoveEntering(nd, nd.ticket[q], m.key, now)
                                  ELSE nd.ticket[q]]]
             activated == ActivateFirstLock(exited, t, now)
  <2>1. /\ SendNothing(t)
        /\ \/ node' = [node EXCEPT ![t] = nd] /\ UNCHANGED toClient
           \/ node' = [node EXCEPT ![t] = activated] /\ toClient' = Notify(t, exited, activated)
        /\ UNCHANGED <<client, now>>
    BY <1>1, <1>22 DEF LockExiting
  <2>2. \A q \in Requests : RemoveEntering(nd, nd.ticket[q], m.key, now) \in Ticket
    BY <1>1, RemoveEnteringType DEF Node
  <2>3. /\ exited.entering = nd.entering \ Entering(nd, m.key)
        /\ exited.tickets = nd.tickets
        /\ \A q \in Requests : exited.ticket[q] = IF Held(nd, q)
                                                   THEN RemoveEntering(nd, nd.ticket[q], m.key, now)
                                                   ELSE nd.ticket[q]
    BY <1>1 DEF Node, Held
  <2> HIDE DEF m, r, nd
  <2>4. exited \in Node
    <3> DEFINE tks == [q \in Requests |-> IF \E u \in nd.tickets : u[2] = q
                                         THEN RemoveEntering(nd, nd.ticket[q], m.key, now)
                                         ELSE nd.ticket[q]]
               ent == nd.entering \ Entering(nd, m.key)
    <3>1. tks \in [Requests -> Ticket] /\ ent \in SUBSET Requests
      BY <1>1, <2>2 DEF Node
    <3>2. exited = [nd EXCEPT !.entering = ent, !.ticket = tks]
      OBVIOUS
    <3> HIDE DEF tks, ent, exited
    <3> QED
      BY <1>1, <3>1, <3>2 DEF Node
  <2> HIDE DEF exited
  <2>5. Bakery(exited, Rest(t), now)
    BY <1>1, <1>3, <1>4, <2>3, <2>4, ExitBakery
  <2>6. activated \in Node /\ Settles(exited, activated, now)
    BY <1>1, <2>4, ActivateFirstLockType, ActivateFirstLockSettles
  <2> HIDE DEF activated
  <2>7. KeepsLocks(nd, exited)
    <3> SUFFICES ASSUME NEW q \in Requests
                 PROVE  /\ exited.ticket[q].locked = nd.ticket[q].locked
                        /\ exited.ticket[q].lock_timeout = nd.ticket[q].lock_timeout
                        /\ exited.ticket[q].added_ticket = nd.ticket[q].added_ticket
                        /\ exited.ticket[q].our_ticket = nd.ticket[q].our_ticket
                        /\ Held(nd, q) => Held(exited, q)
      BY DEF KeepsLocks
    <3>1. nd.ticket[q] \in Ticket
      BY <1>1 DEF Node
    <3>2. CASE Held(nd, q)
      <4>1. exited.ticket[q] = RemoveEntering(nd, nd.ticket[q], m.key, now)
        BY <2>3, <3>2
      <4> QED
        BY <2>3, <3>1, <4>1, RemoveEnteringFields DEF Held
    <3>3. CASE ~Held(nd, q)
      BY <2>3, <3>3
    <3> QED
      BY <3>2, <3>3
  <2>8. Answers(t, Rest(t))
    BY DEF Answers
  <2>9. Alone(inbox'[t]) /\ Mail(t)' = Rest(t) /\ \A v, u \in Servers : link'[v][u] = <<>>
    BY <1>2, <2>1, SendsNothing
  <2>10. CASE node' = [node EXCEPT ![t] = nd] /\ UNCHANGED toClient
    BY <1>1, <1>3, <1>9, <1>11, <2>1, <2>10
  <2>11. CASE node' = [node EXCEPT ![t] = activated] /\ toClient' = Notify(t, exited, activated)
    BY <1>2, <1>3, <2>1, <2>4, <2>5, <2>6, <2>7, <2>8, <2>9, <2>11, DaemonStepBakery DEF nd
  <2> QED
    BY <2>1, <2>10, <2>11
<1>23. CASE DropTicket(t)
  <2> DEFINE dropped   == [nd EXCEPT !.tickets = @ \ TicketsAt(nd, m.id, m.key)]
             named     == IF m.id = 0 THEN nd ELSE dropped
             activated == IF m.id = 0 THEN nd ELSE ActivateFirstLock(dropped, t, now)
             mid       == [named EXCEPT !.entering = @ \ Entering(nd, m.key)]
             fin       == [activated EXCEPT !.entering = @ \ Entering(nd, m.key)]
  <2>1. m.cmd = "DROPTICKET" /\ m.id \in Nat
    BY <1>1, <1>23, ReceivedType DEF DropTicket
  <2>2. /\ SendNothing(t)
        /\ node' = [node EXCEPT ![t] = fin]
        /\ toClient' = Notify(t, nd, activated)
        /\ UNCHANGED <<client, now>>
    BY <1>23 DEF DropTicket
  <2>3. /\ dropped \in Node /\ dropped.ticket = nd.ticket /\ dropped.entering = nd.entering
        /\ dropped.tickets \subseteq nd.tickets
        /\ \A u \in nd.tickets : u[2] # r => u \in dropped.tickets
    BY <1>1, <1>7 DEF Node, TicketsAt
  <2>4. ActivateFirstLock(dropped, t, now) \in Node /\ Settles(dropped, ActivateFirstLock(dropped, t, now), now)
    BY <1>1, <2>3, ActivateFirstLockType, ActivateFirstLockSettles
  <2>5. Settles(nd, nd, now)
    BY DEF Settles, SameNumber
  <2>6. /\ named \in Node /\ activated \in Node /\ Settles(named, activated, now)
        /\ named.ticket = nd.ticket /\ named.entering = nd.entering
        /\ named.tickets \subseteq nd.tickets
        /\ \A u \in nd.tickets : u[2] # r => u \in named.tickets
    BY <1>1, <2>3, <2>4, <2>5
  <2> HIDE DEF m, r, nd, named, activated
  <2>7. /\ mid \in Node /\ mid.ticket = named.ticket /\ mid.tickets = named.tickets
        /\ mid.entering = named.entering \ Entering(nd, m.key)
        /\ fin \in Node /\ fin.ticket = activated.ticket /\ fin.tickets = activated.tickets
        /\ fin.entering = activated.entering \ Entering(nd, m.key)
    BY <2>6 DEF Node
  <2> HIDE DEF mid, fin
  <2>8. Settles(mid, fin, now)
    BY <2>6, <2>7 DEF Settles, Granted
  <2>9. \A q \in nd.entering : q # r => q \in mid.entering
    BY <1>5, <2>6, <2>7
  <2>10. Bakery(mid, Rest(t), now)
    <3>1. mid.ticket = nd.ticket /\ mid.tickets \subseteq nd.tickets
      BY <2>6, <2>7
    <3> QED
      BY <1>1, <1>3, <1>4, <2>7, <2>9, <3>1, DropBakery
  <2>11. ~Connected(m.key)
    BY <1>2, <1>4, <2>1, ReadsMail DEF BakeryInv, Told, Exits, m
  <2>12. KeepsLocks(nd, mid)
    <3>1. \A q \in Requests : Connected(Key(q)) /\ Held(nd, q) => Held(mid, q)
      BY <1>4, <2>6, <2>7, <2>11 DEF Held
    <3> QED
      BY <2>6, <2>7, <3>1 DEF KeepsLocks
  <2>13. toClient' = Notify(t, mid, fin)
    BY <2>2, <2>6, <2>7 DEF Notify
  <2>14. Answers(t, Rest(t))
    BY DEF Answers
  <2>15. Alone(inbox'[t]) /\ Mail(t)' = Rest(t) /\ \A v, u \in Servers : link'[v][u] = <<>>
    BY <1>2, <2>2, SendsNothing
  <2> QED
    BY <1>2, <1>3, <2>2, <2>7, <2>8, <2>10, <2>12, <2>13, <2>14, <2>15, DaemonStepBakery DEF nd
<1> QED
  BY <1>13, <1>14, <1>15, <1>16, <1>17, <1>18, <1>19, <1>20, <1>21, <1>22, <1>23
     DEF HandleMessage

\* A LOCKENTERING or GETMAXTICKET for another object_name.
LEMMA OtherObjectBakery ==
    ASSUME OneDaemon, AskOnce, BakeryInv, MatchInv', NEW t \in Servers, OtherObject(t)
    PROVE  BakeryInv'
<1> DEFINE cleaned == Cleanup(node[t], t, now)
<1>1. /\ MatchInv /\ node[t] \in Node /\ now \in Nat /\ node \in [Servers -> Node]
      /\ inbox[t] \in Seq(Message)
  BY DEF BakeryInv, MatchInv, TypeOK
<1>2. /\ node' = [node EXCEPT ![t] = cleaned] /\ toClient' = Notify(t, node[t], cleaned)
      /\ UNCHANGED <<inbox, link, client, now>>
  BY DEF OtherObject
<1>3. cleaned \in Node /\ Settles(node[t], cleaned, now)
  BY <1>1, CleanupType, CleanupSettles
<1> HIDE DEF cleaned
<1>4. Mail(t) \in SUBSET Message /\ Mail(t)' = Mail(t) /\ node'[t] = cleaned
  BY <1>1, <1>2 DEF Mail
<1>5. Bakery(cleaned, Mail(t), now)
  BY <1>1, <1>3, <1>4, SettlesBakery DEF BakeryInv
<1>6. ASSUME NEW c \in Clients PROVE Told(c, node[t], Mail(t), toClient[c])'
  <2>1. Told(c, node[t], Mail(t), toClient[c]) /\ Home[c] = t
    BY HomeAssumption DEF BakeryInv, OneDaemon
  <2>2. Told(c, cleaned, Mail(t), toClient'[c])
    BY <1>1, <1>2, <1>3, <2>1, SettlesTold
  <2> QED
    BY <1>2, <1>4, <2>2 DEF Told, Connected
<1>7. Bakery(node[t], Mail(t), now)'
  <2>1. (node[t])' = cleaned /\ (Mail(t))' = Mail(t) /\ now' = now
    BY <1>2, <1>4
  <2> QED
    BY <1>5, <2>1 DEF Bakery, Memory, Stage, StageOf, Order, Passed, Numbered, Behind, Held
<1>8. /\ Alone(inbox[t])'
      /\ \A s, u \in Servers : (link[s][u] = <<>>)'
      /\ \A u \in Servers : u = t
  BY <1>2 DEF BakeryInv, Alone, OneDaemon
<1> QED
  BY <1>6, <1>7, <1>8 DEF BakeryInv

-----------------------------------------------------------------------------
(* The clients.                                                            *)

\* A step of client c: the bakery sees one more message of c at most.
LEMMA ClientStepBakery ==
    ASSUME OneDaemon, AskOnce, BakeryInv, MatchInv', NEW c \in Clients, NEW t \in Servers,
           Alone(inbox'[t]), Bakery(node[t], Mail(t)', now),
           \A x \in Mail(t)' : x \in Mail(t) \/ x.key = c,
           \A d \in Clients : d # c => client'[d] = client[d] /\ toClient'[d] = toClient[d],
           Told(c, node[t], Mail(t), toClient[c])',
           UNCHANGED <<node, link, now>>
    PROVE  BakeryInv'
<1>1. \A u \in Servers : u = t
  BY DEF OneDaemon
<1>2. ASSUME NEW d \in Clients, d # c PROVE Told(d, node[t], Mail(t), toClient[d])'
  <2>1. Told(d, node[t], Mail(t), toClient[d])
    BY DEF BakeryInv
  <2>2. client'[d] = client[d] /\ toClient'[d] = toClient[d]
    BY <1>2
  <2>3. \A x \in Mail(t)' : x.key = d => x \in Mail(t)
    BY <1>2
  <2>4. Connected(d)' <=> Connected(d)
    BY <2>2 DEF Connected
  <2> QED
    BY <2>1, <2>2, <2>3, <2>4 DEF Told
<1>3. \A d \in Clients : Told(d, node[t], Mail(t), toClient[d])'
  BY <1>2
<1>4. Bakery(node[t], Mail(t), now)'
  BY DEF Bakery, Memory, Stage, StageOf, Order, Passed, Numbered, Behind, Held
<1>5. Alone(inbox[t])' /\ \A s, u \in Servers : (link[s][u] = <<>>)'
  BY DEF BakeryInv, Alone
<1> QED
  BY <1>1, <1>3, <1>4, <1>5 DEF BakeryInv

\* One more message of a client that has none on its way.
LEMMA PostsMail ==
    ASSUME BakeryInv, NEW t \in Servers, NEW m \in Message, \A x \in Mail(t) : x.key # m.key,
           inbox' = [inbox EXCEPT ![t] = Append(@, m)]
    PROVE  Alone(inbox'[t]) /\ Mail(t)' = Mail(t) \cup {m}
<1>1. inbox \in [Servers -> Seq(Message)] /\ Alone(inbox[t])
  BY DEF BakeryInv, MatchInv, TypeOK
<1>2. inbox'[t] = Append(inbox[t], m)
  BY <1>1
<1>3. Mail(t) = Elements(inbox[t]) /\ Mail(t)' = Elements(inbox'[t])
  BY DEF Mail, Elements
<1> QED
  BY <1>1, <1>2, <1>3, AppendAlone

LEMMA ClientLockBakery ==
    ASSUME OneDaemon, AskOnce, BakeryInv, MatchInv', NEW c \in Clients, ClientLock(c)
    PROVE  BakeryInv'
<1> DEFINE t == Home[c]
           r == <<c, 1>>
           deadline == now + ObtentionTimeout[c]
           service == client[c].service + 1
           m == [cmd |-> "LOCK", key |-> c, service |-> service, timeout |-> deadline]
<1>1. /\ MatchInv /\ t \in Servers /\ node[t] \in Node
      /\ client \in [Clients -> ClientState] /\ now \in Nat
      /\ ObtentionTimeout[c] \in Nat /\ Told(c, node[t], Mail(t), toClient[c])
  BY HomeAssumption, ObtentionAssumption DEF BakeryInv, MatchInv, TypeOK
<1>2. client[c].service = 0 /\ client[c].state = "idle" /\ r \in Requests /\ Key(r) = c
  BY <1>1, ConnectedService DEF ClientLock, AskOnce
<1>3. /\ client' = [client EXCEPT ![c] = [state |-> "waiting", service |-> service,
                                          deadline |-> deadline, timeout_date |-> 0]]
      /\ inbox' = [inbox EXCEPT ![t] = Append(@, m)]
      /\ UNCHANGED <<node, link, toClient, now>>
  BY DEF ClientLock
<1>4. service = 1
  BY <1>2
<1>5. m \in Message /\ m.key = c /\ m.cmd = "LOCK"
  BY <1>1, <1>4 DEF Message, ClientRequest, AskOnce
<1>6. /\ client'[c].state = "waiting" /\ client'[c].service = 1 /\ client'[c].timeout_date = 0
      /\ \A d \in Clients : d # c => client'[d] = client[d]
  BY <1>1, <1>3, <1>4
<1> HIDE DEF t, m, deadline, service
<1>7. ~node[t].ticket[r].locked
  BY <1>1, <1>2 DEF MatchInv, RequestsMatch, NodesMatch, NodeMatches
<1>8. /\ \A x \in Mail(t) : x.key # c
      /\ ~node[t].ticket[r].added_ticket /\ node[t].ticket[r].our_ticket = 0
  BY <1>1, <1>2 DEF Told
<1>9. Alone(inbox'[t]) /\ Mail(t)' = Mail(t) \cup {m}
  BY <1>1, <1>3, <1>5, <1>8, PostsMail
<1>10. StageOf(node[t], m, now)
  BY <1>5, <1>7, <1>8 DEF StageOf, Entries
<1>11. Bakery(node[t], Mail(t)', now)
  BY <1>1, <1>5, <1>9, <1>10, PlainMessage, MoreMailBakery DEF BakeryInv
<1>12. Told(c, node[t], Mail(t), toClient[c])'
  BY <1>1, <1>2, <1>3, <1>5, <1>6, <1>7, <1>8, <1>9 DEF Told, Exits, t
<1>13. \A x \in Mail(t)' : x \in Mail(t) \/ x.key = c
  BY <1>5, <1>9
<1> QED
  BY <1>1, <1>3, <1>6, <1>9, <1>11, <1>12, <1>13, ClientStepBakery

\* The other steps of a client end its wait or its lock; only unlock() sends a message.
LEMMA ClientEndsBakery ==
    ASSUME OneDaemon, AskOnce, BakeryInv, MatchInv', NEW c \in Clients,
           ClientStep(c) \/ ClientStop(c) \/ ClientDies(c)
    PROVE  BakeryInv'
<1> DEFINE t == Home[c]
           r == <<c, 1>>
<1>1. /\ MatchInv /\ t \in Servers /\ inbox[t] \in Seq(Message) /\ node[t] \in Node
      /\ client \in [Clients -> ClientState] /\ toClient \in [Clients -> Seq(ToClient)]
      /\ toClient[c] \in Seq(ToClient) /\ now \in Nat
      /\ Told(c, node[t], Mail(t), toClient[c]) /\ r \in Requests
      /\ Alone(inbox[t]) /\ Bakery(node[t], Mail(t), now)
  BY HomeAssumption, ConnectedService DEF BakeryInv, MatchInv, TypeOK
<1>2. Connected(c) /\ client[c].service = 1
  BY <1>1, ConnectedService DEF Connected, ClientStep, ClientMessage, CanRead, ClientTimeout,
                                ClientUnlock, ClientStop, ClientDies
<1>3. \A x \in Mail(t) : x.key = c => x.cmd \notin Exits
  BY <1>1, <1>2 DEF Told
<1>4. ASSUME NEW new \in ClientState, client' = [client EXCEPT ![c] = new], new.service = 1,
             new.state # "waiting",
             new.state = "locked" => /\ node[t].ticket[r].locked
                                     /\ new.timeout_date = node[t].ticket[r].lock_timeout,
             new.state # "locked" => new.timeout_date = 0,
             NEW left \in Seq(ToClient), toClient' = [toClient EXCEPT ![c] = left],
             \A i \in DOMAIN left : \E j \in DOMAIN toClient[c] : left[i] = toClient[c][j],
             UNCHANGED <<node, link, now>>,
             Alone(inbox'[t]), Bakery(node[t], Mail(t)', now),
             \A x \in Mail(t)' : x \in Mail(t) \/ (x.key = c /\ new.state \in {"idle", "dead"})
      PROVE  BakeryInv'
  <2>1. client'[c] = new /\ toClient'[c] = left
    BY <1>1, <1>4
  <2>2. \A d \in Clients : d # c => client'[d] = client[d] /\ toClient'[d] = toClient[d]
    BY <1>1, <1>4
  <2>3. Connected(c)' => new.state = "locked"
    BY <1>4, <2>1 DEF Connected
  <2>4. \A m \in Mail(t)' : m.key = c /\ m.cmd \in Exits => ~Connected(c)'
    BY <1>3, <1>4, <2>3
  <2>5. \A i \in DOMAIN left :
            IF left[i].cmd = "LOCKED"
            THEN node[t].ticket[r].locked /\ left[i].timeout_date = node[t].ticket[r].lock_timeout
            ELSE left[i].timeout_date = 0
    <3>1. \A j \in DOMAIN toClient[c] :
            IF toClient[c][j].cmd = "LOCKED"
            THEN node[t].ticket[r].locked /\ toClient[c][j].timeout_date = node[t].ticket[r].lock_timeout
            ELSE toClient[c][j].timeout_date = 0
      BY <1>1 DEF Told
    <3> QED
      BY <1>4, <3>1
  <2>6. node[t].ticket[r].locked /\ ~TimedOut(node[t].ticket[r], now) => Held(node[t], r)
    BY <1>1, <1>2 DEF Told
  <2> HIDE DEF t
  <2>7. Told(c, node[t], Mail(t), toClient[c])'
    BY <1>4, <2>1, <2>4, <2>5, <2>6 DEF Told, t
  <2>8. \A x \in Mail(t)' : x \in Mail(t) \/ x.key = c
    BY <1>4
  <2> QED
    BY <1>1, <1>4, <2>2, <2>7, <2>8, ClientStepBakery
<1>5. <<>> \in Seq(ToClient) /\ DOMAIN <<>> = {}
  OBVIOUS
<1>6. client[c].state # "locked" => client[c].timeout_date = 0
  BY <1>1 DEF Told
<1>7. UNCHANGED inbox => /\ Alone(inbox'[t]) /\ Mail(t)' = Mail(t)
                         /\ Bakery(node[t], Mail(t)', now)
  BY <1>1 DEF Mail
<1>8. client[c] \in ClientState
  BY <1>1
<1>9. CASE ClientMessage(c)
  <2> DEFINE m     == Head(toClient[c])
             state == CASE m.cmd = "LOCKED"     -> "locked"
                        [] m.cmd = "LOCKFAILED" -> "idle"
                        [] m.cmd = "UNLOCKED"   -> "aborted"
             new   == [client[c] EXCEPT !.state = state, !.timeout_date = m.timeout_date]
             left  == IF m.cmd = "LOCKED" THEN Tail(toClient[c]) ELSE <<>>
  <2>1. /\ toClient[c] # <<>>
        /\ client' = [client EXCEPT ![c].state = state, ![c].timeout_date = m.timeout_date]
        /\ toClient' = [toClient EXCEPT ![c] = left]
        /\ UNCHANGED <<node, link, now>> /\ UNCHANGED inbox
    BY <1>1, <1>9 DEF ClientMessage, CanRead
  <2>2. m \in ToClient /\ 1 \in DOMAIN toClient[c] /\ m = toClient[c][1]
    BY <1>1, <2>1
  <2>3. left \in Seq(ToClient) /\ \A i \in DOMAIN left : \E j \in DOMAIN toClient[c] : left[i] = toClient[c][j]
    BY <1>1, <1>5, <2>1, TailHolds, TailType
  <2>4. IF m.cmd = "LOCKED"
        THEN node[t].ticket[r].locked /\ m.timeout_date = node[t].ticket[r].lock_timeout
        ELSE m.timeout_date = 0
    BY <1>1, <2>2 DEF Told
  <2>5. /\ m.cmd \in {"LOCKED", "LOCKFAILED", "UNLOCKED"} /\ m.timeout_date \in Nat
        /\ state \in {"locked", "idle", "aborted"}
        /\ state = "locked" <=> m.cmd = "LOCKED"
    BY <2>2 DEF ToClient
  <2> HIDE DEF m, state, left, t
  <2>6. client' = [client EXCEPT ![c] = new]
    <3>1. [client EXCEPT ![c].state = state, ![c].timeout_date = m.timeout_date]
          = [client EXCEPT ![c] = new]
      BY <1>1, <1>8 DEF ClientState
    <3> QED
      BY <2>1, <3>1
  <2>7. new \in ClientState /\ new.state = state /\ new.service = 1 /\ new.timeout_date = m.timeout_date
    BY <1>2, <1>8, <2>5 DEF ClientState
  <2> HIDE DEF new
  <2> QED
    BY <1>4, <1>7, <2>1, <2>6, <2>3, <2>4, <2>5, <2>7
<1>10. CASE ClientTimeout(c) \/ ClientStop(c)
  <2> DEFINE new == [client[c] EXCEPT !.state = "idle"]
  <2>1. /\ client[c].state = "waiting"
        /\ client' = [client EXCEPT ![c] = new]
        /\ toClient' = [toClient EXCEPT ![c] = <<>>]
        /\ UNCHANGED <<node, link, now>> /\ UNCHANGED inbox
    BY <1>1, <1>10 DEF ClientTimeout, ClientStop
  <2>2. new \in ClientState /\ new.state = "idle" /\ new.service = 1 /\ new.timeout_date = 0
    BY <1>2, <1>6, <1>8, <2>1 DEF ClientState
  <2> HIDE DEF new, t
  <2> QED
    BY <1>4, <1>5, <1>7, <2>1, <2>2
<1>11. CASE ClientDies(c)
  <2> DEFINE new == [client[c] EXCEPT !.state = "dead", !.timeout_date = 0]
  <2>1. /\ client' = [client EXCEPT ![c] = new]
        /\ toClient' = [toClient EXCEPT ![c] = <<>>]
        /\ UNCHANGED <<node, link, now>> /\ UNCHANGED inbox
    BY <1>1, <1>11 DEF ClientDies
  <2>2. new \in ClientState /\ new.state = "dead" /\ new.service = 1 /\ new.timeout_date = 0
    BY <1>2, <1>8 DEF ClientState
  <2> HIDE DEF new, t
  <2> QED
    BY <1>4, <1>5, <1>7, <2>1, <2>2
<1>12. CASE ClientUnlock(c)
  <2> DEFINE new == [client[c] EXCEPT !.state = "idle", !.timeout_date = 0]
             m   == [cmd |-> "UNLOCK", key |-> c]
  <2>1. /\ client[c].state = "locked"
        /\ client' = [client EXCEPT ![c] = new]
        /\ toClient' = [toClient EXCEPT ![c] = <<>>]
        /\ inbox' = [inbox EXCEPT ![t] = Append(@, m)]
        /\ UNCHANGED <<node, link, now>>
    BY <1>1, <1>12 DEF ClientUnlock
  <2>2. new \in ClientState /\ new.state = "idle" /\ new.service = 1 /\ new.timeout_date = 0
    BY <1>2, <1>8 DEF ClientState
  <2>3. m \in Message /\ m.key = c /\ m.cmd = "UNLOCK"
    BY DEF Message, ClientRequest
  <2>4. node[t].ticket[r].locked
    BY <1>1, <2>1 DEF Told
  <2>5. \A x \in Mail(t) : x.key # c
    BY <1>1, <1>3, <2>4 DEF Bakery, Stage, StageOf
  <2> HIDE DEF new, m, t
  <2>6. Alone(inbox'[t]) /\ Mail(t)' = Mail(t) \cup {m}
    BY <1>1, <2>1, <2>3, <2>5, PostsMail
  <2>7. StageOf(node[t], m, now)
    BY <2>3 DEF StageOf, Entries, Exits
  <2>8. Bakery(node[t], Mail(t)', now)
    <3>1. Mail(t) \in SUBSET Message
      BY <1>1 DEF Mail
    <3>2. Bakery(node[t], Mail(t) \cup {m}, now)
      BY <1>1, <2>3, <2>7, <3>1, PlainMessage, MoreMailBakery
    <3> QED
      BY <2>6, <3>2
  <2>9. \A x \in Mail(t)' : x \in Mail(t) \/ (x.key = c /\ new.state \in {"idle", "dead"})
    BY <2>2, <2>3, <2>6
  <2> QED
    BY <1>4, <1>5, <2>1, <2>2, <2>6, <2>8, <2>9
<1> QED
  BY <1>9, <1>10, <1>11, <1>12 DEF ClientStep

-----------------------------------------------------------------------------
(* The theorems.                                                           *)

LEMMA BakeryInit ==
    ASSUME AskOnce PROVE Init => BakeryInv
<1> SUFFICES ASSUME Init PROVE BakeryInv
  OBVIOUS
<1>1. MatchInv
  BY MatchInit
<1>2. ASSUME NEW t \in Servers
      PROVE  /\ node[t] = EmptyNode /\ inbox[t] = <<>> /\ Mail(t) = {}
             /\ \A s \in Servers : link[s][t] = <<>>
  BY DEF Init, Mail
<1>3. /\ EmptyNode.entering = {} /\ EmptyNode.tickets = {}
      /\ \A r \in Requests : EmptyNode.ticket[r] = NewTicket(0)
  BY DEF EmptyNode
<1>4. Bakery(EmptyNode, {}, now)
  <2>1. Memory(EmptyNode)
    BY <1>3 DEF Memory, NewTicket
  <2>2. Stage(EmptyNode, {}, now) /\ Order(EmptyNode, {}, now)
    BY <1>3 DEF Stage, Order, Passed, Held
  <2> QED
    BY <2>1, <2>2 DEF Bakery
<1>5. ASSUME NEW c \in Clients PROVE Told(c, EmptyNode, {}, toClient[c])
  <2>1. /\ client[c] = [state |-> "idle", service |-> 0, deadline |-> 0, timeout_date |-> 0]
        /\ toClient[c] = <<>>
    BY DEF Init
  <2>2. EmptyNode.ticket[<<c, 1>>] = NewTicket(0)
    BY <1>3, OneRequest
  <2>3. ~Connected(c)
    BY <2>1 DEF Connected
  <2> QED
    BY <2>1, <2>2, <2>3 DEF Told, NewTicket
<1>6. Alone(<<>>)
  BY DEF Alone
<1> QED
  BY <1>1, <1>2, <1>4, <1>5, <1>6 DEF BakeryInv

LEMMA BakeryNext ==
    ASSUME OneDaemon, AskOnce PROVE BakeryInv /\ [Next]_vars => BakeryInv'
<1> SUFFICES ASSUME BakeryInv, [Next]_vars PROVE BakeryInv'
  OBVIOUS
<1>1. MatchInv'
  BY MatchNext DEF BakeryInv
<1>2. CASE \E c \in Clients : ClientLock(c) \/ ClientStep(c) \/ ClientStop(c) \/ ClientDies(c)
  BY <1>1, <1>2, ClientLockBakery, ClientEndsBakery
<1>3. CASE \E t \in Servers : HandleMessage(t) \/ OtherObject(t)
  BY <1>1, <1>3, HandlersBakery, OtherObjectBakery
<1>4. CASE \E s, t \in Servers : Forward(s, t)
  BY <1>4 DEF Forward, BakeryInv
<1>5. CASE Tick
  <2>1. now' = now + 1 /\ UNCHANGED <<node, inbox, link, client, toClient>>
    BY <1>5 DEF Tick
  <2> SUFFICES ASSUME NEW t \in Servers
               PROVE  /\ \A s \in Servers : (link[s][t] = <<>>)'
                      /\ Alone(inbox[t])'
                      /\ Bakery(node[t], Mail(t), now)'
                      /\ \A c \in Clients : Told(c, node[t], Mail(t), toClient[c])'
    BY <1>1 DEF BakeryInv
  <2>2. /\ node[t] \in Node /\ now \in Nat /\ Mail(t) \in SUBSET Message /\ Mail(t)' = Mail(t)
        /\ MatchInv /\ Bakery(node[t], Mail(t), now)
    <3>1. MatchInv /\ Bakery(node[t], Mail(t), now)
      BY DEF BakeryInv
    <3>2. node[t] \in Node /\ now \in Nat /\ inbox[t] \in Seq(Message)
      BY <3>1 DEF MatchInv, TypeOK
    <3>3. Mail(t) \in SUBSET Message /\ Mail(t)' = Mail(t)
      BY <2>1, <3>2 DEF Mail
    <3> QED
      BY <3>1, <3>2, <3>3
  <2>3. Bakery(node[t], Mail(t), now + 1)
    BY <2>2, TickBakery
  <2>4. Bakery(node[t], Mail(t), now)'
    <3>1. (node[t])' = node[t] /\ (Mail(t))' = Mail(t) /\ now' = now + 1
      BY <2>1, <2>2
    <3> QED
      BY <2>3, <3>1 DEF Bakery, Memory, Stage, StageOf, Order, Passed, Numbered, Behind, Held
  <2>5. ASSUME NEW c \in Clients PROVE Told(c, node[t], Mail(t), toClient[c])'
    <3>1. Told(c, node[t], Mail(t), toClient[c]) /\ node[t].ticket[<<c, 1>>] \in Ticket
      BY <2>2, ConnectedService DEF BakeryInv, Node
    <3>2. TimedOut(node[t].ticket[<<c, 1>>], now) => TimedOut(node[t].ticket[<<c, 1>>], now + 1)
      BY <2>2, <3>1 DEF TimedOut, Ticket
    <3> QED
      BY <2>1, <2>2, <3>1, <3>2 DEF Told, Connected
  <2>6. (\A s \in Servers : (link[s][t] = <<>>)') /\ Alone(inbox[t])'
    BY <2>1 DEF BakeryInv, Alone
  <2> QED
    BY <2>4, <2>5, <2>6
<1>6. CASE UNCHANGED vars
  <2>1. UNCHANGED <<node, inbox, link, client, toClient, now>>
    BY <1>6 DEF vars
  <2> SUFFICES ASSUME NEW t \in Servers
               PROVE  /\ \A s \in Servers : (link[s][t] = <<>>)'
                      /\ Alone(inbox[t])'
                      /\ Bakery(node[t], Mail(t), now)'
                      /\ \A c \in Clients : Told(c, node[t], Mail(t), toClient[c])'
    BY <1>1 DEF BakeryInv
  <2>2. /\ \A s \in Servers : link[s][t] = <<>>
        /\ Alone(inbox[t])
        /\ Bakery(node[t], Mail(t), now)
        /\ \A c \in Clients : Told(c, node[t], Mail(t), toClient[c])
    BY DEF BakeryInv
  <2>3. Mail(t)' = Mail(t)
    BY <2>1 DEF Mail
  <2>4. Bakery(node[t], Mail(t), now)'
    BY <2>1, <2>2, <2>3 DEF Bakery, Memory, Stage, StageOf, Order, Passed, Numbered, Behind, Held
  <2>5. ASSUME NEW c \in Clients PROVE Told(c, node[t], Mail(t), toClient[c])'
    <3>1. Told(c, node[t], Mail(t), toClient[c])
      BY <2>2
    <3> QED
      BY <2>1, <2>3, <3>1 DEF Told, Connected
  <2> QED
    BY <2>1, <2>2, <2>4, <2>5 DEF Alone
<1> QED
  BY <1>2, <1>3, <1>4, <1>5, <1>6 DEF Next

\* A client whose is_locked() is true has a granted ticket that lasts, in f_tickets.
LEMMA LockedIsHeld ==
    ASSUME AskOnce, BakeryInv, NEW c \in Clients, IsLocked(c)
    PROVE  LET t == Home[c]
               r == <<c, 1>>
           IN  /\ t \in Servers /\ r \in Requests /\ Key(r) = c
               /\ client[c].service = 1 /\ client[c].state = "locked"
               /\ node[t].ticket[r].locked
               /\ ~TimedOut(node[t].ticket[r], now)
               /\ Held(node[t], r)
<1> DEFINE t == Home[c]
           r == <<c, 1>>
<1>1. t \in Servers /\ r \in Requests /\ Key(r) = c /\ now \in Nat /\ node[t].ticket[r] \in Ticket
  BY HomeAssumption, ConnectedService DEF BakeryInv, MatchInv, TypeOK, Node
<1>2. Told(c, node[t], Mail(t), toClient[c])
  BY <1>1 DEF BakeryInv
<1>3. client[c].state = "locked"
  BY <1>2 DEF IsLocked, Told
<1>4. /\ node[t].ticket[r].locked /\ client[c].timeout_date = node[t].ticket[r].lock_timeout
      /\ Connected(c) /\ client[c].service = 1
  BY <1>2, <1>3, ConnectedService DEF Told, Connected, BakeryInv
<1>5. ~TimedOut(node[t].ticket[r], now)
  BY <1>1, <1>4 DEF IsLocked, TimedOut, Ticket
<1>6. Held(node[t], r)
  BY <1>2, <1>4, <1>5 DEF Told
<1> QED
  BY <1>1, <1>3, <1>4, <1>5, <1>6

\* With one computer and clients that ask once, the ticket of a lock that is_locked()
\* reports is in f_tickets until the lock ends: cleanup() and the DROPTICKET of another
\* client leave it there, however late the messages come and whoever times out or dies.
THEOREM HeldLocksKeepTickets ==
    ASSUME OneDaemon, AskOnce PROVE Spec => []HeldLockKeepsTicket
<1>1. BakeryInv => HeldLockKeepsTicket
  <2> SUFFICES ASSUME BakeryInv, NEW c \in Clients, IsLocked(c)
               PROVE  HomeTicket(<<c, client[c].service>>).locked /\ TicketHeld(<<c, client[c].service>>)
    BY DEF HeldLockKeepsTicket
  <2> QED
    BY LockedIsHeld DEF HomeTicket, TicketHeld, Held, Key
<1> QED
  BY <1>1, BakeryInit, BakeryNext, PTL DEF Spec

LEMMA BakeryExcludes ==
    ASSUME OneDaemon, AskOnce PROVE BakeryInv => MutualExclusion
<1> SUFFICES ASSUME BakeryInv, NEW c \in Clients, NEW d \in Clients, IsLocked(c), IsLocked(d), c # d
             PROVE  FALSE
  BY DEF MutualExclusion
<1> DEFINE t  == Home[c]
           nd == node[t]
           q  == <<c, 1>>
           r  == <<d, 1>>
<1>1. /\ t \in Servers /\ q \in Requests /\ Key(q) = c
      /\ nd.ticket[q].locked /\ ~TimedOut(nd.ticket[q], now) /\ Held(nd, q)
  BY LockedIsHeld
<1>2. Home[d] = t
  BY HomeAssumption DEF OneDaemon
<1>3. /\ r \in Requests /\ Key(r) = d
      /\ nd.ticket[r].locked /\ ~TimedOut(nd.ticket[r], now) /\ Held(nd, r)
  BY <1>2, LockedIsHeld
<1>4. Bakery(nd, Mail(t), now) /\ nd \in Node
  BY <1>1 DEF BakeryInv, MatchInv, TypeOK
<1>5. q # r
  OBVIOUS
<1> HIDE DEF t, nd, q, r
<1>6. Passed(nd, q, r, now) /\ Passed(nd, r, q, now)
  BY <1>1, <1>3, <1>4, <1>5 DEF Passed, Bakery, Memory
<1>7. Behind(nd, q, r) /\ Behind(nd, r, q)
  BY <1>1, <1>3, <1>4, <1>6 DEF Bakery, Order
<1>8. /\ nd.ticket[q].our_ticket \in Nat /\ nd.ticket[r].our_ticket \in Nat
      /\ c \in Nat /\ d \in Nat
  BY <1>1, <1>3, <1>4, ClientsAssumption DEF Node, Ticket
<1> QED
  BY <1>1, <1>3, <1>7, <1>8 DEF Behind, Before

\* With one computer and clients that ask once, two clients never hold the lock at the
\* same time, whatever the timeouts, the deaths of clients and the delays of messages.
THEOREM LockExcludes ==
    ASSUME OneDaemon, AskOnce PROVE Spec => []MutualExclusion
<1>1. BakeryInv => MutualExclusion
  BY BakeryExcludes
<1> QED
  BY <1>1, BakeryInit, BakeryNext, PTL DEF Spec

-----------------------------------------------------------------------------
(* The refinement of LockSpec.                                             *)

\* A step of one client is a step of the lock, if what that client knows changes as
\* LockSpec allows and no two clients hold the lock after it.
LEMMA OneClientImplements ==
    ASSUME NEW c \in Clients,
           \A d \in Clients : d # c => LockState'[d] = LockState[d],
           LockState[c] = "idle" => LockState'[c] # "holding",
           LockState[c] = "holding" => LockState'[c] # "waiting",
           \A d, e \in Clients : LockState'[d] = "holding" /\ LockState'[e] = "holding" => d = e
    PROVE  [Abstract!LockNext]_LockState
<1>1. /\ LockState = [d \in Clients |-> LockState[d]]
      /\ LockState' = [d \in Clients |-> LockState'[d]]
      /\ LockState[c] \in {"idle", "waiting", "holding"}
      /\ LockState'[c] \in {"idle", "waiting", "holding"}
  BY DEF LockState
<1> DEFINE S == LockState
           T == LockState'
<1>2. T = [S EXCEPT ![c] = T[c]]
  BY <1>1
<1>3. CASE S[c] = T[c]
  BY <1>1, <1>3
<1>4. CASE S[c] = "idle" /\ T[c] = "waiting"
  BY <1>2, <1>4 DEF Abstract!LockNext, Abstract!Ask
<1>5. CASE S[c] = "waiting" /\ T[c] = "idle"
  BY <1>2, <1>5 DEF Abstract!LockNext, Abstract!GiveUp
<1>6. CASE S[c] = "holding" /\ T[c] = "idle"
  BY <1>2, <1>6 DEF Abstract!LockNext, Abstract!Release
<1>7. CASE S[c] = "waiting" /\ T[c] = "holding"
  <2>1. \A d \in Clients : S[d] # "holding"
    BY <1>7
  <2> QED
    BY <1>2, <1>7, <2>1 DEF Abstract!LockNext, Abstract!Obtain
<1> QED
  BY <1>1, <1>3, <1>4, <1>5, <1>6, <1>7

\* What client c knows.
LEMMA LockStateIs ==
    ASSUME NEW c \in Clients
    PROVE  /\ LockState[c] = IF client[c].state = "waiting" THEN "waiting"
                             ELSE IF IsLocked(c) THEN "holding" ELSE "idle"
           /\ LockState'[c] = IF client'[c].state = "waiting" THEN "waiting"
                              ELSE IF IsLocked(c)' THEN "holding" ELSE "idle"
BY DEF LockState, IsLocked

\* Every step is one of the lock, or changes nothing that the clients can tell.
LEMMA StepImplements ==
    ASSUME BakeryInv, MutualExclusion, MutualExclusion', [Next]_vars
    PROVE  [Abstract!LockNext]_LockState
<1>1. client \in [Clients -> ClientState] /\ now \in Nat
  BY DEF BakeryInv, MatchInv, TypeOK
<1>2. \A c \in Clients : client[c].state # "locked" => client[c].timeout_date = 0
  BY HomeAssumption DEF BakeryInv, Told
<1>3. \A d, e \in Clients : LockState'[d] = "holding" /\ LockState'[e] = "holding" => d = e
  <2>1. \A d \in Clients : LockState'[d] = "holding" => IsLocked(d)'
    BY LockStateIs
  <2> QED
    BY <2>1 DEF MutualExclusion
<1>4. ASSUME NEW c \in Clients, now' = now,
             \A d \in Clients : d # c => client'[d] = client[d],
             client[c].state # "waiting" => client'[c].timeout_date \in {0, client[c].timeout_date},
             client[c].state # "idle" => client'[c].state # "waiting"
      PROVE  [Abstract!LockNext]_LockState
  <2>1. \A d \in Clients : d # c => LockState'[d] = LockState[d]
    BY <1>4, LockStateIs DEF IsLocked
  <2>2. LockState[c] = "idle" => LockState'[c] # "holding"
    BY <1>1, <1>4, LockStateIs DEF IsLocked
  <2>3. LockState[c] = "holding" => LockState'[c] # "waiting"
    BY <1>2, <1>4, LockStateIs DEF IsLocked
  <2> QED
    BY <1>3, <2>1, <2>2, <2>3, OneClientImplements
<1>5. ASSUME UNCHANGED <<client, now>> PROVE [Abstract!LockNext]_LockState
  BY <1>5 DEF LockState, IsLocked
<1>6. ASSUME NEW c \in Clients, ClientLock(c) PROVE [Abstract!LockNext]_LockState
  <2>1. client'[c].state = "waiting" /\ client'[c].timeout_date = 0 /\ client[c].state = "idle"
    BY <1>1, <1>6 DEF ClientLock
  <2>2. now' = now /\ \A d \in Clients : d # c => client'[d] = client[d]
    BY <1>1, <1>6 DEF ClientLock
  <2> QED
    BY <1>4, <2>1, <2>2
<1>7. ASSUME NEW c \in Clients, ClientMessage(c) PROVE [Abstract!LockNext]_LockState
  <2>1. toClient[c] \in Seq(ToClient)
    BY DEF BakeryInv, MatchInv, TypeOK
  <2>2. Head(toClient[c]).cmd \in {"LOCKED", "LOCKFAILED", "UNLOCKED"} /\ client[c].state = "waiting"
    <3>1. toClient[c] # <<>> /\ client[c].state = "waiting"
      BY <1>7 DEF ClientMessage, CanRead
    <3>2. Head(toClient[c]) \in ToClient
      BY <2>1, <3>1
    <3> QED
      BY <3>1, <3>2 DEF ToClient
  <2>3. client'[c].state \in {"locked", "idle", "aborted"}
    BY <1>1, <1>7, <2>2 DEF ClientMessage, ClientState
  <2>4. now' = now /\ \A d \in Clients : d # c => client'[d] = client[d]
    BY <1>1, <1>7 DEF ClientMessage
  <2> QED
    BY <1>4, <2>2, <2>3, <2>4
<1>8. ASSUME NEW c \in Clients, ClientTimeout(c) \/ ClientStop(c) \/ ClientUnlock(c) \/ ClientDies(c)
      PROVE  [Abstract!LockNext]_LockState
  <2>1. /\ client'[c].state \in {"idle", "dead"}
        /\ client'[c].timeout_date \in {0, client[c].timeout_date}
    BY <1>1, <1>8 DEF ClientTimeout, ClientStop, ClientUnlock, ClientDies, ClientState
  <2>2. now' = now /\ \A d \in Clients : d # c => client'[d] = client[d]
    BY <1>1, <1>8 DEF ClientTimeout, ClientStop, ClientUnlock, ClientDies
  <2> QED
    BY <1>4, <2>1, <2>2
<1>9. ASSUME NEW t \in Servers, HandleMessage(t) PROVE UNCHANGED <<client, now>>
  <2>1. CASE HandleLock(t) \/ HandleUnlock(t) \/ LockEntering(t) \/ LockEntered(t)
    BY <2>1 DEF HandleLock, HandleUnlock, LockEntering, LockEntered
  <2>2. CASE GetMaxTicket(t) \/ MaxTicket(t) \/ AddTicket(t) \/ AddTicketThrows(t)
    BY <2>2 DEF GetMaxTicket, MaxTicket, AddTicket, AddTicketThrows
  <2>3. CASE TicketAdded(t) \/ LockExiting(t) \/ DropTicket(t)
    BY <2>3 DEF TicketAdded, LockExiting, DropTicket
  <2> QED
    BY <1>9, <2>1, <2>2, <2>3 DEF HandleMessage
<1>10. ASSUME NEW t \in Servers, OtherObject(t) \/ \E s \in Servers : Forward(s, t)
       PROVE  UNCHANGED <<client, now>>
  BY <1>10 DEF OtherObject, Forward
<1>11. CASE Tick
  <2>1. client' = client /\ now' = now + 1
    BY <1>11 DEF Tick
  <2>2. \A d \in Clients : client[d].timeout_date \in Nat
    BY <1>1 DEF ClientState
  <2>3. \A d \in Clients : IsLocked(d)' => IsLocked(d)
    BY <1>1, <2>1, <2>2 DEF IsLocked
  <2>4. \A d \in Clients : LockState'[d] = LockState[d] \/ (IsLocked(d) /\ LockState'[d] = "idle")
    BY <2>1, <2>3, LockStateIs
  <2>5. CASE \E c \in Clients : IsLocked(c)
    <3>1. PICK c \in Clients : IsLocked(c)
      BY <2>5
    <3>2. \A d \in Clients : d # c => LockState'[d] = LockState[d]
      BY <2>4, <3>1 DEF MutualExclusion
    <3>3. LockState[c] = "holding"
      BY <1>2, <3>1, LockStateIs DEF IsLocked
    <3>4. LockState'[c] # "waiting"
      BY <2>4, <3>3
    <3> QED
      BY <1>3, <3>2, <3>3, <3>4, OneClientImplements
  <2>6. CASE ~\E c \in Clients : IsLocked(c)
    <3>1. LockState' = LockState
      BY <2>1, <2>3, <2>6 DEF LockState
    <3> QED
      BY <3>1
  <2> QED
    BY <2>5, <2>6
<1>12. CASE UNCHANGED vars
  BY <1>5, <1>12 DEF vars
<1> QED
  BY <1>5, <1>6, <1>7, <1>8, <1>9, <1>10, <1>11, <1>12 DEF Next, ClientStep

\* With one computer and clients that ask once, the daemon and its clients implement the
\* lock of LockSpec: a client obtains the lock when nobody holds it, and nothing else
\* makes a client its holder.
THEOREM DaemonImplementsLock ==
    ASSUME OneDaemon, AskOnce PROVE Spec => ImplementsLock
<1>1. Init => Abstract!LockInit
  BY DEF Init, Abstract!LockInit, LockState, IsLocked
<1>2. BakeryInv => MutualExclusion
  BY BakeryExcludes
<1>3. BakeryInv /\ MutualExclusion /\ MutualExclusion' /\ [Next]_vars => [Abstract!LockNext]_LockState
  BY StepImplements
<1> QED
  BY <1>1, <1>2, <1>3, BakeryInit, BakeryNext, PTL DEF Spec, ImplementsLock, Abstract!Spec

-----------------------------------------------------------------------------
(* Before the first timeout.                                               *)

\* No clock reaches the date at which a request or a lock of the run could time out.
NeverLate == \A c \in Clients : MaxTime < ObtentionTimeout[c] /\ MaxTime <= Duration[c]

\* Where request r is while nothing times out; S is the mail of its client.  It is
\* entering as long as a message that takes it on is on its way, it has its ticket from
\* ADDTICKET to the DROPTICKET with its number, and without a stop the client is there
\* until it sends UNLOCK.
Timely(r, nd, S) ==
    LET tk == nd.ticket[r]
    IN  /\ tk.added_ticket \/ r \in nd.entering \/ (\E m \in S : m.cmd \in Entries)
           => ~TimedOut(tk, MaxTime)
        /\ tk.added_ticket => tk.our_ticket # 0
        /\ r \in nd.entering => \E m \in S : m.cmd \in Entries
        /\ \A m \in S : m.cmd \in {"LOCKENTERING", "LOCKENTERED"} => ~tk.get_max_ticket
        /\ \A m \in S : m.cmd \in {"TICKETADDED", "LOCKEXITING"} => Held(nd, r)
        /\ Connected(Key(r)) /\ tk.added_ticket
           => Held(nd, r) \/ \E m \in S : m.cmd = "ADDTICKET"
        /\ MayStop = {} /\ Held(nd, r)
           => \/ Connected(Key(r))
              \/ \E m \in S : \/ m.cmd = "UNLOCK"
                              \/ m.cmd = "DROPTICKET" /\ m.id = tk.our_ticket
        /\ MayStop = {} /\ (\E m \in S : m.cmd \notin Exits) => Connected(Key(r))

\* The mail of request r.
Mine(t, r) == {m \in Mail(t) : m.key = Key(r)}

TimelyInv ==
    /\ BakeryInv
    /\ now <= MaxTime
    /\ \A c \in Clients : client[c].service # 0 => client[c].deadline > MaxTime
    /\ \A t \in Servers : alive[t] /\ \A r \in Requests : Timely(r, node[t], Mine(t, r))

\* What a step may not change in the node for the other requests.
Keeps(nd, new, r) ==
    /\ Held(new, r) <=> Held(nd, r)
    /\ r \in new.entering => r \in nd.entering
    /\ new.ticket[r].added_ticket = nd.ticket[r].added_ticket
    /\ new.ticket[r].our_ticket = nd.ticket[r].our_ticket
    /\ new.ticket[r].get_max_ticket = nd.ticket[r].get_max_ticket
    /\ ~TimedOut(nd.ticket[r], MaxTime) => ~TimedOut(new.ticket[r], MaxTime)

LEMMA KeepsTimely ==
    ASSUME NEW r, NEW nd, NEW new, NEW S, Timely(r, nd, S), Keeps(nd, new, r)
    PROVE  Timely(r, new, S)
BY DEF Timely, Keeps

\* cleanup() finds nothing to do while nothing timed out.
LEMMA CleanupQuiet ==
    ASSUME NEW nd \in Node, NEW s, NEW n,
           \A u \in nd.tickets : ~TimedOut(nd.ticket[u[2]], n),
           \A r \in nd.entering : ~TimedOut(nd.ticket[r], n)
    PROVE  Cleanup(nd, s, n) = nd
<1>1. {t \in nd.tickets : TimedOut(nd.ticket[t[2]], n)} = {}
  OBVIOUS
<1>2. Cleanup(nd, s, n) = [nd EXCEPT !.entering = {r \in @ : ~TimedOut(nd.ticket[r], n)}]
  BY <1>1 DEF Cleanup
<1>3. {r \in nd.entering : ~TimedOut(nd.ticket[r], n)} = nd.entering
  OBVIOUS
<1> QED
  BY <1>2, <1>3 DEF Node

\* activate_first_lock() then only grants, and what it grants lasts.
LEMMA ActivateKeeps ==
    ASSUME NeverLate, NEW nd \in Node, NEW s, NEW n \in Nat,
           \A u \in nd.tickets : ~TimedOut(nd.ticket[u[2]], n)
    PROVE  LET new == ActivateFirstLock(nd, s, n)
           IN  /\ new.tickets = nd.tickets /\ new.entering = nd.entering
               /\ \A r \in Requests : Keeps(nd, new, r)
<1> DEFINE live    == {t \in nd.tickets : ~TimedOut(nd.ticket[t[2]], n)}
           first   == {t \in live : \A u \in live : u = t \/ Before(t, u)}
           expired == {t \in nd.tickets \ live : \A u \in live : Before(t, u)}
           new     == ActivateFirstLock(nd, s, n)
<1>1. expired = {}
  OBVIOUS
<1>2. FailTickets(nd, s, {}).tickets = nd.tickets /\ FailTickets(nd, s, {}).entering = nd.entering
  BY DEF FailTickets, Node
<1>3. \A r \in Requests : FailTickets(nd, s, {}).ticket[r] = nd.ticket[r]
  BY DEF FailTickets, Node
<1> DEFINE left == FailTickets(nd, s, expired)
<1>4. new = [left EXCEPT !.ticket = [r \in Requests |->
            IF Grantable(left, s, r) /\ \E t \in first : t[2] = r
            THEN ActivateLock(left, r, n)
            ELSE left.ticket[r]]]
  BY DEF ActivateFirstLock
<1>5. left \in Node
  BY FailTicketsType
<1>6. left.tickets = nd.tickets /\ left.entering = nd.entering /\ \A r \in Requests : left.ticket[r] = nd.ticket[r]
  BY <1>1, <1>2, <1>3
<1> HIDE DEF live, first, expired, left, new
<1>7. /\ new.tickets = nd.tickets /\ new.entering = nd.entering
      /\ \A r \in Requests : new.ticket[r] \in {nd.ticket[r], ActivateLock(left, r, n)}
  BY <1>4, <1>5, <1>6 DEF Node
<1>8. ASSUME NEW r \in Requests PROVE Keeps(nd, new, r)
  <2>1. Held(new, r) <=> Held(nd, r)
    BY <1>7 DEF Held
  <2>2. CASE new.ticket[r] = nd.ticket[r]
    BY <1>7, <2>1, <2>2 DEF Keeps
  <2>3. CASE new.ticket[r] = ActivateLock(left, r, n)
    <3>1. left.ticket[r] \in Ticket /\ Duration[Key(r)] \in Nat /\ MaxTime <= Duration[Key(r)]
      BY <1>5, RequestsType, DurationAssumption DEF Node, NeverLate
    <3>2. LET is == ActivateLock(left, r, n)
          IN  /\ is.added_ticket = left.ticket[r].added_ticket
              /\ is.our_ticket = left.ticket[r].our_ticket
              /\ is.get_max_ticket = left.ticket[r].get_max_ticket
              /\ is.locked /\ is.lock_timeout = Duration[Key(r)] + n
      BY <3>1 DEF ActivateLock, Ticket
    <3>3. ~(Duration[Key(r)] + n < MaxTime)
      BY <3>1, MaxTimeAssumption
    <3>4. ~TimedOut(new.ticket[r], MaxTime)
      BY <2>3, <3>2, <3>3 DEF TimedOut
    <3> QED
      BY <1>6, <1>7, <2>1, <2>3, <3>2, <3>4 DEF Keeps
  <2> QED
    BY <1>7, <2>2, <2>3
<1> QED
  BY <1>7, <1>8 DEF new

\* Nothing that a daemon has in its maps timed out.
LEMMA NotTimedOut ==
    ASSUME TimelyInv, NEW t \in Servers
    PROVE  LET nd == node[t]
           IN  /\ \A q \in Requests : nd.ticket[q] \in Ticket
               /\ \A q \in Requests : TimedOut(nd.ticket[q], now) => TimedOut(nd.ticket[q], MaxTime)
               /\ \A u \in nd.tickets : u[2] \in Requests /\ ~TimedOut(nd.ticket[u[2]], now)
               /\ \A q \in nd.entering : q \in Requests /\ ~TimedOut(nd.ticket[q], now)
<1> DEFINE nd == node[t]
<1>1. nd \in Node /\ now \in Nat /\ now <= MaxTime /\ Memory(nd)
  BY DEF TimelyInv, BakeryInv, MatchInv, Bakery, TypeOK
<1>2. \A q \in Requests : Timely(q, nd, Mine(t, q))
  BY DEF TimelyInv
<1>3. ASSUME NEW q \in Requests
      PROVE  /\ nd.ticket[q] \in Ticket
             /\ TimedOut(nd.ticket[q], now) => TimedOut(nd.ticket[q], MaxTime)
  <2>1. nd.ticket[q] \in Ticket
    BY <1>1 DEF Node
  <2> DEFINE end == IF nd.ticket[q].locked THEN nd.ticket[q].lock_timeout
                                           ELSE nd.ticket[q].obtention_timeout
  <2>2. end \in Nat
    BY <2>1 DEF Ticket
  <2>3. \A n : TimedOut(nd.ticket[q], n) <=> end < n
    BY DEF TimedOut
  <2> HIDE DEF end, nd
  <2>4. end < now => end < MaxTime
    BY <1>1, <2>2, MaxTimeAssumption
  <2> QED
    BY <2>1, <2>3, <2>4
<1>4. \A u \in nd.tickets : u[2] \in Requests /\ ~TimedOut(nd.ticket[u[2]], now)
  <2> SUFFICES ASSUME NEW u \in nd.tickets PROVE u[2] \in Requests /\ ~TimedOut(nd.ticket[u[2]], now)
    OBVIOUS
  <2>1. u[2] \in Requests
    BY <1>1 DEF Node
  <2>2. nd.ticket[u[2]].added_ticket
    BY <1>1, <2>1 DEF Memory
  <2> QED
    BY <1>2, <1>3, <2>1, <2>2 DEF Timely
<1>5. \A q \in nd.entering : q \in Requests /\ ~TimedOut(nd.ticket[q], now)
  <2> SUFFICES ASSUME NEW q \in nd.entering PROVE q \in Requests /\ ~TimedOut(nd.ticket[q], now)
    OBVIOUS
  <2>1. q \in Requests
    BY <1>1 DEF Node
  <2> QED
    BY <1>2, <1>3, <2>1 DEF Timely
<1> QED
  BY <1>3, <1>4, <1>5

\* What is known when a message is read.
LEMMA HeadTimely ==
    ASSUME OneDaemon, AskOnce, TimelyInv, NEW t \in Servers, inbox[t] # <<>>
    PROVE  LET m  == Head(inbox[t])
               nd == node[t]
               r  == <<m.key, 1>>
           IN  /\ m \in Message /\ r \in Requests /\ Key(r) = m.key
               /\ Timely(r, nd, {m}) /\ StageOf(nd, m, now) /\ Memory(nd)
               /\ nd \in Node /\ now \in Nat /\ now <= MaxTime /\ quorum(t) = 1
               /\ \A q \in Requests : nd.ticket[q] \in Ticket
               /\ \A q \in Requests : TimedOut(nd.ticket[q], now) => TimedOut(nd.ticket[q], MaxTime)
               /\ \A u \in nd.tickets : u[2] \in Requests /\ ~TimedOut(nd.ticket[u[2]], now)
               /\ \A q \in nd.entering : q \in Requests /\ ~TimedOut(nd.ticket[q], now)
               /\ m.cmd \in {"LOCK", "LOCKENTERING"} => m.service = 1 /\ m.timeout \in Nat /\ m.timeout > MaxTime
<1> DEFINE m  == Head(inbox[t])
           nd == node[t]
           r  == <<m.key, 1>>
<1>1. BakeryInv /\ MatchInv /\ TypeOK
  BY DEF TimelyInv, BakeryInv, MatchInv
<1>2. /\ m \in Message /\ StageOf(nd, m, now) /\ Mail(t) = Rest(t) \cup {m}
      /\ \A x \in Rest(t) : x.key # m.key
  BY <1>1, ReadsMail
<1>3. nd \in Node /\ now \in Nat /\ now <= MaxTime /\ quorum(t) = 1 /\ Memory(nd)
  BY <1>1, QuorumOfOne DEF TimelyInv, BakeryInv, Bakery, TypeOK
<1>4. r \in Requests /\ Key(r) = m.key /\ m.key \in Clients
  BY <1>2, MessageKey, OneRequest DEF Key
<1>5. Mine(t, r) = {m}
  BY <1>2, <1>4 DEF Mine
<1>6. \A q \in Requests : Timely(q, nd, Mine(t, q))
  BY DEF TimelyInv
<1>7. Timely(r, nd, {m})
  BY <1>4, <1>5, <1>6
<1>8. /\ \A q \in Requests : nd.ticket[q] \in Ticket
      /\ \A q \in Requests : TimedOut(nd.ticket[q], now) => TimedOut(nd.ticket[q], MaxTime)
      /\ \A u \in nd.tickets : u[2] \in Requests /\ ~TimedOut(nd.ticket[u[2]], now)
      /\ \A q \in nd.entering : q \in Requests /\ ~TimedOut(nd.ticket[q], now)
  BY NotTimedOut
<1>9. ASSUME m.cmd \in {"LOCK", "LOCKENTERING"}
       PROVE  m.service = 1 /\ m.timeout \in Nat /\ m.timeout > MaxTime
  <2>1. m.service \in 1 .. 1 /\ m.timeout \in Nat
    BY <1>2, <1>9 DEF Message, ClientRequest, DaemonMessage, EnteringMessage, KeyMessage,
                       TicketMessage, AskOnce
  <2>2. 1 \in DOMAIN inbox[t] /\ m = inbox[t][1]
    BY <1>1 DEF TypeOK
  <2>3. MessageMatches(m)
    BY <1>1, <2>2 DEF MatchInv, RequestsMatch, MessagesMatch
  <2>4. client[m.key].service \in {0, 1}
    BY <1>1, <1>4, ConnectedService
  <2>5. client[m.key].service = 1 /\ m.timeout = client[m.key].deadline
    BY <1>9, <2>1, <2>3, <2>4 DEF MessageMatches, MadeByClient, Key
  <2> QED
    BY <1>4, <2>1, <2>5 DEF TimelyInv
<1> QED
  BY <1>2, <1>3, <1>4, <1>7, <1>8, <1>9

LEMMA KeepsTwice ==
    ASSUME NEW a, NEW b, NEW c, NEW r, Keeps(a, b, r), Keeps(b, c, r)
    PROVE  Keeps(a, c, r)
BY DEF Keeps

\* A request that goes on to its next message.
LEMMA EntryTimely ==
    ASSUME NEW r, NEW new, NEW e, MayStop = {} => Connected(Key(r)), e.cmd \in Entries,
           ~TimedOut(new.ticket[r], MaxTime),
           new.ticket[r].added_ticket
           => new.ticket[r].our_ticket # 0 /\ (Held(new, r) \/ e.cmd = "ADDTICKET"),
           e.cmd \in {"LOCKENTERING", "LOCKENTERED"} => ~new.ticket[r].get_max_ticket,
           e.cmd \in {"TICKETADDED", "LOCKEXITING"} => Held(new, r)
    PROVE  Timely(r, new, {e})
BY DEF Timely

\* lock() and lockentering(): the request enters.
LEMMA AllocateTimely ==
    ASSUME AskOnce, NEW nd \in Node, Memory(nd), NEW r \in Requests, NEW timeout \in Nat, timeout > MaxTime,
           ~nd.ticket[r].added_ticket, MayStop = {} => Connected(Key(r)),
           NEW e, e.cmd \in {"LOCKENTERING", "LOCKENTERED"}
    PROVE  LET new == Allocate(nd, r, timeout)
           IN  /\ Timely(r, new, {e})
               /\ \A q \in Requests : q # r => Keeps(nd, new, q)
               /\ new \in Node /\ new.tickets = nd.tickets /\ r \in new.entering
               /\ new.entering \subseteq nd.entering \cup {r}
               /\ new.ticket[r] = NewTicket(timeout)
               /\ \A q \in Requests : q # r => new.ticket[q] = nd.ticket[q]
<1> DEFINE new == Allocate(nd, r, timeout)
<1>1. new \in Node
  BY AllocateType
<1>2. /\ new.tickets = nd.tickets /\ r \in new.entering
      /\ new.entering \subseteq nd.entering \cup {r}
      /\ new.ticket[r] = NewTicket(timeout)
      /\ \A q \in Requests : q # r => new.ticket[q] = nd.ticket[q]
  BY DEF Allocate, Node
<1> HIDE DEF new
<1>3. ~TimedOut(new.ticket[r], MaxTime)
  BY <1>2, MaxTimeAssumption DEF TimedOut, NewTicket
<1>4. ~new.ticket[r].added_ticket /\ ~new.ticket[r].get_max_ticket
  BY <1>2 DEF NewTicket
<1>5. Timely(r, new, {e})
  BY <1>3, <1>4, EntryTimely DEF Entries
<1>6. \A q \in Requests : q # r => Keeps(nd, new, q)
  BY <1>2 DEF Keeps, Held
<1> QED
  BY <1>1, <1>2, <1>5, <1>6 DEF new

\* A step of the daemon that leaves S as the mail of the client it is about.
LEMMA DaemonStepTimely ==
    ASSUME OneDaemon, AskOnce, TimelyInv, BakeryInv', NEW t \in Servers, inbox[t] # <<>>,
           NEW S, \A x \in S : x.key = Head(inbox[t]).key, Mail(t)' = Rest(t) \cup S,
           NEW fin, node' = [node EXCEPT ![t] = fin],
           Timely(<<Head(inbox[t]).key, 1>>, fin, S),
           \A q \in Requests : q # <<Head(inbox[t]).key, 1>> => Keeps(node[t], fin, q),
           UNCHANGED <<client, now, alive>>
    PROVE  TimelyInv'
<1>1. <<Head(inbox[t]).key, 1>> \in Requests
  BY HeadTimely
<1>2. PICK r \in Requests : r = <<Head(inbox[t]).key, 1>>
  BY <1>1
<1>3. /\ Mail(t) = Rest(t) \cup {Head(inbox[t])} /\ \A x \in Rest(t) : x.key # Key(r)
      /\ Key(r) = Head(inbox[t]).key
  BY <1>2, ReadsMail DEF TimelyInv, Key
<1>4. node'[t] = fin
  BY DEF TimelyInv, BakeryInv, MatchInv, TypeOK
<1>5. Mine(t, r)' = S
  BY <1>3 DEF Mine
<1>6. ASSUME NEW q \in Requests, q # r PROVE Mine(t, q)' = Mine(t, q)
  <2>1. Key(q) # Key(r)
    BY <1>6, OneRequest
  <2> QED
    BY <1>3, <2>1 DEF Mine
<1>7. ASSUME NEW q \in Requests PROVE Timely(q, fin, Mine(t, q)')
  <2>1. CASE q = r
    BY <1>2, <1>5, <2>1
  <2>2. CASE q # r
    <3>1. Timely(q, node[t], Mine(t, q)) /\ Keeps(node[t], fin, q)
      BY <1>2, <2>2 DEF TimelyInv
    <3> QED
      BY <1>6, <2>2, <3>1, KeepsTimely
  <2> QED
    BY <2>1, <2>2
<1>8. ASSUME NEW q \in Requests PROVE Timely(q, node[t], Mine(t, q))'
  <2>1. Timely(q, fin, Mine(t, q)')
    BY <1>7
  <2> QED
    BY <1>4, <2>1 DEF Timely, Connected, Held
<1>9. \A u \in Servers : u = t
  BY DEF OneDaemon
<1>10. /\ (now <= MaxTime)' /\ alive'[t]
      /\ \A c \in Clients : client'[c].service # 0 => client'[c].deadline > MaxTime
  BY DEF TimelyInv
<1> QED
  BY <1>8, <1>9, <1>10 DEF TimelyInv

\* A lock is granted to a ticket that is in f_tickets, in a step that gives no number.
Orderly(nd, new) ==
    \A r \in Requests :
        new.ticket[r].locked /\ ~nd.ticket[r].locked
        => /\ Held(new, r)
           /\ \A q \in Requests : /\ new.ticket[q].added_ticket = nd.ticket[q].added_ticket
                                  /\ new.ticket[q].our_ticket = nd.ticket[q].our_ticket

LEMMA HandlersTimely ==
    ASSUME OneDaemon, AskOnce, NeverLate, TimelyInv, BakeryInv', NEW t \in Servers, HandleMessage(t)
    PROVE  TimelyInv' /\ Orderly(node[t], node'[t])
<1> DEFINE m  == Head(inbox[t])
           r  == <<m.key, 1>>
           nd == node[t]
<1>1. inbox[t] # <<>>
  BY HandlersRead
<1>2. /\ m \in Message /\ r \in Requests /\ Key(r) = m.key
      /\ Timely(r, nd, {m}) /\ StageOf(nd, m, now) /\ Memory(nd)
      /\ nd \in Node /\ now \in Nat /\ now <= MaxTime /\ quorum(t) = 1
      /\ nd.ticket[r] \in Ticket
      /\ TimedOut(nd.ticket[r], now) => TimedOut(nd.ticket[r], MaxTime)
  BY <1>1, HeadTimely
<1>3. /\ \A u \in nd.tickets : u[2] \in Requests /\ ~TimedOut(nd.ticket[u[2]], now)
      /\ \A q \in nd.entering : q \in Requests /\ ~TimedOut(nd.ticket[q], now)
  BY <1>1, HeadTimely
<1>4. m.cmd \in {"LOCK", "LOCKENTERING"} => m.service = 1 /\ m.timeout \in Nat /\ m.timeout > MaxTime
  BY <1>1, HeadTimely
<1>5. /\ TypeOK /\ node \in [Servers -> Node] /\ node = [node EXCEPT ![t] = nd]
      /\ m.key \in Clients /\ BakeryInv
  BY <1>2, MessageKey DEF TimelyInv, BakeryInv, MatchInv, TypeOK
<1>6. Entering(nd, m.key) \subseteq {r} /\ (r \in nd.entering => Entering(nd, m.key) = {r})
  BY <1>2, OneRequest DEF Entering, Node
<1>7. \A u \in nd.tickets : Key(u[2]) = m.key <=> u[2] = r
  BY <1>2, <1>3, OneRequest
<1>8. m.cmd \in Entries \ {"LOCKENTERING"} => r \in nd.entering /\ Entering(nd, m.key) = {r}
  BY <1>2, <1>6 DEF Timely, StageOf
<1>9. m.cmd \in Entries => ~TimedOut(nd.ticket[r], MaxTime)
  BY <1>2 DEF Timely
<1>10. m.cmd \notin Exits => (MayStop = {} => Connected(Key(r)))
  BY <1>2 DEF Timely
<1>11. Orderly(nd, nd) /\ \A q \in Requests : Keeps(nd, nd, q)
  BY DEF Keeps, Orderly
<1>12. ASSUME NEW fin, Orderly(nd, fin), Timely(r, fin, {}), \A q \in Requests : q # r => Keeps(nd, fin, q),
              SendNothing(t), node' = [node EXCEPT ![t] = fin], UNCHANGED <<client, now, alive>>
       PROVE  TimelyInv' /\ Orderly(node[t], node'[t])
  <2>1. Mail(t)' = Rest(t) \cup {}
    BY <1>1, <1>5, <1>12, SendsNothing
  <2> HIDE DEF m, r, nd
  <2>2. node'[t] = fin
    BY <1>5, <1>12
  <2> QED
    BY <1>1, <1>12, <2>1, <2>2, DaemonStepTimely DEF m, r, nd
<1>13. ASSUME NEW fin, Orderly(nd, fin), NEW e \in DaemonMessage, e.key = m.key, Timely(r, fin, {e}),
              \A q \in Requests : q # r => Keeps(nd, fin, q),
              NEW s \in Servers, SendTo(t, s, e) \/ Broadcast(t, e),
              node' = [node EXCEPT ![t] = fin], UNCHANGED <<client, now, alive>>
       PROVE  TimelyInv' /\ Orderly(node[t], node'[t])
  <2>1. Mail(t)' = Rest(t) \cup {e}
    BY <1>1, <1>5, <1>13, SendsMessage
  <2> HIDE DEF m, r, nd
  <2>2. node'[t] = fin
    BY <1>5, <1>13
  <2> QED
    BY <1>1, <1>13, <2>1, <2>2, DaemonStepTimely DEF m, r, nd
<1>14. CASE HandleLock(t)
  <2> DEFINE e   == [cmd |-> "LOCKENTERING", from |-> t, key |-> m.key,
                     service |-> m.service, timeout |-> m.timeout]
             fin == Allocate(nd, r, m.timeout)
  <2>1. m.cmd = "LOCK" /\ m.service = 1 /\ m.timeout \in Nat /\ m.timeout > MaxTime
    BY <1>4, <1>14 DEF HandleLock, Receives
  <2>2. ~(m.timeout <= now)
    BY <1>2, <2>1, MaxTimeAssumption
  <2>3. /\ Broadcast(t, e) /\ node' = [node EXCEPT ![t] = fin]
        /\ UNCHANGED <<client, now, alive>>
    BY <1>5, <1>14, <2>1, <2>2 DEF HandleLock
  <2>4. 1 \in 1 .. MaxLocks
    BY DEF AskOnce
  <2>5. e \in DaemonMessage /\ e.key = m.key /\ e.cmd = "LOCKENTERING"
    BY <1>5, <2>1, <2>4 DEF DaemonMessage, EnteringMessage
  <2>6. ~nd.ticket[r].added_ticket /\ m.cmd \notin Exits
    BY <1>2, <2>1 DEF StageOf, Exits
  <2> HIDE DEF m, r, nd, e
  <2>7. /\ Timely(r, fin, {e}) /\ \A q \in Requests : q # r => Keeps(nd, fin, q)
        /\ fin.ticket[r] = NewTicket(m.timeout)
        /\ \A q \in Requests : q # r => fin.ticket[q] = nd.ticket[q]
    <3>1. /\ nd \in Node /\ Memory(nd) /\ r \in Requests /\ m.timeout \in Nat /\ m.timeout > MaxTime
          /\ ~nd.ticket[r].added_ticket /\ (MayStop = {} => Connected(Key(r)))
          /\ e.cmd \in {"LOCKENTERING", "LOCKENTERED"}
      BY <1>2, <1>10, <2>1, <2>5, <2>6
    <3> HIDE DEF fin
    <3> QED
      BY <3>1, AllocateTimely DEF fin
  <2> HIDE DEF fin
  <2>8. Orderly(nd, fin)
    BY <2>7 DEF Orderly, NewTicket
  <2> QED
    BY <1>13, <2>3, <2>5, <2>7, <2>8
<1>15. CASE HandleUnlock(t)
  <2> DEFINE own   == {u \in nd.tickets : Key(u[2]) = m.key}
             first == {u \in own : \A v \in own : v = u \/ Before(u, v)}
             d(u)  == [cmd |-> "DROPTICKET", from |-> t, key |-> m.key,
                       id |-> IF nd.ticket[u[2]].added_ticket
                              THEN nd.ticket[u[2]].our_ticket ELSE 0]
  <2>1. m.cmd = "UNLOCK"
    BY <1>15 DEF HandleUnlock, Receives
  <2>2. /\ (own = {} /\ SendNothing(t)) \/ \E u \in first : Broadcast(t, d(u))
        /\ node' = [node EXCEPT ![t] = nd]
        /\ UNCHANGED <<client, now, alive>>
    BY <1>5, <1>15 DEF HandleUnlock
  <2>3. r \notin nd.entering
    BY <1>2, <2>1 DEF Timely, Entries
  <2>4. ASSUME NEW u \in first
        PROVE  /\ d(u) \in DaemonMessage /\ d(u).key = m.key /\ d(u).cmd = "DROPTICKET"
               /\ d(u).id = nd.ticket[r].our_ticket
    <3>1. u[2] = r /\ nd.ticket[r].added_ticket /\ nd.ticket[r].our_ticket \in Nat
      BY <1>2, <1>7 DEF Memory, Ticket
    <3> QED
      BY <1>5, <3>1 DEF DaemonMessage, TicketMessage
  <2>5. own = {} => ~Held(nd, r)
    BY <1>7 DEF Held
  <2> HIDE DEF m, r, nd, d, own, first
  <2>6. ASSUME NEW u \in first, Broadcast(t, d(u)) PROVE TimelyInv' /\ Orderly(node[t], node'[t])
    <3>1. Timely(r, nd, {d(u)})
      BY <1>2, <2>1, <2>3, <2>4 DEF Timely, Entries, Exits
    <3> QED
      BY <1>11, <1>13, <2>2, <2>4, <2>6, <3>1
  <2>7. CASE own = {} /\ SendNothing(t)
    <3>1. Timely(r, nd, {})
      BY <1>2, <2>1, <2>3, <2>5, <2>7 DEF Timely
    <3> QED
      BY <1>11, <1>12, <2>2, <2>7, <3>1
  <2> QED
    BY <2>2, <2>6, <2>7
<1>16. CASE LockEntering(t)
  <2> DEFINE allocated == IF Entering(nd, m.key) = {} THEN Allocate(nd, r, m.timeout) ELSE nd
             cleaned   == Cleanup(allocated, t, now)
             e         == [cmd |-> "LOCKENTERED", from |-> t, key |-> m.key]
  <2>1. m.cmd = "LOCKENTERING" /\ m.service = 1 /\ m.timeout \in Nat /\ m.timeout > MaxTime /\ m.from \in Servers
    <3>1. m.cmd = "LOCKENTERING" /\ m.from \in Servers
      BY <1>5, <1>16, ReceivedType DEF LockEntering
    <3> QED
      BY <1>4, <3>1
  <2>2. m.timeout > now
    BY <1>2, <2>1, MaxTimeAssumption
  <2>3. /\ SendTo(t, m.from, e) /\ node' = [node EXCEPT ![t] = cleaned]
        /\ UNCHANGED <<client, now, alive>>
    BY <1>16, <2>1, <2>2 DEF LockEntering
  <2>4. e \in DaemonMessage /\ e.key = m.key /\ e.cmd = "LOCKENTERED"
    BY <1>5 DEF DaemonMessage, KeyMessage
  <2>5. ~nd.ticket[r].added_ticket /\ m.cmd \notin Exits
    BY <1>2, <2>1 DEF StageOf, Exits
  <2>6. CASE Entering(nd, m.key) = {}
    <3> DEFINE fin == Allocate(nd, r, m.timeout)
    <3>1. allocated = fin
      BY <2>6
    <3> HIDE DEF m, r, nd, e, allocated
    <3>2. /\ Timely(r, fin, {e}) /\ \A q \in Requests : q # r => Keeps(nd, fin, q)
          /\ fin \in Node /\ fin.tickets = nd.tickets
          /\ fin.entering \subseteq nd.entering \cup {r}
          /\ fin.ticket[r] = NewTicket(m.timeout)
          /\ \A q \in Requests : q # r => fin.ticket[q] = nd.ticket[q]
      <4>1. /\ nd \in Node /\ Memory(nd) /\ r \in Requests /\ m.timeout \in Nat /\ m.timeout > MaxTime
            /\ ~nd.ticket[r].added_ticket /\ (MayStop = {} => Connected(Key(r)))
            /\ e.cmd \in {"LOCKENTERING", "LOCKENTERED"}
        BY <1>2, <1>10, <2>1, <2>4, <2>5
      <4> QED
        BY <4>1, AllocateTimely
    <3> HIDE DEF fin
    <3>3. ~TimedOut(fin.ticket[r], now)
      BY <1>2, <2>1, <2>2, <3>2 DEF TimedOut, NewTicket
    <3>4. /\ \A u \in fin.tickets : ~TimedOut(fin.ticket[u[2]], now)
          /\ \A q \in fin.entering : ~TimedOut(fin.ticket[q], now)
      BY <1>3, <3>2, <3>3
    <3>5. cleaned = fin
      BY <3>1, <3>2, <3>4, CleanupQuiet
    <3> HIDE DEF cleaned
    <3>6. Orderly(nd, fin)
      BY <3>2 DEF Orderly, NewTicket
    <3> QED
      BY <1>13, <2>1, <2>3, <2>4, <3>2, <3>5, <3>6
  <2>7. CASE Entering(nd, m.key) # {}
    <3>1. cleaned = nd
      BY <1>2, <1>3, <2>7, CleanupQuiet
    <3>2. ~nd.ticket[r].get_max_ticket
      BY <1>2, <2>1 DEF Timely
    <3>3. ~TimedOut(nd.ticket[r], MaxTime)
      BY <1>9, <2>1 DEF Entries
    <3> HIDE DEF m, r, nd, e, cleaned
    <3>4. Timely(r, nd, {e})
      BY <1>10, <2>4, <2>5, <3>2, <3>3, EntryTimely DEF Entries
    <3> QED
      BY <1>11, <1>13, <2>1, <2>3, <2>4, <3>1, <3>4
  <2> QED
    BY <2>6, <2>7
<1>17. CASE LockEntered(t)
  <2> DEFINE tk  == Entered(nd.ticket[r], 1)
             fin == [nd EXCEPT !.ticket[r] = tk]
             e   == [cmd |-> "GETMAXTICKET", from |-> t, key |-> m.key]
  <2>1. m.cmd = "LOCKENTERED"
    BY <1>17 DEF LockEntered, Receives
  <2>2. Entering(nd, m.key) = {r} /\ ~TimedOut(nd.ticket[r], MaxTime)
    BY <1>8, <1>9, <2>1 DEF Entries
  <2>3. ~nd.ticket[r].added_ticket /\ m.cmd \notin Exits /\ ~nd.ticket[r].get_max_ticket
    BY <1>2, <2>1 DEF StageOf, Timely, Exits
  <2>4. tk.get_max_ticket
    <3>1. nd.ticket[r].entered_count \in Nat
      BY <1>2 DEF Ticket
    <3>2. nd.ticket[r].entered_count + 1 >= 1
      BY <3>1
    <3> QED
      BY <1>2, <2>3, <3>2 DEF Entered, Ticket
  <2>5. /\ Broadcast(t, e) /\ node' = [node EXCEPT ![t].ticket[r] = tk]
        /\ UNCHANGED <<client, now, alive>>
    BY <1>2, <1>17, <2>2, <2>3, <2>4 DEF LockEntered
  <2>6. node' = [node EXCEPT ![t] = fin]
    BY <1>5, <2>5
  <2>7. e \in DaemonMessage /\ e.key = m.key /\ e.cmd = "GETMAXTICKET"
    BY <1>5 DEF DaemonMessage, KeyMessage
  <2> HIDE DEF m, r, nd, e
  <2>8. /\ tk \in Ticket /\ SameNumber(nd.ticket[r], tk)
        /\ tk.locked = nd.ticket[r].locked /\ tk.lock_timeout = nd.ticket[r].lock_timeout
    BY <1>2, EnteredSame, EnteredType
  <2> HIDE DEF tk
  <2>9. /\ fin \in Node /\ fin.entering = nd.entering /\ fin.tickets = nd.tickets
        /\ fin.ticket[r] = tk
        /\ \A q \in Requests : q # r => fin.ticket[q] = nd.ticket[q]
    BY <1>2, <2>8, TicketChanged
  <2> HIDE DEF fin
  <2>10. ~TimedOut(fin.ticket[r], MaxTime) /\ ~fin.ticket[r].added_ticket
    BY <2>2, <2>3, <2>8, <2>9 DEF TimedOut, SameNumber
  <2>11. Timely(r, fin, {e})
    BY <1>10, <2>3, <2>7, <2>10, EntryTimely DEF Entries
  <2>12. \A q \in Requests : q # r => Keeps(nd, fin, q)
    BY <2>9 DEF Keeps, Held
  <2>13. Orderly(nd, fin)
    BY <2>8, <2>9 DEF Orderly
  <2> QED
    BY <1>13, <2>5, <2>6, <2>7, <2>11, <2>12, <2>13
<1>18. CASE GetMaxTicket(t)
  <2> DEFINE e(n) == [cmd |-> "MAXTICKET", from |-> t, key |-> m.key, id |-> n]
  <2>1. m.cmd = "GETMAXTICKET" /\ m.from \in Servers
    BY <1>5, <1>18, ReceivedType DEF GetMaxTicket
  <2>2. Cleanup(nd, t, now) = nd
    BY <1>2, <1>3, CleanupQuiet
  <2>3. /\ \E n \in LastTicket(nd) : SendTo(t, m.from, e(n))
        /\ node' = [node EXCEPT ![t] = nd]
        /\ UNCHANGED <<client, now, alive>>
    BY <1>18, <2>2 DEF GetMaxTicket
  <2>4. PICK n \in LastTicket(nd) : SendTo(t, m.from, e(n))
    BY <2>3
  <2>5. n \in Nat
    BY <1>2, LastTicketType
  <2>6. e(n) \in DaemonMessage /\ e(n).key = m.key /\ e(n).cmd = "MAXTICKET"
    BY <1>5, <2>5 DEF DaemonMessage, TicketMessage
  <2>7. ~nd.ticket[r].added_ticket /\ m.cmd \notin Exits /\ ~TimedOut(nd.ticket[r], MaxTime)
    BY <1>2, <1>9, <2>1 DEF StageOf, Exits, Entries
  <2> HIDE DEF m, r, nd, e
  <2>8. Timely(r, nd, {e(n)})
    BY <1>10, <2>6, <2>7, EntryTimely DEF Entries
  <2> QED
    BY <1>11, <1>13, <2>1, <2>3, <2>4, <2>6, <2>8
<1>19. CASE MaxTicket(t)
  <2> DEFINE tk  == MaxTicketReceived(nd.ticket[r], m.id, 1)
             fin == [nd EXCEPT !.ticket[r] = tk]
             e   == [cmd |-> "ADDTICKET", from |-> t, key |-> m.key, id |-> tk.our_ticket]
  <2>1. m.cmd = "MAXTICKET" /\ m.id \in Nat
    BY <1>5, <1>19, ReceivedType DEF MaxTicket
  <2>2. Entering(nd, m.key) = {r} /\ ~TimedOut(nd.ticket[r], MaxTime)
    BY <1>8, <1>9, <2>1 DEF Entries
  <2>3. ~nd.ticket[r].added_ticket /\ nd.ticket[r].our_ticket = 0 /\ m.cmd \notin Exits
    BY <1>2, <2>1 DEF StageOf, Exits
  <2>4. /\ tk.our_ticket = m.id + 1 /\ tk.added_ticket
        /\ tk.locked = nd.ticket[r].locked /\ tk.lock_timeout = nd.ticket[r].lock_timeout
        /\ tk.obtention_timeout = nd.ticket[r].obtention_timeout
    BY <1>2, <2>1, <2>3, MaxTicketFields
  <2>5. tk \in Ticket
    BY <1>2, <2>1, MaxTicketReceivedType
  <2>6. /\ Broadcast(t, e) /\ node' = [node EXCEPT ![t].ticket[r] = tk]
        /\ UNCHANGED <<client, now, alive>>
    BY <1>2, <1>19, <2>2, <2>3, <2>4 DEF MaxTicket
  <2>7. node' = [node EXCEPT ![t] = fin]
    BY <1>5, <2>6
  <2> HIDE DEF tk
  <2>8. e \in DaemonMessage /\ e.key = m.key /\ e.cmd = "ADDTICKET"
    BY <1>5, <2>1, <2>4 DEF DaemonMessage, TicketMessage
  <2> HIDE DEF m, r, nd, e
  <2>9. /\ fin \in Node /\ fin.entering = nd.entering /\ fin.tickets = nd.tickets
        /\ fin.ticket[r] = tk
        /\ \A q \in Requests : q # r => fin.ticket[q] = nd.ticket[q]
    BY <1>2, <2>5, TicketChanged
  <2> HIDE DEF fin
  <2>10. ~TimedOut(fin.ticket[r], MaxTime) /\ fin.ticket[r].our_ticket # 0
    BY <2>1, <2>2, <2>4, <2>9 DEF TimedOut
  <2>11. Timely(r, fin, {e})
    BY <1>10, <2>3, <2>8, <2>10, EntryTimely DEF Entries
  <2>12. \A q \in Requests : q # r => Keeps(nd, fin, q)
    BY <2>9 DEF Keeps, Held
  <2>13. Orderly(nd, fin)
    BY <2>4, <2>9 DEF Orderly
  <2> QED
    BY <1>13, <2>6, <2>7, <2>8, <2>11, <2>12, <2>13
<1>20. CASE AddTicket(t)
  <2> DEFINE e   == [cmd |-> "TICKETADDED", from |-> t, key |-> m.key, id |-> m.id]
             fin == [nd EXCEPT !.tickets = (@ \ TicketsAt(nd, m.id, m.key)) \cup {<<m.id, r>>}]
  <2>1. m.cmd = "ADDTICKET" /\ m.id \in Nat /\ m.from \in Servers
    BY <1>5, <1>20, ReceivedType DEF AddTicket
  <2>2. /\ node' = [node EXCEPT ![t].tickets = (@ \ TicketsAt(nd, m.id, m.key)) \cup {<<m.id, r>>}]
        /\ SendTo(t, m.from, e)
        /\ UNCHANGED <<client, now, alive>>
    BY <1>6, <1>20 DEF AddTicket
  <2>3. node' = [node EXCEPT ![t] = fin]
    BY <1>5, <2>2
  <2>4. e \in DaemonMessage /\ e.key = m.key /\ e.cmd = "TICKETADDED"
    BY <1>5, <2>1 DEF DaemonMessage, TicketMessage
  <2>5. /\ fin.entering = nd.entering /\ fin.ticket = nd.ticket
        /\ fin.tickets = (nd.tickets \ TicketsAt(nd, m.id, m.key)) \cup {<<m.id, r>>}
    BY <1>2 DEF Node
  <2>6. \A u \in TicketsAt(nd, m.id, m.key) : u[2] = r
    BY <1>7 DEF TicketsAt
  <2>7. /\ m.cmd \notin Exits /\ ~TimedOut(nd.ticket[r], MaxTime)
        /\ nd.ticket[r].added_ticket => nd.ticket[r].our_ticket # 0
    BY <1>2, <1>9, <2>1 DEF Timely, Exits, Entries
  <2> HIDE DEF m, r, nd, e, fin
  <2>8. Held(fin, r)
    <3>1. <<m.id, r>> \in fin.tickets /\ <<m.id, r>>[2] = r
      BY <2>5
    <3> QED
      BY <3>1 DEF Held
  <2>9. Timely(r, fin, {e})
    BY <1>10, <2>4, <2>5, <2>7, <2>8, EntryTimely DEF Entries
  <2>10. \A q \in Requests : q # r => Keeps(nd, fin, q)
    BY <2>5, <2>6 DEF Keeps, Held
  <2>11. Orderly(nd, fin)
    BY <2>5 DEF Orderly
  <2> QED
    BY <1>13, <2>1, <2>2, <2>3, <2>4, <2>9, <2>10, <2>11
<1>21. CASE AddTicketThrows(t)
  <2>1. m.cmd = "ADDTICKET" /\ Entering(nd, m.key) = {}
    BY <1>21 DEF AddTicketThrows, Receives
  <2> QED
    BY <1>8, <2>1 DEF Entries
<1>22. CASE TicketAdded(t)
  <2> DEFINE found == TicketsAt(nd, m.id, m.key)
             tk  == TicketAddedReceived(nd.ticket[r], nd.entering, 1)
             fin == [nd EXCEPT !.ticket[r] = tk]
             e   == [cmd |-> "LOCKEXITING", from |-> t, key |-> m.key]
  <2>1. m.cmd = "TICKETADDED" /\ m.id \in Nat
    BY <1>5, <1>22, ReceivedType DEF TicketAdded
  <2>2. r \in nd.entering /\ ~TimedOut(nd.ticket[r], MaxTime) /\ m.cmd \notin Exits
    BY <1>8, <1>9, <2>1 DEF Entries, Exits
  <2>3. /\ ~nd.ticket[r].added_ticket_quorum /\ Held(nd, r)
        /\ nd.ticket[r].our_ticket = m.id /\ nd.ticket[r].our_ticket # 0
    BY <1>2, <2>1 DEF StageOf, Timely
  <2>4. found # {} /\ \A u \in found : u[2] = r
    BY <1>2, <1>7, <2>3 DEF TicketsAt, Held, Memory
  <2>5. /\ tk.added_ticket_quorum
        /\ tk.our_ticket = nd.ticket[r].our_ticket
        /\ tk.locked = nd.ticket[r].locked /\ tk.lock_timeout = nd.ticket[r].lock_timeout
        /\ tk.obtention_timeout = nd.ticket[r].obtention_timeout
    BY <1>2, <2>3, TicketAddedFields
  <2>6. tk \in Ticket
    BY <1>2, TicketAddedReceivedType DEF Node
  <2>7. /\ Broadcast(t, e) /\ node' = [node EXCEPT ![t].ticket[r] = tk]
        /\ UNCHANGED <<client, now, alive>>
    <3>1. \E u \in found :
             LET old == nd.ticket[u[2]]
                 new == TicketAddedReceived(old, nd.entering, quorum(t))
             IN  /\ node' = [node EXCEPT ![t].ticket[u[2]] = new]
                 /\ IF new.added_ticket_quorum /\ ~old.added_ticket_quorum
                    THEN Broadcast(t, e) ELSE SendNothing(t)
      BY <1>22, <2>2, <2>4 DEF TicketAdded
    <3>2. /\ node' = [node EXCEPT ![t].ticket[r] = tk]
          /\ IF tk.added_ticket_quorum /\ ~nd.ticket[r].added_ticket_quorum
             THEN Broadcast(t, e) ELSE SendNothing(t)
      BY <1>2, <2>4, <3>1
    <3>3. UNCHANGED <<client, now, alive>>
      BY <1>22 DEF TicketAdded
    <3> HIDE DEF tk, nd, e, r
    <3> QED
      BY <2>3, <2>5, <3>2, <3>3
  <2>8. node' = [node EXCEPT ![t] = fin]
    BY <1>5, <2>7
  <2>9. e \in DaemonMessage /\ e.key = m.key /\ e.cmd = "LOCKEXITING"
    BY <1>5 DEF DaemonMessage, KeyMessage
  <2> HIDE DEF m, r, nd, e, tk
  <2>10. /\ fin \in Node /\ fin.entering = nd.entering /\ fin.tickets = nd.tickets
         /\ fin.ticket[r] = tk
         /\ \A q \in Requests : q # r => fin.ticket[q] = nd.ticket[q]
    BY <1>2, <2>6, TicketChanged
  <2> HIDE DEF fin
  <2>11. ~TimedOut(fin.ticket[r], MaxTime) /\ fin.ticket[r].our_ticket # 0 /\ Held(fin, r)
    BY <2>2, <2>3, <2>5, <2>10 DEF TimedOut, Held
  <2>12. Timely(r, fin, {e})
    BY <1>10, <2>2, <2>9, <2>11, EntryTimely DEF Entries
  <2>13. \A q \in Requests : q # r => Keeps(nd, fin, q)
    BY <2>10 DEF Keeps, Held
  <2>14. Orderly(nd, fin)
    BY <2>5, <2>10 DEF Orderly
  <2> QED
    BY <1>13, <2>7, <2>8, <2>9, <2>12, <2>13, <2>14
<1>23. CASE LockExiting(t)
  <2> DEFINE exited    == [nd EXCEPT
                              !.entering = @ \ Entering(nd, m.key),
                              !.ticket   = [q \in Requests |->
                                  IF \E u \in nd.tickets : u[2] = q
                                  THEN RemoveEntering(nd, nd.ticket[q], m.key, now)
                                  ELSE nd.ticket[q]]]
             activated == ActivateFirstLock(exited, t, now)
  <2>1. m.cmd = "LOCKEXITING"
    BY <1>23 DEF LockExiting, Receives
  <2>2. Entering(nd, m.key) = {r} /\ m.cmd \notin Exits
    BY <1>8, <2>1 DEF Entries, Exits
  <2>3. SendNothing(t) /\ node' = [node EXCEPT ![t] = activated] /\ UNCHANGED <<client, now, alive>>
    BY <1>23, <2>2 DEF LockExiting
  <2>4. \A q \in Requests : RemoveEntering(nd, nd.ticket[q], m.key, now) \in Ticket
    BY <1>2, RemoveEnteringType DEF Node
  <2>5. /\ exited.entering = nd.entering \ {r}
        /\ exited.tickets = nd.tickets
        /\ \A q \in Requests : exited.ticket[q] = IF Held(nd, q)
                                                   THEN RemoveEntering(nd, nd.ticket[q], m.key, now)
                                                   ELSE nd.ticket[q]
    BY <1>2, <2>2 DEF Node, Held
  <2> HIDE DEF m, r, nd
  <2>6. exited \in Node
    <3> DEFINE tks == [q \in Requests |-> IF \E u \in nd.tickets : u[2] = q
                                         THEN RemoveEntering(nd, nd.ticket[q], m.key, now)
                                         ELSE nd.ticket[q]]
               ent == nd.entering \ Entering(nd, m.key)
    <3>1. tks \in [Requests -> Ticket] /\ ent \in SUBSET Requests
      BY <1>2, <2>4 DEF Node
    <3>2. exited = [nd EXCEPT !.entering = ent, !.ticket = tks]
      OBVIOUS
    <3> HIDE DEF tks, ent, exited
    <3> QED
      BY <1>2, <3>1, <3>2 DEF Node
  <2> HIDE DEF exited
  <2>7. ASSUME NEW q \in Requests
        PROVE  /\ Keeps(nd, exited, q)
               /\ TimedOut(exited.ticket[q], now) <=> TimedOut(nd.ticket[q], now)
               /\ exited.ticket[q].locked = nd.ticket[q].locked
    <3>1. nd.ticket[q] \in Ticket
      BY <1>2 DEF Node
    <3>2. /\ exited.ticket[q].obtention_timeout = nd.ticket[q].obtention_timeout
          /\ exited.ticket[q].our_ticket = nd.ticket[q].our_ticket
          /\ exited.ticket[q].added_ticket = nd.ticket[q].added_ticket
          /\ exited.ticket[q].get_max_ticket = nd.ticket[q].get_max_ticket
          /\ exited.ticket[q].locked = nd.ticket[q].locked
          /\ exited.ticket[q].lock_timeout = nd.ticket[q].lock_timeout
      <4>1. CASE Held(nd, q)
        <5>1. exited.ticket[q] = RemoveEntering(nd, nd.ticket[q], m.key, now)
          BY <2>5, <4>1
        <5> QED
          BY <3>1, <5>1, RemoveEnteringFields
      <4>2. CASE ~Held(nd, q)
        BY <2>5, <4>2
      <4> QED
        BY <4>1, <4>2
    <3> QED
      BY <2>5, <3>2 DEF Keeps, Held, TimedOut
  <2>8. \A u \in exited.tickets : ~TimedOut(exited.ticket[u[2]], now)
    BY <1>3, <2>5, <2>7
  <2>9. /\ activated.tickets = exited.tickets /\ activated.entering = exited.entering
        /\ \A q \in Requests : Keeps(exited, activated, q)
    BY <1>2, <2>6, <2>8, ActivateKeeps
  <2>10. Settles(exited, activated, now)
    BY <1>2, <2>6, ActivateFirstLockSettles
  <2> HIDE DEF activated
  <2>11. \A q \in Requests : Keeps(nd, activated, q)
    BY <2>7, <2>9, KeepsTwice
  <2>12. r \notin activated.entering
    BY <2>5, <2>9
  <2>13. Timely(r, activated, {})
    <3>1. Timely(r, activated, {m})
      BY <1>2, <2>11, KeepsTimely
    <3> QED
      BY <2>1, <2>2, <2>12, <3>1 DEF Timely
  <2>14. Orderly(nd, activated)
    <3>1. \A q \in Requests : activated.ticket[q].locked /\ ~nd.ticket[q].locked => Held(activated, q)
      BY <2>7, <2>10 DEF Settles, Granted, Held
    <3> QED
      BY <2>11, <3>1 DEF Orderly, Keeps
  <2> QED
    BY <1>12, <2>3, <2>11, <2>13, <2>14
<1>24. CASE DropTicket(t)
  <2> DEFINE dropped   == [nd EXCEPT !.tickets = @ \ TicketsAt(nd, m.id, m.key)]
             activated == IF m.id = 0 THEN nd ELSE ActivateFirstLock(dropped, t, now)
             fin       == [activated EXCEPT !.entering = @ \ Entering(nd, m.key)]
  <2>1. m.cmd = "DROPTICKET" /\ m.id \in Nat
    BY <1>5, <1>24, ReceivedType DEF DropTicket
  <2>2. SendNothing(t) /\ node' = [node EXCEPT ![t] = fin] /\ UNCHANGED <<client, now, alive>>
    BY <1>24 DEF DropTicket
  <2>3. /\ dropped \in Node /\ dropped.ticket = nd.ticket /\ dropped.entering = nd.entering
        /\ dropped.tickets = nd.tickets \ TicketsAt(nd, m.id, m.key)
    BY <1>2 DEF Node
  <2>4. \A u \in nd.tickets : u \in TicketsAt(nd, m.id, m.key) <=> u[1] = m.id /\ u[2] = r
    BY <1>7 DEF TicketsAt
  <2>5. r \notin nd.entering
    BY <1>2, <2>1 DEF Timely, Entries
  <2>6. Entering(nd, m.key) = {}
    BY <1>6, <2>5 DEF Entering
  <2>7. activated \in Node
    BY <1>2, <2>3, ActivateFirstLockType
  <2> HIDE DEF m, r, nd, dropped
  <2>8. \A u \in dropped.tickets : ~TimedOut(dropped.ticket[u[2]], now)
    BY <1>3, <2>3
  <2>9. LET new == ActivateFirstLock(dropped, t, now)
        IN  /\ new.tickets = dropped.tickets /\ new.entering = dropped.entering
            /\ \A q \in Requests : Keeps(dropped, new, q)
    BY <1>2, <2>3, <2>8, ActivateKeeps
  <2>10. Settles(dropped, ActivateFirstLock(dropped, t, now), now)
    BY <1>2, <2>3, ActivateFirstLockSettles
  <2>11. \A q \in Requests : q # r => Keeps(nd, dropped, q)
    BY <2>3, <2>4 DEF Keeps, Held
  <2>12. \A q \in Requests : q # r => Keeps(nd, activated, q)
    BY <1>11, <2>9, <2>11, KeepsTwice
  <2>13. /\ activated.entering = nd.entering
         /\ activated.ticket[r].added_ticket = nd.ticket[r].added_ticket
         /\ activated.ticket[r].our_ticket = nd.ticket[r].our_ticket
         /\ ~TimedOut(nd.ticket[r], MaxTime) => ~TimedOut(activated.ticket[r], MaxTime)
         /\ m.id = 0 => activated = nd
         /\ m.id # 0 => activated.tickets = dropped.tickets
    BY <1>2, <2>3, <2>9 DEF Keeps
  <2>14. Orderly(nd, activated)
    <3>1. \A q \in Requests :
            LET new == ActivateFirstLock(dropped, t, now)
            IN  /\ new.ticket[q].locked /\ ~nd.ticket[q].locked => Held(new, q)
                /\ SameNumber(nd.ticket[q], new.ticket[q])
      BY <2>3, <2>10 DEF Settles, Granted, Held
    <3>2. Orderly(nd, ActivateFirstLock(dropped, t, now))
      BY <3>1 DEF Orderly, SameNumber
    <3> QED
      BY <1>11, <3>2
  <2> HIDE DEF activated
  <2>15. fin.entering = activated.entering /\ fin.tickets = activated.tickets /\ fin.ticket = activated.ticket
    BY <2>6, <2>7 DEF Node
  <2> HIDE DEF fin
  <2>16. ~Connected(m.key)
    BY <1>1, <1>5, <2>1, ReadsMail DEF BakeryInv, Told, Exits, m
  <2>17. MayStop = {} => ~Held(fin, r)
    <3> SUFFICES ASSUME MayStop = {}, NEW u \in fin.tickets, u[2] = r PROVE FALSE
      BY DEF Held
    <3>1. u \in nd.tickets
      BY <2>3, <2>13, <2>15
    <3>2. u[1] = nd.ticket[r].our_ticket /\ nd.ticket[r].added_ticket
      BY <1>2, <3>1 DEF Memory
    <3>3. m.id = nd.ticket[r].our_ticket /\ nd.ticket[r].our_ticket # 0
      BY <1>2, <2>1, <2>16, <3>1, <3>2 DEF Timely, Held
    <3>4. u \in TicketsAt(nd, m.id, m.key)
      BY <2>4, <3>1, <3>2, <3>3
    <3> QED
      BY <2>3, <2>13, <2>15, <3>3, <3>4
  <2>18. Timely(r, fin, {})
    BY <1>2, <2>5, <2>13, <2>15, <2>16, <2>17 DEF Timely
  <2>19. \A q \in Requests : q # r => Keeps(nd, fin, q)
    BY <2>12, <2>15 DEF Keeps, Held
  <2>20. Orderly(nd, fin)
    BY <2>14, <2>15 DEF Orderly, Held
  <2> QED
    BY <1>12, <2>2, <2>18, <2>19, <2>20
<1> QED
  BY <1>14, <1>15, <1>16, <1>17, <1>18, <1>19, <1>20, <1>21, <1>22, <1>23, <1>24
     DEF HandleMessage

\* A step of client c.
LEMMA ClientStepTimely ==
    ASSUME OneDaemon, AskOnce, TimelyInv, BakeryInv', NEW c \in Clients, NEW t \in Servers,
           \A d \in Clients : d # c => client'[d] = client[d],
           client'[c].service # 0 => client'[c].deadline > MaxTime,
           \A q \in Requests : Key(q) # c => Mine(t, q)' = Mine(t, q),
           Timely(<<c, 1>>, node[t], Mine(t, <<c, 1>>))',
           UNCHANGED <<node, alive, now>>
    PROVE  TimelyInv'
<1>1. ASSUME NEW q \in Requests, Key(q) # c PROVE Timely(q, node[t], Mine(t, q))'
  <2>1. Timely(q, node[t], Mine(t, q)) /\ Mine(t, q)' = Mine(t, q)
    BY <1>1 DEF TimelyInv
  <2>2. Key(q) \in Clients /\ (Connected(Key(q))' <=> Connected(Key(q)))
    BY <1>1, OneRequest DEF Connected
  <2> QED
    BY <2>1, <2>2 DEF Timely, Held
<1>2. \A q \in Requests : Key(q) = c => q = <<c, 1>>
  BY OneRequest
<1>3. \A q \in Requests : Timely(q, node[t], Mine(t, q))'
  BY <1>1, <1>2
<1>4. \A u \in Servers : u = t
  BY DEF OneDaemon
<1>5. /\ (now <= MaxTime)' /\ alive'[t]
      /\ \A d \in Clients : client'[d].service # 0 => client'[d].deadline > MaxTime
  BY DEF TimelyInv
<1> QED
  BY <1>3, <1>4, <1>5 DEF TimelyInv

LEMMA ClientsTimely ==
    ASSUME OneDaemon, AskOnce, NeverLate, TimelyInv, BakeryInv', NEW c \in Clients,
           ClientLock(c) \/ ClientStep(c) \/ ClientStop(c) \/ ClientDies(c)
    PROVE  TimelyInv'
<1> DEFINE t == Home[c]
           r == <<c, 1>>
<1>1. /\ BakeryInv /\ MatchInv /\ t \in Servers /\ node[t] \in Node
      /\ client \in [Clients -> ClientState] /\ toClient[c] \in Seq(ToClient)
      /\ now \in Nat /\ now <= MaxTime
      /\ Told(c, node[t], Mail(t), toClient[c]) /\ Memory(node[t]) /\ Stage(node[t], Mail(t), now)
      /\ r \in Requests /\ Key(r) = c /\ inbox[t] \in Seq(Message)
  BY HomeAssumption, ConnectedService DEF TimelyInv, BakeryInv, Bakery, MatchInv, TypeOK
<1>2. /\ Timely(r, node[t], Mine(t, r))
      /\ client[c].service # 0 => client[c].deadline > MaxTime
      /\ client[c] \in ClientState
  BY <1>1 DEF TimelyInv
<1>3. ASSUME UNCHANGED inbox PROVE \A q \in Requests : Mine(t, q)' = Mine(t, q)
  BY <1>3 DEF Mine, Mail
<1>4. ASSUME NEW m, m.key = c, Mail(t)' = Mail(t) \cup {m}
      PROVE  /\ \A q \in Requests : Key(q) # c => Mine(t, q)' = Mine(t, q)
             /\ Mine(t, r) = {} => Mine(t, r)' = {m}
  BY <1>1, <1>4 DEF Mine
<1> HIDE DEF t
<1>5. CASE ClientLock(c)
  <2> DEFINE deadline == now + ObtentionTimeout[c]
             m == [cmd |-> "LOCK", key |-> c, service |-> client[c].service + 1, timeout |-> deadline]
  <2>1. client[c].service = 0
    <3>1. client[c].service < MaxLocks /\ client[c].service \in {0, 1}
      BY <1>1, <1>5, ConnectedService DEF ClientLock
    <3> QED
      BY <3>1 DEF AskOnce
  <2>2. /\ client' = [client EXCEPT ![c] = [state |-> "waiting", service |-> client[c].service + 1,
                                            deadline |-> deadline, timeout_date |-> 0]]
        /\ inbox' = [inbox EXCEPT ![t] = Append(@, m)]
        /\ UNCHANGED <<node, alive, now>>
    BY <1>5 DEF ClientLock, t
  <2>3. ObtentionTimeout[c] \in Nat /\ MaxTime < ObtentionTimeout[c]
    BY ObtentionAssumption DEF NeverLate
  <2>4. deadline \in Nat /\ deadline > MaxTime
    BY <1>1, <2>3, MaxTimeAssumption
  <2>5. m \in Message /\ m.key = c /\ m.cmd = "LOCK"
    BY <2>1, <2>4 DEF Message, ClientRequest, AskOnce
  <2>6. /\ client'[c].state = "waiting" /\ client'[c].deadline > MaxTime
        /\ \A d \in Clients : d # c => client'[d] = client[d]
    BY <1>1, <2>2, <2>4
  <2> HIDE DEF m, deadline
  <2>7. /\ \A x \in Mail(t) : x.key # c
        /\ ~node[t].ticket[r].added_ticket
    BY <1>1, <2>1 DEF Told
  <2>8. Mine(t, r) = {}
    BY <1>1, <2>7 DEF Mine
  <2>9. Mail(t)' = Mail(t) \cup {m}
    BY <1>1, <2>2, <2>5, <2>7, PostsMail
  <2>10. Mine(t, r)' = {m}
    BY <1>4, <2>5, <2>8, <2>9
  <2>11. r \notin node[t].entering /\ ~Held(node[t], r) /\ Connected(c)'
    BY <1>1, <1>2, <2>6, <2>7, <2>8 DEF Timely, Memory, Held, Connected
  <2>12. Timely(r, node[t], Mine(t, r))'
    BY <1>1, <2>2, <2>5, <2>7, <2>10, <2>11 DEF Timely, Held, Entries, Exits, t
  <2> QED
    BY <1>1, <1>4, <2>2, <2>5, <2>6, <2>9, <2>12, ClientStepTimely
<1>6. CASE ClientMessage(c)
  <2>1. Head(toClient[c]).cmd = "LOCKED"
    BY <1>1, <1>6 DEF MatchInv, RequestsMatch, AnswersMatch, AnswerMatches, ClientMessage, CanRead
  <2>2. /\ client' = [client EXCEPT ![c].state = "locked", ![c].timeout_date = Head(toClient[c]).timeout_date]
        /\ UNCHANGED inbox /\ UNCHANGED <<node, alive, now>>
    BY <1>6, <2>1 DEF ClientMessage
  <2>3. /\ client'[c].state = "locked" /\ client'[c].service = client[c].service
        /\ client'[c].deadline = client[c].deadline
        /\ \A d \in Clients : d # c => client'[d] = client[d]
    BY <1>1, <1>2, <2>2 DEF ClientState
  <2>4. client[c].state = "waiting"
    BY <1>6 DEF ClientMessage, CanRead
  <2>5. Timely(r, node[t], Mine(t, r))'
    <3>1. Connected(c)' /\ Connected(c) /\ Mine(t, r)' = Mine(t, r)
      BY <1>1, <1>3, <2>2, <2>3, <2>4 DEF Connected
    <3> QED
      BY <1>1, <1>2, <2>2, <3>1 DEF Timely, Held, t
  <2> QED
    BY <1>1, <1>2, <1>3, <2>2, <2>3, <2>5, ClientStepTimely
<1>7. CASE ClientTimeout(c)
  <2>1. client[c].state = "waiting" /\ client[c].deadline <= now
    BY <1>7 DEF ClientTimeout
  <2>2. client[c].deadline \in Nat /\ client[c].deadline > MaxTime
    BY <1>1, <1>2, <2>1, ConnectedService DEF Connected, ClientState
  <2> QED
    BY <1>1, <2>1, <2>2, MaxTimeAssumption
<1>8. CASE ClientUnlock(c)
  <2> DEFINE m == [cmd |-> "UNLOCK", key |-> c]
  <2>1. /\ client[c].state = "locked"
        /\ client' = [client EXCEPT ![c].state = "idle", ![c].timeout_date = 0]
        /\ inbox' = [inbox EXCEPT ![t] = Append(@, m)]
        /\ UNCHANGED <<node, alive, now>>
    BY <1>8 DEF ClientUnlock, t
  <2>2. /\ client'[c].state = "idle" /\ client'[c].service = client[c].service
        /\ client'[c].deadline = client[c].deadline
        /\ \A d \in Clients : d # c => client'[d] = client[d]
    BY <1>1, <1>2, <2>1 DEF ClientState
  <2>3. m \in Message /\ m.key = c /\ m.cmd = "UNLOCK"
    BY DEF Message, ClientRequest
  <2>4. \A x \in Mail(t) : x.key # c
    BY <1>1, <2>1 DEF Told, Stage, StageOf, Connected
  <2> HIDE DEF m
  <2>5. Mine(t, r) = {} /\ Mail(t)' = Mail(t) \cup {m}
    BY <1>1, <2>1, <2>3, <2>4, PostsMail DEF Mine
  <2>6. Mine(t, r)' = {m}
    BY <1>4, <2>3, <2>5
  <2>7. ~Connected(c)' /\ r \notin node[t].entering
    BY <1>2, <2>2, <2>5 DEF Connected, Timely
  <2>8. Timely(r, node[t], Mine(t, r))'
    BY <1>1, <1>2, <2>1, <2>3, <2>6, <2>7 DEF Timely, Held, Entries, Exits, t
  <2> QED
    BY <1>1, <1>2, <1>4, <2>1, <2>2, <2>3, <2>5, <2>8, ClientStepTimely
<1>9. CASE ClientStop(c) \/ ClientDies(c)
  <2>1. MayStop # {} /\ UNCHANGED inbox /\ UNCHANGED <<node, alive, now>>
    BY <1>9 DEF ClientStop, ClientDies
  <2>2. /\ client'[c].state \in {"idle", "dead"} /\ client'[c].service = client[c].service
        /\ client'[c].deadline = client[c].deadline
        /\ \A d \in Clients : d # c => client'[d] = client[d]
    BY <1>1, <1>2, <1>9 DEF ClientStop, ClientDies, ClientState
  <2>3. ~Connected(c)' /\ Mine(t, r)' = Mine(t, r)
    BY <1>1, <1>3, <2>1, <2>2 DEF Connected
  <2>4. Timely(r, node[t], Mine(t, r))'
    BY <1>1, <1>2, <2>1, <2>3 DEF Timely, Held, t
  <2> QED
    BY <1>1, <1>2, <1>3, <2>1, <2>2, <2>4, ClientStepTimely
<1> QED
  BY <1>5, <1>6, <1>7, <1>8, <1>9 DEF ClientStep

LEMMA TimelyInit ==
    ASSUME AskOnce PROVE Init => TimelyInv
<1> SUFFICES ASSUME Init PROVE TimelyInv
  OBVIOUS
<1>1. BakeryInv
  BY BakeryInit
<1>2. ASSUME NEW t \in Servers
      PROVE  alive[t] /\ node[t] = EmptyNode /\ Mail(t) = {}
  BY DEF Init, Mail
<1>3. /\ EmptyNode.entering = {} /\ EmptyNode.tickets = {}
      /\ \A r \in Requests : EmptyNode.ticket[r] = NewTicket(0)
  BY DEF EmptyNode
<1>4. ASSUME NEW t \in Servers, NEW r \in Requests PROVE Timely(r, node[t], Mine(t, r))
  <2>1. Mine(t, r) = {} /\ ~Held(EmptyNode, r) /\ ~EmptyNode.ticket[r].added_ticket
    BY <1>2, <1>3 DEF Mine, Held, NewTicket
  <2> QED
    BY <1>2, <1>3, <2>1 DEF Timely
<1>5. now <= MaxTime /\ \A c \in Clients : client[c].service = 0
  BY MaxTimeAssumption DEF Init
<1> QED
  BY <1>1, <1>2, <1>4, <1>5 DEF TimelyInv

\* A step that leaves the nodes, the mail and the clients alone.
LEMMA IdleTimely ==
    ASSUME TimelyInv, BakeryInv', (now <= MaxTime)', UNCHANGED <<node, alive, inbox, client>>
    PROVE  TimelyInv'
<1>1. ASSUME NEW t \in Servers, NEW r \in Requests PROVE Timely(r, node[t], Mine(t, r))'
  <2>1. Timely(r, node[t], Mine(t, r)) /\ Mine(t, r)' = Mine(t, r)
    BY DEF TimelyInv, Mine, Mail
  <2> QED
    BY <2>1 DEF Timely, Held, Connected
<1> QED
  BY <1>1 DEF TimelyInv

\* TimelyInv is inductive, and the steps of the daemon are orderly.
LEMMA TimelyNext ==
    ASSUME OneDaemon, AskOnce, NeverLate, TimelyInv, [Next]_vars
    PROVE  /\ TimelyInv'
           /\ \A t \in Servers : \/ Orderly(node[t], node'[t]) /\ UNCHANGED client
                                 \/ node'[t] = node[t]
<1>1. BakeryInv'
  BY BakeryNext DEF TimelyInv
<1>2. now \in Nat /\ now <= MaxTime /\ node \in [Servers -> Node]
  BY DEF TimelyInv, BakeryInv, MatchInv, TypeOK
<1>3. ASSUME NEW c \in Clients, ClientLock(c) \/ ClientStep(c) \/ ClientStop(c) \/ ClientDies(c)
      PROVE  TimelyInv' /\ node' = node
  BY <1>1, <1>3, ClientsTimely
     DEF ClientLock, ClientStep, ClientMessage, ClientTimeout, ClientUnlock, ClientStop, ClientDies
<1>4. ASSUME NEW t \in Servers, HandleMessage(t)
      PROVE  TimelyInv' /\ Orderly(node[t], node'[t]) /\ UNCHANGED client
  <2>1. UNCHANGED client
    <3>1. CASE HandleLock(t) \/ HandleUnlock(t) \/ LockEntering(t) \/ LockEntered(t)
      BY <3>1 DEF HandleLock, HandleUnlock, LockEntering, LockEntered
    <3>2. CASE GetMaxTicket(t) \/ MaxTicket(t) \/ AddTicket(t) \/ AddTicketThrows(t)
      BY <3>2 DEF GetMaxTicket, MaxTicket, AddTicket, AddTicketThrows
    <3>3. CASE TicketAdded(t) \/ LockExiting(t) \/ DropTicket(t)
      BY <3>3 DEF TicketAdded, LockExiting, DropTicket
    <3> QED
      BY <1>4, <3>1, <3>2, <3>3 DEF HandleMessage
  <2> QED
    BY <1>1, <1>4, <2>1, HandlersTimely
<1>5. ASSUME NEW t \in Servers, OtherObject(t) PROVE FALSE
  <2>1. Cleanup(node[t], t, now) = node[t]
    BY <1>2, NotTimedOut, CleanupQuiet
  <2> QED
    BY <1>5, <2>1 DEF OtherObject
<1>6. ASSUME NEW s \in Servers, NEW t \in Servers, Forward(s, t) PROVE FALSE
  BY <1>6 DEF Forward, TimelyInv, BakeryInv
<1>7. CASE Tick
  <2>1. now < MaxTime /\ now' = now + 1 /\ UNCHANGED <<node, alive, inbox, client>>
    BY <1>7 DEF Tick
  <2>2. (now <= MaxTime)'
    BY <1>2, <2>1, MaxTimeAssumption
  <2> QED
    BY <1>1, <2>1, <2>2, IdleTimely
<1>8. CASE UNCHANGED vars
  BY <1>1, <1>2, <1>8, IdleTimely DEF vars
<1> QED
  BY <1>3, <1>4, <1>5, <1>6, <1>7, <1>8 DEF Next, OneDaemon

\* With one computer, clients that ask once and no timeout, no ADDTICKET makes the daemon
\* throw: the entering request is there until its LOCKEXITING or DROPTICKET.
THEOREM DaemonNeverAborts ==
    ASSUME OneDaemon, AskOnce, NeverLate PROVE Spec => []NoAbort
<1>1. TimelyInv /\ [Next]_vars => TimelyInv'
  BY TimelyNext
<1>2. TimelyInv => NoAbort
  BY DEF TimelyInv, NoAbort
<1> QED
  BY <1>1, <1>2, TimelyInit, PTL DEF Spec

\* If moreover no client is stopped or killed, the daemon forgets every request: once the
\* clients are done and no message is on its way, its two maps are empty.
THEOREM NothingIsLeft ==
    ASSUME OneDaemon, AskOnce, NeverLate, MayStop = {} PROVE Spec => []NothingLeftBehind
<1>1. TimelyInv /\ [Next]_vars => TimelyInv'
  BY TimelyNext
<1>2. TimelyInv => NothingLeftBehind
  <2> SUFFICES ASSUME TimelyInv, NEW t \in Servers, inbox[t] = <<>>,
                      \A c \in Clients : client[c].state = "idle"
               PROVE  node[t].entering = {} /\ node[t].tickets = {}
    BY DEF NothingLeftBehind
  <2>1. ASSUME NEW r \in Requests PROVE Timely(r, node[t], {})
    <3>1. Mine(t, r) = {}
      BY DEF Mine, Mail
    <3> QED
      BY <3>1 DEF TimelyInv
  <2>2. \A r \in Requests : ~Connected(Key(r))
    BY OneRequest DEF Connected
  <2>3. \A r \in Requests : r \notin node[t].entering /\ ~Held(node[t], r)
    BY <2>1, <2>2 DEF Timely
  <2>4. node[t].entering \subseteq Requests /\ \A u \in node[t].tickets : u[2] \in Requests
    BY NotTimedOut
  <2> QED
    BY <2>3, <2>4 DEF Held
<1> QED
  BY <1>1, <1>2, TimelyInit, PTL DEF Spec

\* Two requests that are wanted, the second one numbered, the first one past its quorum
\* and not waiting for the second one.
LEMMA NumberedAfter ==
    ASSUME OneDaemon, AskOnce, TimelyInv, NEW t \in Servers, NEW r \in Requests, NEW q \in Requests,
           r # q, Connected(Key(q)), Held(node[t], r), node[t].ticket[r].added_ticket_quorum,
           node[t].ticket[q].added_ticket, q \notin node[t].ticket[r].still_entering
    PROVE  /\ Passed(node[t], r, q, now)
           /\ \/ <<node[t].ticket[q].our_ticket, q>> \in node[t].tickets
              \/ node[t].ticket[r].our_ticket < node[t].ticket[q].our_ticket
<1> DEFINE nd == node[t]
<1>1. Bakery(nd, Mail(t), now) /\ nd \in Node
  BY DEF TimelyInv, BakeryInv, MatchInv, TypeOK
<1>2. Timely(r, nd, Mine(t, r)) /\ Timely(q, nd, Mine(t, q))
  BY DEF TimelyInv
<1>3. \A p \in Requests : nd.ticket[p] \in Ticket /\ (TimedOut(nd.ticket[p], now) => TimedOut(nd.ticket[p], MaxTime))
  BY NotTimedOut
<1>4. nd.ticket[r].added_ticket
  BY <1>1 DEF Bakery, Memory
<1> HIDE DEF nd
<1>5. ~TimedOut(nd.ticket[r], now) /\ ~TimedOut(nd.ticket[q], now)
  BY <1>2, <1>3, <1>4 DEF Timely, nd
<1>6. Passed(nd, r, q, now)
  BY <1>5 DEF Passed, nd
<1>7. CASE Held(nd, q)
  <2>1. PICK u \in nd.tickets : u[2] = q
    BY <1>7 DEF Held
  <2>2. u = <<u[1], u[2]>> /\ u[1] = nd.ticket[q].our_ticket
    BY <1>1, <2>1 DEF Bakery, Memory, Node
  <2> QED
    BY <1>6, <2>1, <2>2 DEF nd
<1>8. CASE ~Held(nd, q)
  <2>1. PICK m \in Mail(t) : m.key = Key(q) /\ m.cmd = "ADDTICKET"
    BY <1>2, <1>8 DEF Timely, Mine, nd
  <2>2. nd.ticket[q].our_ticket = m.id /\ m.id > nd.ticket[r].our_ticket
    <3>1. StageOf(nd, m, now) /\ Numbered(nd, r, q, m)
      BY <1>1, <1>6 DEF Bakery, Stage, Order
    <3>2. <<m.key, 1>> = q
      BY <2>1, OneRequest
    <3> QED
      BY <2>1, <3>1, <3>2 DEF StageOf, Numbered
  <2>3. nd.ticket[q].our_ticket \in Nat /\ nd.ticket[r].our_ticket \in Nat
    BY <1>3 DEF Ticket
  <2> QED
    BY <1>6, <2>2, <2>3 DEF nd
<1> QED
  BY <1>7, <1>8

\* With one computer, clients that ask once and no timeout, the bakery argument of
\* snaplock holds: a ticket past its TICKETADDED quorum has a smaller number than any
\* ticket it does not wait for, except those already in f_tickets.
THEOREM TicketsAreOrdered ==
    ASSUME OneDaemon, AskOnce, NeverLate PROVE Spec => []BakeryOrder
<1>1. TimelyInv /\ [Next]_vars => TimelyInv'
  BY TimelyNext
<1>2. TimelyInv => BakeryOrder
  <2> SUFFICES ASSUME TimelyInv, NEW r \in Requests, NEW q \in Requests,
                      r # q, Wanted(r), Wanted(q), HomeTicket(r).added_ticket_quorum,
                      HomeTicket(q).added_ticket, q \notin HomeTicket(r).still_entering
               PROVE  \/ Before(TicketKey(r), TicketKey(q))
                      \/ TicketKey(q) \in node[Home[Key(r)]].tickets
    BY DEF BakeryOrder
  <2> DEFINE t == Home[Key(r)]
  <2>1. t \in Servers /\ Home[Key(q)] = t
    BY OneRequest, HomeAssumption DEF OneDaemon
  <2>2. Bakery(node[t], Mail(t), now) /\ Timely(r, node[t], Mine(t, r)) /\ Connected(Key(r)) /\ Connected(Key(q))
    BY <2>1 DEF TimelyInv, BakeryInv, Wanted
  <2>3. node[t].ticket[r].added_ticket_quorum /\ node[t].ticket[r].added_ticket
    BY <2>2 DEF HomeTicket, Bakery, Memory
  <2>4. Held(node[t], r)
    <3> SUFFICES ASSUME ~Held(node[t], r) PROVE FALSE
      OBVIOUS
    <3>1. PICK m \in Mail(t) : m.key = Key(r) /\ m.cmd = "ADDTICKET"
      BY <2>2, <2>3 DEF Timely, Mine
    <3>2. <<m.key, 1>> = r /\ StageOf(node[t], m, now)
      BY <2>2, <3>1, OneRequest DEF Bakery, Stage
    <3> QED
      BY <2>3, <3>1, <3>2 DEF StageOf
  <2>5. node[t].ticket[q].added_ticket /\ q \notin node[t].ticket[r].still_entering
    BY <2>1 DEF HomeTicket
  <2>6. \/ <<node[t].ticket[q].our_ticket, q>> \in node[t].tickets
        \/ node[t].ticket[r].our_ticket < node[t].ticket[q].our_ticket
    BY <2>1, <2>2, <2>3, <2>4, <2>5, NumberedAfter
  <2> QED
    BY <2>1, <2>6 DEF TicketKey, HomeTicket, Before
<1> QED
  BY <1>1, <1>2, TimelyInit, PTL DEF Spec

\* A granted ticket in f_tickets comes before every ticket that has a number and is wanted.
LockedFirst ==
    \A t \in Servers : \A r, q \in Requests :
        /\ r # q /\ Connected(Key(q)) /\ Held(node[t], r)
        /\ node[t].ticket[r].locked /\ node[t].ticket[q].added_ticket
        => Before(<<node[t].ticket[r].our_ticket, r>>, <<node[t].ticket[q].our_ticket, q>>)

LEMMA LockedIsFirst ==
    ASSUME OneDaemon, AskOnce PROVE TimelyInv => LockedFirst
<1> SUFFICES ASSUME TimelyInv, NEW t \in Servers, NEW r \in Requests, NEW q \in Requests,
                    r # q, Connected(Key(q)), Held(node[t], r),
                    node[t].ticket[r].locked, node[t].ticket[q].added_ticket
             PROVE  Before(<<node[t].ticket[r].our_ticket, r>>, <<node[t].ticket[q].our_ticket, q>>)
  BY DEF LockedFirst
<1>1. Bakery(node[t], Mail(t), now)
  BY DEF TimelyInv, BakeryInv
<1>2. node[t].ticket[r].added_ticket_quorum /\ q \notin node[t].ticket[r].still_entering
  BY <1>1 DEF Bakery, Memory
<1>3. /\ Passed(node[t], r, q, now)
      /\ \/ <<node[t].ticket[q].our_ticket, q>> \in node[t].tickets
         \/ node[t].ticket[r].our_ticket < node[t].ticket[q].our_ticket
  BY <1>2, NumberedAfter
<1>4. CASE <<node[t].ticket[q].our_ticket, q>> \in node[t].tickets
  <2>1. Held(node[t], q)
    BY <1>4 DEF Held
  <2>2. Behind(node[t], r, q)
    BY <1>1, <1>3 DEF Bakery, Order
  <2> QED
    BY <2>1, <2>2 DEF Behind
<1>5. CASE node[t].ticket[r].our_ticket < node[t].ticket[q].our_ticket
  BY <1>5 DEF Before
<1> QED
  BY <1>3, <1>4, <1>5

\* Under the same hypotheses, locks are granted in ticket order: when a ticket is granted,
\* every other request that has its number and is wanted comes after it.
THEOREM GrantsAreOrdered ==
    ASSUME OneDaemon, AskOnce, NeverLate PROVE Spec => GrantsFollowTickets
<1> DEFINE Grants == \A r, q \in Requests :
                        /\ HomeTicket(r)'.locked /\ ~HomeTicket(r).locked
                        /\ q # r /\ Wanted(q) /\ HomeTicket(q).added_ticket
                        => Before(TicketKey(r), TicketKey(q))
<1>1. TimelyInv /\ [Next]_vars => TimelyInv'
  BY TimelyNext
<1>2. TimelyInv => LockedFirst
  BY LockedIsFirst
<1>3. ASSUME TimelyInv, LockedFirst', [Next]_vars PROVE Grants
  <2> SUFFICES ASSUME NEW r \in Requests, NEW q \in Requests,
                      HomeTicket(r)'.locked, ~HomeTicket(r).locked,
                      q # r, Wanted(q), HomeTicket(q).added_ticket
               PROVE  Before(TicketKey(r), TicketKey(q))
    OBVIOUS
  <2> DEFINE t   == Home[Key(r)]
             old == node[t]
             new == node'[t]
  <2>1. t \in Servers /\ Home[Key(q)] = t
    BY OneRequest, HomeAssumption DEF OneDaemon
  <2>2. new.ticket[r].locked /\ ~old.ticket[r].locked /\ old.ticket[q].added_ticket
    BY <2>1 DEF HomeTicket
  <2>3. Orderly(old, new) /\ UNCHANGED client
    BY <1>3, <2>1, <2>2, TimelyNext
  <2>4. /\ Held(new, r)
        /\ \A p \in Requests : /\ new.ticket[p].added_ticket = old.ticket[p].added_ticket
                               /\ new.ticket[p].our_ticket = old.ticket[p].our_ticket
    BY <2>2, <2>3 DEF Orderly
  <2>5. Connected(Key(q))'
    BY <2>3 DEF Wanted, Connected
  <2>6. Before(<<new.ticket[r].our_ticket, r>>, <<new.ticket[q].our_ticket, q>>)
    BY <1>3, <2>1, <2>2, <2>4, <2>5 DEF LockedFirst, Held
  <2> QED
    BY <2>1, <2>4, <2>6 DEF TicketKey, HomeTicket
<1>4. TimelyInv /\ LockedFirst' /\ [Next]_vars => [Grants]_vars
  BY <1>3
<1> QED
  BY <1>1, <1>2, <1>4, TimelyInit, PTL DEF Spec, GrantsFollowTickets

=============================================================================
