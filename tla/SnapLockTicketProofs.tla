------------------------ MODULE SnapLockTicketProofs ------------------------
(***************************************************************************)
(* Facts about the operators of SnapLockTicket: what each leaves of a node *)
(* or of a ticket, for every value of the constants.                       *)
(***************************************************************************)
EXTENDS SnapLockTicket, TLAPS

\* A request is the pair of its client and of its service number, and its client
\* runs on one of the computers.
LEMMA RequestsType ==
    ASSUME NEW r \in Requests
    PROVE  /\ Key(r) \in Clients
           /\ r[2] \in 1 .. MaxLocks
           /\ r = <<Key(r), r[2]>>
           /\ Home[Key(r)] \in Servers
BY HomeAssumption DEF Requests, Key

-----------------------------------------------------------------------------
(* Types.                                                                  *)

\* The constructor makes a ticket.
LEMMA NewTicketType ==
    ASSUME NEW timeout \in Nat
    PROVE  NewTicket(timeout) \in Ticket
BY DEF NewTicket, Ticket

\* The memory of a daemon that just started.
LEMMA EmptyNodeType == EmptyNode \in Node
<1>1. NewTicket(0) \in Ticket
  BY NewTicketType
<1> QED
  BY <1>1 DEF EmptyNode, Node

\* A new entering request keeps the node well-formed.
LEMMA AllocateType ==
    ASSUME NEW nd \in Node, NEW r \in Requests, NEW timeout \in Nat
    PROVE  Allocate(nd, r, timeout) \in Node
<1>1. NewTicket(timeout) \in Ticket
  BY NewTicketType
<1> QED
  BY <1>1 DEF Allocate, Entering, Node

\* The three counters of snaplock_ticket.
LEMMA EnteredType ==
    ASSUME NEW tk \in Ticket, NEW q \in Nat
    PROVE  Entered(tk, q) \in Ticket
<1> DEFINE count   == tk.entered_count + 1
           quorate == count >= q
<1>1. count \in Nat /\ quorate \in BOOLEAN
  BY DEF Ticket
<1> HIDE DEF count, quorate
<1>2. [tk EXCEPT !.entered_count = count, !.get_max_ticket = quorate] \in Ticket
  BY <1>1 DEF Ticket
<1> QED
  BY <1>2 DEF Entered, count, quorate

LEMMA MaxTicketReceivedType ==
    ASSUME NEW tk \in Ticket, NEW id \in Nat, NEW q \in Nat
    PROVE  MaxTicketReceived(tk, id, q) \in Ticket
<1> DEFINE largest == IF id > tk.our_ticket THEN id ELSE tk.our_ticket
           count   == tk.max_ticket_count + 1
           quorate == count >= q
           number  == IF quorate THEN largest + 1 ELSE largest
<1>1. number \in Nat /\ count \in Nat /\ quorate \in BOOLEAN
  BY DEF Ticket
<1> HIDE DEF number, count, quorate
<1>2. [tk EXCEPT !.our_ticket = number, !.max_ticket_count = count,
                 !.added_ticket = quorate] \in Ticket
  BY <1>1 DEF Ticket
<1> QED
  BY <1>2 DEF MaxTicketReceived, number, count, quorate

LEMMA TicketAddedReceivedType ==
    ASSUME NEW tk \in Ticket, NEW E \in SUBSET Requests, NEW q \in Nat
    PROVE  TicketAddedReceived(tk, E, q) \in Ticket
<1> DEFINE count   == tk.ticket_added_count + 1
           quorate == count >= q
           copied  == IF quorate THEN E ELSE tk.still_entering
<1>1. count \in Nat /\ quorate \in BOOLEAN /\ copied \in SUBSET Requests
  BY DEF Ticket
<1> HIDE DEF count, quorate, copied
<1>2. [tk EXCEPT !.ticket_added_count = count, !.added_ticket_quorum = quorate,
                 !.still_entering = copied] \in Ticket
  BY <1>1 DEF Ticket
<1> QED
  BY <1>2 DEF TicketAddedReceived, count, quorate, copied

LEMMA RemoveEnteringType ==
    ASSUME NEW nd \in Node, NEW tk \in Ticket, NEW c, NEW now \in Nat
    PROVE  RemoveEntering(nd, tk, c, now) \in Ticket
<1> DEFINE left == {r \in tk.still_entering : Key(r) # c /\ ~TimedOut(nd.ticket[r], now)}
<1>1. left \in SUBSET Requests
  BY DEF Ticket
<1>2. (left = {}) \in BOOLEAN
  OBVIOUS
<1> HIDE DEF left
<1>3. [tk EXCEPT !.still_entering = left, !.ticket_ready = (left = {})] \in Ticket
  BY <1>1, <1>2 DEF Ticket
<1> QED
  BY <1>3 DEF RemoveEntering, left

LEMMA ActivateLockType ==
    ASSUME NEW nd \in Node, NEW r \in Requests, NEW now \in Nat
    PROVE  ActivateLock(nd, r, now) \in Ticket
<1>1. Duration[Key(r)] + now \in Nat
  BY RequestsType, DurationAssumption
<1>2. nd.ticket[r] \in Ticket
  BY DEF Node
<1> QED
  BY <1>1, <1>2 DEF ActivateLock, Ticket

LEMMA FailTicketsType ==
    ASSUME NEW nd \in Node, NEW s, NEW D
    PROVE  FailTickets(nd, s, D) \in Node
<1>1. ASSUME NEW r \in Requests
      PROVE  [nd.ticket[r] EXCEPT !.lock_failed = TRUE] \in Ticket
  <2>1. nd.ticket[r] \in Ticket
    BY DEF Node
  <2> QED
    BY <2>1 DEF Ticket
<1> QED
  BY <1>1 DEF FailTickets, Node

LEMMA ActivateFirstLockType ==
    ASSUME NEW nd \in Node, NEW s, NEW now \in Nat
    PROVE  ActivateFirstLock(nd, s, now) \in Node
<1> DEFINE live    == {t \in nd.tickets : ~TimedOut(nd.ticket[t[2]], now)}
           first   == {t \in live : \A u \in live : u = t \/ Before(t, u)}
           expired == {t \in nd.tickets \ live : \A u \in live : Before(t, u)}
           left    == FailTickets(nd, s, expired)
<1>1. left \in Node
  BY FailTicketsType
<1> HIDE DEF left
<1>2. \A r \in Requests : ActivateLock(left, r, now) \in Ticket /\ left.ticket[r] \in Ticket
  BY <1>1, ActivateLockType DEF Node
<1>3. [left EXCEPT !.ticket = [r \in Requests |->
            IF Grantable(left, s, r) /\ \E t \in first : t[2] = r
            THEN ActivateLock(left, r, now)
            ELSE left.ticket[r]]] \in Node
  BY <1>1, <1>2 DEF Node
<1> QED
  BY <1>3 DEF ActivateFirstLock, left

LEMMA CleanupType ==
    ASSUME NEW nd \in Node, NEW s, NEW now \in Nat
    PROVE  Cleanup(nd, s, now) \in Node
<1> DEFINE expired == {t \in nd.tickets : TimedOut(nd.ticket[t[2]], now)}
           left    == IF expired = {}
                      THEN nd
                      ELSE ActivateFirstLock(FailTickets(nd, s, expired), s, now)
<1>1. left \in Node
  BY FailTicketsType, ActivateFirstLockType
<1> HIDE DEF left
<1>2. [left EXCEPT !.entering = {r \in @ : ~TimedOut(left.ticket[r], now)}] \in Node
  BY <1>1 DEF Node
<1> QED
  BY <1>2 DEF Cleanup, left

\* get_max_ticket() answers with a ticket number.
LEMMA LastTicketType ==
    ASSUME NEW nd \in Node
    PROVE  LastTicket(nd) \subseteq Nat
BY DEF LastTicket, Node, Ticket

-----------------------------------------------------------------------------
(* What activate_first_lock() and cleanup() may do to a node.              *)

\* They only remove entries of the maps; a ticket object keeps its obtention
\* timeout and its lock; only a ticket of f_tickets is granted or fails, and the
\* one that fails had timed out.
Evolves(old, new, now) ==
    /\ new.tickets \subseteq old.tickets
    /\ new.entering \subseteq old.entering
    /\ \A r \in Requests :
          LET was == old.ticket[r]
              is  == new.ticket[r]
          IN  /\ is.obtention_timeout = was.obtention_timeout
              /\ was.locked => is.locked
              /\ is.locked /\ ~was.locked => \E t \in old.tickets : t[2] = r
              /\ is.lock_failed /\ ~was.lock_failed
                 => TimedOut(was, now) /\ \E t \in old.tickets : t[2] = r

\* lock_failed() on tickets that timed out: nothing but lock_failed changes.
LEMMA FailTicketsKeeps ==
    ASSUME NEW nd \in Node, NEW s, NEW D \in SUBSET nd.tickets, NEW r \in Requests
    PROVE  LET was == nd.ticket[r]
               is  == FailTickets(nd, s, D).ticket[r]
           IN  /\ is.obtention_timeout = was.obtention_timeout
               /\ is.locked = was.locked
               /\ is.lock_timeout = was.lock_timeout
               /\ is.lock_failed = was.lock_failed \/ \E t \in D : t[2] = r
<1> DEFINE was == nd.ticket[r]
<1>1. was \in Ticket
  BY DEF Node
<1>2. FailTickets(nd, s, D).ticket[r] =
        IF Home[Key(r)] = s /\ \E t \in D : t[2] = r
        THEN [was EXCEPT !.lock_failed = TRUE] ELSE was
  BY DEF FailTickets, Node
<1> HIDE DEF was
<1>3. LET is == [was EXCEPT !.lock_failed = TRUE]
      IN  /\ is.obtention_timeout = was.obtention_timeout
          /\ is.locked = was.locked
          /\ is.lock_timeout = was.lock_timeout
  BY <1>1 DEF Ticket
<1> QED
  BY <1>2, <1>3 DEF was

\* FailTickets leaves the entering requests and the tickets not in D.
LEMMA FailTicketsMaps ==
    ASSUME NEW nd \in Node, NEW s, NEW D \in SUBSET nd.tickets
    PROVE  /\ FailTickets(nd, s, D).tickets = nd.tickets \ D
           /\ FailTickets(nd, s, D).entering = nd.entering
BY DEF FailTickets, Node

\* activate_first_lock() evolves a node.
LEMMA ActivateFirstLockEvolves ==
    ASSUME NEW nd \in Node, NEW s, NEW now \in Nat
    PROVE  Evolves(nd, ActivateFirstLock(nd, s, now), now)
<1> DEFINE live    == {t \in nd.tickets : ~TimedOut(nd.ticket[t[2]], now)}
           first   == {t \in live : \A u \in live : u = t \/ Before(t, u)}
           expired == {t \in nd.tickets \ live : \A u \in live : Before(t, u)}
           left    == FailTickets(nd, s, expired)
           new     == ActivateFirstLock(nd, s, now)
<1>1. expired \in SUBSET nd.tickets /\ first \subseteq nd.tickets
  OBVIOUS
<1>2. left \in Node
  BY FailTicketsType
<1>3. /\ left.tickets = nd.tickets \ expired
      /\ left.entering = nd.entering
  BY <1>1, FailTicketsMaps
<1>4. \A r \in Requests : (\E t \in expired : t[2] = r) =>
          TimedOut(nd.ticket[r], now) /\ \E t \in nd.tickets : t[2] = r
  OBVIOUS
<1>5. \A r \in Requests :
          /\ left.ticket[r].obtention_timeout = nd.ticket[r].obtention_timeout
          /\ left.ticket[r].locked = nd.ticket[r].locked
          /\ left.ticket[r].lock_failed = nd.ticket[r].lock_failed \/ \E t \in expired : t[2] = r
  BY <1>1, FailTicketsKeeps
<1>6. new = [left EXCEPT !.ticket = [r \in Requests |->
            IF Grantable(left, s, r) /\ \E t \in first : t[2] = r
            THEN ActivateLock(left, r, now)
            ELSE left.ticket[r]]]
  BY DEF ActivateFirstLock
<1> HIDE DEF live, first, expired, left, new
<1>7. /\ new.tickets = left.tickets
      /\ new.entering = left.entering
      /\ \A r \in Requests : new.ticket[r] =
            IF Grantable(left, s, r) /\ \E t \in first : t[2] = r
            THEN ActivateLock(left, r, now)
            ELSE left.ticket[r]
  BY <1>2, <1>6 DEF Node
<1>8. ASSUME NEW r \in Requests
      PROVE  LET is == ActivateLock(left, r, now)
             IN  /\ is.obtention_timeout = left.ticket[r].obtention_timeout
                 /\ is.locked
                 /\ is.lock_failed = left.ticket[r].lock_failed
  <2>1. left.ticket[r] \in Ticket
    BY <1>2 DEF Node
  <2> QED
    BY <2>1 DEF ActivateLock, Ticket
<1>9. ASSUME NEW r \in Requests
      PROVE  LET was == nd.ticket[r]
                 is  == new.ticket[r]
             IN  /\ is.obtention_timeout = was.obtention_timeout
                 /\ was.locked => is.locked
                 /\ is.locked /\ ~was.locked => \E t \in nd.tickets : t[2] = r
                 /\ is.lock_failed /\ ~was.lock_failed
                    => TimedOut(was, now) /\ \E t \in nd.tickets : t[2] = r
  <2>1. CASE Grantable(left, s, r) /\ \E t \in first : t[2] = r
    BY <2>1, <1>1, <1>4, <1>5, <1>7, <1>8
  <2>2. CASE ~(Grantable(left, s, r) /\ \E t \in first : t[2] = r)
    BY <2>2, <1>4, <1>5, <1>7
  <2> QED
    BY <2>1, <2>2
<1> QED
  BY <1>3, <1>7, <1>9 DEF Evolves, new

\* cleanup() evolves a node.
LEMMA CleanupEvolves ==
    ASSUME NEW nd \in Node, NEW s, NEW now \in Nat
    PROVE  Evolves(nd, Cleanup(nd, s, now), now)
<1> DEFINE expired == {t \in nd.tickets : TimedOut(nd.ticket[t[2]], now)}
           failed  == FailTickets(nd, s, expired)
           left    == IF expired = {} THEN nd ELSE ActivateFirstLock(failed, s, now)
           new     == Cleanup(nd, s, now)
<1>1. failed \in Node /\ expired \in SUBSET nd.tickets
  BY FailTicketsType
<1>2. failed.tickets = nd.tickets \ expired /\ failed.entering = nd.entering
  BY <1>1, FailTicketsMaps
<1>3. \A r \in Requests : (\E t \in expired : t[2] = r) =>
          TimedOut(nd.ticket[r], now) /\ \E t \in nd.tickets : t[2] = r
  OBVIOUS
<1>4. \A r \in Requests :
          /\ failed.ticket[r].obtention_timeout = nd.ticket[r].obtention_timeout
          /\ failed.ticket[r].locked = nd.ticket[r].locked
          /\ failed.ticket[r].lock_timeout = nd.ticket[r].lock_timeout
          /\ failed.ticket[r].lock_failed = nd.ticket[r].lock_failed \/ \E t \in expired : t[2] = r
  BY <1>1, FailTicketsKeeps
<1>5. \A r \in Requests : TimedOut(failed.ticket[r], now) <=> TimedOut(nd.ticket[r], now)
  BY <1>4 DEF TimedOut
<1>6. Evolves(failed, ActivateFirstLock(failed, s, now), now)
  BY <1>1, ActivateFirstLockEvolves
<1>7. left \in Node
  BY <1>1, ActivateFirstLockType
<1>8. new = [left EXCEPT !.entering = {r \in @ : ~TimedOut(left.ticket[r], now)}]
  BY DEF Cleanup
<1>9. expired # {} => left = ActivateFirstLock(failed, s, now)
  OBVIOUS
<1>10. expired = {} => left = nd
  OBVIOUS
<1> HIDE DEF expired, failed, left, new
<1>11. /\ new.tickets = left.tickets
       /\ new.entering \subseteq left.entering
       /\ new.ticket = left.ticket
  BY <1>7, <1>8 DEF Node
<1>12. CASE expired = {}
  BY <1>10, <1>11, <1>12 DEF Evolves, new
<1>13. CASE expired # {}
  <2>1. left.tickets \subseteq nd.tickets /\ left.entering \subseteq nd.entering
    BY <1>2, <1>6, <1>9, <1>13 DEF Evolves
  <2>2. ASSUME NEW r \in Requests
        PROVE  LET was == nd.ticket[r]
                   is  == left.ticket[r]
               IN  /\ is.obtention_timeout = was.obtention_timeout
                   /\ was.locked => is.locked
                   /\ is.locked /\ ~was.locked => \E t \in nd.tickets : t[2] = r
                   /\ is.lock_failed /\ ~was.lock_failed
                      => TimedOut(was, now) /\ \E t \in nd.tickets : t[2] = r
    BY <1>2, <1>3, <1>4, <1>5, <1>6, <1>9, <1>13 DEF Evolves
  <2> QED
    BY <1>11, <2>1, <2>2 DEF Evolves, new
<1> QED
  BY <1>12, <1>13

=============================================================================
