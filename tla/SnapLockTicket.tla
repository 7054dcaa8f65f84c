--------------------------- MODULE SnapLockTicket ---------------------------
(***************************************************************************)
(* The memory of one snaplock daemon for one lock (one object_name): the   *)
(* map f_entering_tickets, the map f_tickets and the snaplock_ticket       *)
(* objects they point to, with the methods of snaplock_ticket and the      *)
(* functions of snaplock that change them without waiting for a message    *)
(* (activate_first_lock and cleanup).                                      *)
(*                                                                         *)
(* Everything here is a pure operator: a node is a record                  *)
(*   entering : the requests in f_entering_tickets[object_name]            *)
(*   tickets  : the pairs <<number, request>> of f_tickets[object_name]    *)
(*   ticket   : the snaplock_ticket object of each request                 *)
(* and an operator returns the node the C++ function leaves.               *)
(***************************************************************************)
EXTENDS Integers, FiniteSets

CONSTANTS
    Servers,    \* the computers that run a snaplock daemon
    Clients,    \* the threads that lock; the order of these numbers is the
                \* order of the strings "<server name>/<tid>"
    Home,       \* the computer each client runs on
    Duration,   \* lock_duration of each client, in seconds; the daemon refuses
                \* less than SNAP_LOCK_MINIMUM_TIMEOUT, which is 3
    MaxLocks    \* bound: the number of locks one client asks for

ASSUME ServersAssumption  == IsFiniteSet(Servers) /\ Servers # {}
ASSUME ClientsAssumption  == Clients \subseteq Nat
ASSUME HomeAssumption     == Home \in [Clients -> Servers]
ASSUME DurationAssumption == Duration \in [Clients -> {d \in Nat : d >= 3}]
ASSUME MaxLocksAssumption == MaxLocks \in Nat

(***************************************************************************)
(* A request is one LOCK: the client and the unique number of its lock     *)
(* service ("lock_<tid>_<number>").  The messages between daemons name it  *)
(* by its entering key "<server name>/<tid>" only, that is by its client.  *)
(***************************************************************************)
Requests == Clients \X (1 .. MaxLocks)
Key(r)   == r[1]

\* The data members of snaplock_ticket that change after its construction,
\* and the obtention timeout it is constructed with.
Ticket == [ obtention_timeout   : Nat,
            entered_count       : Nat,
            get_max_ticket      : BOOLEAN,
            max_ticket_count    : Nat,
            our_ticket          : Nat,
            added_ticket        : BOOLEAN,
            ticket_added_count  : Nat,
            added_ticket_quorum : BOOLEAN,
            still_entering      : SUBSET Requests,
            ticket_ready        : BOOLEAN,
            locked              : BOOLEAN,
            lock_timeout        : Nat,
            lock_failed         : BOOLEAN ]

Node == [ entering : SUBSET Requests,
          tickets  : SUBSET (Nat \X Requests),
          ticket   : [Requests -> Ticket] ]

\* Slips that the runs must notice (see the README) are defined next to the
\* definition they would replace.

\* A constructor that forgets the obtention timeout.
NewTicketWithoutTimeout(timeout) ==
    [ obtention_timeout   |-> 0,
      entered_count       |-> 0,
      get_max_ticket      |-> FALSE,
      max_ticket_count    |-> 0,
      our_ticket          |-> 0,
      added_ticket        |-> FALSE,
      ticket_added_count  |-> 0,
      added_ticket_quorum |-> FALSE,
      still_entering      |-> {},
      ticket_ready        |-> FALSE,
      locked              |-> FALSE,
      lock_timeout        |-> 0,
      lock_failed         |-> FALSE ]

\* The constructor.
NewTicket(timeout) ==
    [ obtention_timeout   |-> timeout,
      entered_count       |-> 0,
      get_max_ticket      |-> FALSE,
      max_ticket_count    |-> 0,
      our_ticket          |-> 0,
      added_ticket        |-> FALSE,
      ticket_added_count  |-> 0,
      added_ticket_quorum |-> FALSE,
      still_entering      |-> {},
      ticket_ready        |-> FALSE,
      locked              |-> FALSE,
      lock_timeout        |-> 0,
      lock_failed         |-> FALSE ]

EmptyNode == [ entering |-> {},
               tickets  |-> {},
               ticket   |-> [r \in Requests |-> NewTicket(0)] ]

-----------------------------------------------------------------------------
(* The two maps.                                                           *)

\* find(): the request of client c in f_entering_tickets, as a set of at
\* most one element.
Entering(nd, c) == {r \in nd.entering : Key(r) = c}

\* A slip: a map that keeps one entering request per object_name.
AllocateAlone(nd, r, timeout) ==
    [nd EXCEPT !.entering = {r}, !.ticket[r] = NewTicket(timeout)]

\* f_entering_tickets[object_name][key] = std::make_shared<snaplock_ticket>():
\* the map has one entry per client, a new request replaces an older one.
Allocate(nd, r, timeout) ==
    [nd EXCEPT !.entering  = (@ \ Entering(nd, Key(r))) \cup {r},
               !.ticket[r] = NewTicket(timeout)]

\* Ticket keys "<number>/<server name>/<tid>" compare as strings: by number,
\* then by entering key.
Before(t, u) == \/ t[1] < u[1]
                \/ t[1] = u[1] /\ Key(t[2]) < Key(u[2])

\* The entries of f_tickets under the key of number n and client c.
TicketsAt(nd, n, c) == {t \in nd.tickets : t[1] = n /\ Key(t[2]) = c}

-----------------------------------------------------------------------------
(* The methods of snaplock_ticket.                                         *)

\* A slip: more than a quorum is waited for.
EnteredBeyondQuorum(tk, q) ==
    IF tk.get_max_ticket
    THEN tk
    ELSE [tk EXCEPT !.entered_count  = @ + 1,
                    !.get_max_ticket = tk.entered_count + 1 > q]

\* entered(): one more LOCKENTERED; q is snaplock::quorum().
Entered(tk, q) ==
    IF tk.get_max_ticket
    THEN tk
    ELSE [tk EXCEPT !.entered_count  = @ + 1,
                    !.get_max_ticket = tk.entered_count + 1 >= q]

\* A slip: the ticket takes the largest number, not the one after.
MaxTicketReused(tk, id, q) ==
    LET largest == IF id > tk.our_ticket THEN id ELSE tk.our_ticket
        quorate == tk.max_ticket_count + 1 >= q
    IN  IF tk.added_ticket
        THEN tk
        ELSE [tk EXCEPT !.our_ticket       = largest,
                        !.max_ticket_count = @ + 1,
                        !.added_ticket     = quorate]

\* max_ticket(): one more MAXTICKET; at the quorum the ticket takes the
\* number after the largest one and add_ticket() is called.
MaxTicketReceived(tk, id, q) ==
    LET largest == IF id > tk.our_ticket THEN id ELSE tk.our_ticket
        quorate == tk.max_ticket_count + 1 >= q
    IN  IF tk.added_ticket
        THEN tk
        ELSE [tk EXCEPT !.our_ticket       = IF quorate THEN largest + 1 ELSE largest,
                        !.max_ticket_count = @ + 1,
                        !.added_ticket     = quorate]

\* ticket_added(): one more TICKETADDED; at the quorum the requests that are
\* entering at this moment are copied.
TicketAddedReceived(tk, still_entering, q) ==
    LET quorate == tk.ticket_added_count + 1 >= q
    IN  IF tk.added_ticket_quorum
        THEN tk
        ELSE [tk EXCEPT !.ticket_added_count  = @ + 1,
                        !.added_ticket_quorum = quorate,
                        !.still_entering      = IF quorate THEN still_entering ELSE @]

\* A slip: the obtention timeout also ends a lock that was granted.
TimedOutWhileLocked(tk, now) == tk.obtention_timeout < now

\* timed_out(): a lock that was granted here lasts until lock_timeout, any
\* other ticket until its obtention timeout.
TimedOut(tk, now) == (IF tk.locked THEN tk.lock_timeout ELSE tk.obtention_timeout) < now

\* A slip: the ticket is ready when the first of the entering requests left.
RemoveEnteringFirst(nd, tk, c, now) ==
    IF /\ tk.added_ticket_quorum
       /\ ~tk.ticket_ready
       /\ \E r \in tk.still_entering : Key(r) = c
    THEN [tk EXCEPT !.still_entering = {}, !.ticket_ready = TRUE]
    ELSE tk

\* remove_entering(): client c is no longer entering; the requests that timed
\* out go at the same time, and an empty list makes the ticket ready.
RemoveEntering(nd, tk, c, now) ==
    LET left == {r \in tk.still_entering : Key(r) # c /\ ~TimedOut(nd.ticket[r], now)}
    IN  IF /\ tk.added_ticket_quorum
           /\ ~tk.ticket_ready
           /\ \E r \in tk.still_entering : Key(r) = c
        THEN [tk EXCEPT !.still_entering = left,
                        !.ticket_ready   = (left = {})]
        ELSE tk

\* A slip: the date of the end of the lock is computed the wrong way round.
ActivateLockBackwards(nd, r, now) ==
    [nd.ticket[r] EXCEPT !.locked       = TRUE,
                         !.lock_timeout = Duration[Key(r)] - now]

\* activate_lock(): whether a ticket is granted when it is the first one of
\* daemon s, and the ticket it becomes (the LOCKED message is sent by the
\* caller's action, see Notify in module SnapLock).
Grantable(nd, s, r) == /\ nd.ticket[r].ticket_ready
                       /\ ~nd.ticket[r].locked
                       /\ ~nd.ticket[r].lock_failed
                       /\ Home[Key(r)] = s

ActivateLock(nd, r, now) ==
    [nd.ticket[r] EXCEPT !.locked       = TRUE,
                         !.lock_timeout = Duration[Key(r)] + now]

-----------------------------------------------------------------------------
(* The functions of snaplock that work on the maps.                        *)

\* lock_failed() on, then erase() of, each ticket of D by daemon s.
FailTickets(nd, s, D) ==
    [nd EXCEPT !.tickets = @ \ D,
               !.ticket  = [r \in Requests |->
                   IF Home[Key(r)] = s /\ \E t \in D : t[2] = r
                   THEN [nd.ticket[r] EXCEPT !.lock_failed = TRUE]
                   ELSE nd.ticket[r]]]

\* A slip: every ticket that is ready is activated, not only the first.
ActivateEveryLock(nd, s, now) ==
    LET live == {t \in nd.tickets : ~TimedOut(nd.ticket[t[2]], now)}
        left == FailTickets(nd, s, nd.tickets \ live)
    IN  [left EXCEPT !.ticket = [r \in Requests |->
            IF Grantable(left, s, r) /\ \E t \in live : t[2] = r
            THEN ActivateLock(left, r, now)
            ELSE left.ticket[r]]]

\* activate_first_lock(): the tickets that timed out ahead of the first live
\* one fail, then that one is activated.
ActivateFirstLock(nd, s, now) ==
    LET live    == {t \in nd.tickets : ~TimedOut(nd.ticket[t[2]], now)}
        first   == {t \in live : \A u \in live : u = t \/ Before(t, u)}
        expired == {t \in nd.tickets \ live : \A u \in live : Before(t, u)}
        left    == FailTickets(nd, s, expired)
    IN  [left EXCEPT !.ticket = [r \in Requests |->
            IF Grantable(left, s, r) /\ \E t \in first : t[2] = r
            THEN ActivateLock(left, r, now)
            ELSE left.ticket[r]]]

\* cleanup(): every ticket that timed out fails, the first of the others is
\* activated if one did, and the entering requests that timed out go.
Cleanup(nd, s, now) ==
    LET expired == {t \in nd.tickets : TimedOut(nd.ticket[t[2]], now)}
        left    == IF expired = {}
                   THEN nd
                   ELSE ActivateFirstLock(FailTickets(nd, s, expired), s, now)
    IN  [left EXCEPT !.entering = {r \in @ : ~TimedOut(left.ticket[r], now)}]

\* get_max_ticket(): the largest number in f_tickets (0 when there is none),
\* as a set of one element.  get_ticket_number() is f_our_ticket, which only
\* the daemon that received the LOCK ever assigns: the number in the ticket
\* key plays no part.
LastTicket(nd) ==
    LET numbers == {nd.ticket[t[2]].our_ticket : t \in nd.tickets} \cup {0}
    IN  {n \in numbers : \A m \in numbers : m <= n}

=============================================================================
