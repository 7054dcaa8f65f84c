------------------------------ MODULE LockSpec ------------------------------
(***************************************************************************)
(* What snap_lock promises its users: a lock that at most one client holds *)
(* at a time.  A client asks for it, then either obtains it, when nobody   *)
(* holds it, or gives up; it holds it until it releases it or until the    *)
(* date it was told the lock ends.                                         *)
(***************************************************************************)
CONSTANT Clients

VARIABLE state      \* what lock() and is_locked() tell each client

LockStates == {"idle", "waiting", "holding"}

LockInit == state = [c \in Clients |-> "idle"]

Ask(c)     == /\ state[c] = "idle"
              /\ state' = [state EXCEPT ![c] = "waiting"]

Obtain(c)  == /\ state[c] = "waiting"
              /\ \A d \in Clients : state[d] # "holding"
              /\ state' = [state EXCEPT ![c] = "holding"]

GiveUp(c)  == /\ state[c] = "waiting"
              /\ state' = [state EXCEPT ![c] = "idle"]

Release(c) == /\ state[c] = "holding"
              /\ state' = [state EXCEPT ![c] = "idle"]

LockNext == \E c \in Clients : Ask(c) \/ Obtain(c) \/ GiveUp(c) \/ Release(c)

Spec == LockInit /\ [][LockNext]_state

=============================================================================
