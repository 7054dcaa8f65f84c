----------------------------- MODULE MCSnapLock -----------------------------
(***************************************************************************)
(* The values of SnapLock's constants for TLC.                             *)
(***************************************************************************)
EXTENDS SnapLock

CONSTANTS A, B, C       \* computers

\* Where the clients run: all on A, or the first on A and the others on B.
AllOnA    == [c \in Clients |-> A]
FirstOnA  == [c \in Clients |-> IF c = 1 THEN A ELSE B]

\* Durations (never less than 3) and obtention timeouts: short ones expire
\* within MaxTime, long ones never do.
Minimum == [c \in Clients |-> 3]
Short   == [c \in Clients |-> 2]
Mixed   == [c \in Clients |-> IF c = 1 THEN 2 ELSE 5]
Long    == [c \in Clients |-> 9]

\* The violation runs that need one order of events: a client asks only when
\* the other one has the lock and no message is on its way.  Fewer behaviours,
\* each of them one of Spec.
Quiet       == \A s \in Servers : inbox[s] = <<>> /\ \A t \in Servers : link[s][t] = <<>>
OneAfterTwo == client'[1].service # client[1].service => client[2].state = "locked" /\ Quiet
TwoAfterOne == client'[2].service # client[2].service => client[1].state = "locked" /\ Quiet

=============================================================================
