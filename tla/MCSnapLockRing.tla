--------------------------- MODULE MCSnapLockRing ---------------------------
(***************************************************************************)
(* The values of SnapLockRing's constants for TLC.                         *)
(***************************************************************************)
EXTENDS SnapLockRing

\* The neighbors of the configuration files: the computer with the smallest
\* address knows the others, and these do not know it, so that it takes a
\* GOSSIP before they connect; or the one with the largest address knows the
\* others.
SmallestKnows == [c \in Computers |-> IF c = 1 THEN Computers \ {1} ELSE {}]
LargestKnows  == [c \in Computers |-> {d \in Computers : d < c}]

=============================================================================
