-------------------------- MODULE MCMessageRouting --------------------------
(***************************************************************************)
(* The values of MessageRouting's constants for TLC.                       *)
(***************************************************************************)
EXTENDS MessageRouting

CONSTANTS A, B, C, D,  \* computers
          lockd        \* a service

\* Two local networks of two computers, A and B, C and D, and two links between
\* them: a broadcast takes two paths to the computer across.
Square  == [c \in Computers |-> IF c \in {A, D} THEN {B, C} ELSE {A, D}]
TwoLans == [c \in Computers |-> IF c \in {A, B} THEN "east" ELSE "west"]

\* D has two addresses: a private one, which it takes for its own and which C has for
\* it, and a public one, by which B knows it.  The others have one each.
Known(c, y) == IF y = D /\ TwoLans[c] = TwoLans[y] THEN <<"private", y>> ELSE <<"public", y>>

AllAddresses == {"private", "public"} \X Computers
ByNetwork    == [c \in Computers |-> [y \in Computers |-> Known(c, y)]]
OwnNetwork   == [c \in Computers |-> Known(c, c)]

\* The service runs on the computers A and D, and is expected on D.
OnAAndD == [c \in Computers |-> IF c \in {A, D} THEN {lockd} ELSE {}]
OnD     == [c \in Computers |-> IF c = D THEN {lockd} ELSE {}]

\* Broadcasts from two ends of the square, and inside of a local network; messages
\* for the service on D, for that on A and for that of any computer; and a
\* broadcast that names a server.
FromTheCorners ==
    [origin : {A}, service : {"*"}, server : {"*"}]
        \cup [origin : {D}, service : {"*", "."}, server : {"*"}]
        \cup [origin : {C}, service : {"?"}, server : {D, "*"}]
        \cup [origin : {B, D}, service : {lockd}, server : {D}]
        \cup [origin : {C}, service : {lockd}, server : {A, "*"}]

=============================================================================
