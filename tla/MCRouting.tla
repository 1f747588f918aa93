-------------------------------- MODULE MCRouting ------------------------------
(* Instances of Routing for TLC.                                              *)
EXTENDS Routing

CONSTANTS n1, n2, c1, c2, c3, u1, u2

\* c1 and c2 share a node, c3 is on another one.
Nodes == [c \in Conn |-> IF c = c3 THEN n2 ELSE n1]

\* c1 and c2 are successive sessions of one user.
Successive == [c \in Conn |-> IF c = c3 THEN u2 ELSE u1]
================================================================================
