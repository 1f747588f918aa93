-------------------------------- MODULE MCServer -------------------------------
(* Instances of Server for TLC.  Rooms play no part in admission and shutdown. *)
EXTENDS Server

CONSTANTS c1, c2, u1

\* All sessions are successive sessions of one user.
OneUser == [c \in Conn |-> u1]
================================================================================
