--------------------------------- MODULE MCHub ---------------------------------
(* Instances of Hub for TLC.                                                  *)
EXTENDS Hub

CONSTANTS c1, c2, c3, u1

\* Successive sessions of one user.
OneUser == [c \in Conn |-> u1]

\* AllowAllAuthorizer.
EveryJoin == User \X Room
================================================================================
