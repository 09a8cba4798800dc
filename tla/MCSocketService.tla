-------------------------- MODULE MCSocketService --------------------------
(* The socket service for TLC.                                             *)
EXTENDS SocketService

\* The descriptors the kernel gives to clients, after those of the service.
TwoFds == {3, 4}

\* The connections are numbered, and the second is made for the first time when
\* the first has been made: they are alike otherwise.
TwoConns == {1, 2}
InTurn   == \A c, d \in Conn : c < d /\ d \in MadeConn' \ MadeConn => c \in MadeConn \cup asked

InTurnSpec == Init /\ [][Next /\ InTurn]_vars /\ Fairness
============================================================================
