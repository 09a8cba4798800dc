--------------------------- MODULE MCEventService ---------------------------
(* The event service for TLC: a client may register for a key and for the  *)
(* prefix of it that is above it in the tree.                              *)
EXTENDS EventService

MCKey      == {<<1>>, <<1, 2>>}
MCEventKey == {<<1, 2>>}
=============================================================================
