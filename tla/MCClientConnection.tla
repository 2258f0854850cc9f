------------------------- MODULE MCClientConnection -------------------------
(* TLC instances of ClientConnection: the .cfg files give the constants,   *)
(* a tick is a second.                                                     *)
EXTENDS ClientConnection
=============================================================================
