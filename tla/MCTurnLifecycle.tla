--------------------------- MODULE MCTurnLifecycle ---------------------------
(* TLC instances of TurnLifecycle: the sets are given by the .cfg files;   *)
(* messages are interchangeable, so are requests of one kind.              *)
EXTENDS TurnLifecycle, TLC

MessageSymmetry == Permutations(UserMsgs)
=============================================================================
