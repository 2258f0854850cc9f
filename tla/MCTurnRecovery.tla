---------------------------- MODULE MCTurnRecovery ----------------------------
(* TLC instances of TurnRecovery: the constants are given by the .cfg      *)
(* files; sessionRecoveryAttempts is 3 in the code.                        *)
EXTENDS TurnRecovery
=============================================================================
