----------------------------- MODULE MCSubAgents -----------------------------
(* TLC instances of SubAgents: the .cfg files give the constants.          *)
EXTENDS SubAgents
=============================================================================
