---------------------------- MODULE MCSessionLog ----------------------------
(* TLC instance of SessionLog: the bounds are given by the .cfg file.      *)
EXTENDS SessionLog
=============================================================================
