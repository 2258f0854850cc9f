------------------------- MODULE MCClientTranscript -------------------------
(* Small instances of ClientTranscript for TLC.                            *)
EXTENDS ClientTranscript
=============================================================================
