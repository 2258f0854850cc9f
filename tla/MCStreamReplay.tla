--------------------------- MODULE MCStreamReplay ---------------------------
(* TLC instances of StreamReplay.                                          *)
EXTENDS StreamReplay

CONSTANTS c1, c2, r1, r2

(* Both requests from one client, or one request per client.               *)
SameClient == [r \in Readies |-> c1]
OneEach == [r \in Readies |-> IF r = r1 THEN c1 ELSE c2]
=============================================================================
