-------------------------- MODULE MCRequestDelivery -------------------------
(* TLC instances of RequestDelivery: the .cfg files give the constants.    *)
(* No definition tells one request from another, so they are symmetric.    *)
EXTENDS RequestDelivery, TLC

AnyRequest == Permutations(Req)

(* A repeat that was read from a connection that is gone has nobody to     *)
(* answer and changes nothing on the server: it may as well have answered  *)
(* before the connection broke, or not have been read.  Nothing follows    *)
(* such a state that does not follow one of those.                         *)
NoIdleRepeat == \A h \in handlers : h.stage = "repeat" => ~Stale(h.frame)
=============================================================================
