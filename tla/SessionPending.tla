--------------------------- MODULE SessionPending ---------------------------
(***************************************************************************)
(* One entry of StreamHub.pendingSessions (stream_hub_types.go), and what  *)
(* each method of the hub does to it under the hub's mutex.                *)
(*                                                                         *)
(* The entry is the server's whole knowledge of "is this session busy":    *)
(* `active' is the solid lamp and the reservation gate, `turnId' the       *)
(* identity (MindFSID) of the turn that lit it, `awaiting' the hollow lamp *)
(* (an ask_user question without an answer), `queue' the messages that     *)
(* wait for the conversation and `frozen' the brake a cancel pulls.  Every *)
(* operator is one critical section, so callers compose them into actions. *)
(***************************************************************************)
EXTENDS Naturals, Sequences

CONSTANT NoTurn     \* the empty MindFSID: "no identity"

(* The map has no entry.  Its fields have Go's zero values, which is what  *)
(* ensurePendingSessionLocked starts a new entry from.                     *)
Absent == [exists |-> FALSE, active |-> FALSE, turnId |-> NoTurn,
           awaiting |-> FALSE, queue |-> <<>>, frozen |-> FALSE]

Entries(Turn, Msg) ==
  [exists : BOOLEAN, active : BOOLEAN, turnId : Turn \cup {NoTurn},
   awaiting : BOOLEAN, queue : Seq(Msg), frozen : BOOLEAN]

Ensure(p) == [p EXCEPT !.exists = TRUE]

Queued(q, m) == \E i \in 1..Len(q) : q[i] = m

(* No message waits twice.                                                 *)
Distinct(q) == \A i, k \in 1..Len(q) : q[i] = q[k] => i = k

Position(q, m) == CHOOSE i \in 1..Len(q) : q[i] = m

(* Mutant of Without: the rest is copied down, the slice not shortened.    *)
WithoutReslicing(q, m) ==
  IF Queued(q, m)
    THEN [k \in 1..Len(q) |-> IF k < Position(q, m) THEN q[k]
                              ELSE IF k < Len(q) THEN q[k+1] ELSE NoTurn]
    ELSE q

Without(q, m) ==
  IF Queued(q, m)
    THEN [k \in 1..(Len(q) - 1) |-> IF k < Position(q, m) THEN q[k] ELSE q[k+1]]
    ELSE q

ToFront(q, m) ==
  [k \in 1..Len(q) |-> IF k = 1 THEN m
                       ELSE IF k <= Position(q, m) THEN q[k-1] ELSE q[k]]

-----------------------------------------------------------------------------
(* Reservation and queue (stream_hub_queue.go).                            *)

(* The branch of reserveOrQueueSessionMessage that finds nobody active.    *)
(* The identity of an entry that outlived its turn stays where it is.      *)
Reserve(p) == [Ensure(p) EXCEPT !.active = TRUE]

Enqueue(p, m) == [Ensure(p) EXCEPT !.queue = Append(p.queue, m)]

(* Mutant of Remove: cuts the head, whichever message was named.           *)
RemoveHead(p, m) == [p EXCEPT !.queue = Tail(p.queue)]

Remove(p, m) == [p EXCEPT !.queue = Without(p.queue, m)]

Promote(p, m) == [p EXCEPT !.queue = ToFront(p.queue, m), !.frozen = FALSE]

Freeze(p) == [p EXCEPT !.frozen = p.frozen \/ p.queue # <<>>]

Unfreeze(p) == [p EXCEPT !.frozen = FALSE]

(* PopQueuedSessionMessage(key, ""): the only form the server calls.       *)
CanPop(p) == p.queue # <<>> /\ ~p.active /\ ~p.frozen

(* Mutant of Pop: does not reserve the conversation for what it pops.      *)
PopUnreserved(p) == [p EXCEPT !.queue = Tail(p.queue)]

Pop(p) == [p EXCEPT !.active = TRUE, !.queue = Tail(p.queue)]

-----------------------------------------------------------------------------
(* Turn identity and lamps (stream_hub_pending.go, stream_hub.go).         *)

(* Mutant of SetPending: an entry that exists keeps its old identity.      *)
SetPendingKeepsTurn(p, t) ==
  [Ensure(p) EXCEPT !.active = TRUE, !.turnId = IF p.exists THEN p.turnId ELSE t,
                    !.awaiting = FALSE]

SetPending(p, t) ==
  [Ensure(p) EXCEPT !.active = TRUE, !.turnId = t, !.awaiting = FALSE]

AskOpened(p) == [Ensure(p) EXCEPT !.awaiting = TRUE]

(* Mutant of AskClosed: deletes the entry although messages wait in it.    *)
AskClosedDropsQueue(p) == IF p.active THEN [p EXCEPT !.awaiting = FALSE] ELSE Absent

(* MarkSessionAwaiting(.., false): the entry goes when nothing holds it.   *)
AskClosed(p) ==
  IF p.active \/ p.queue # <<>> THEN [p EXCEPT !.awaiting = FALSE] ELSE Absent

(* A done is refused only when both sides have an identity and they differ.*)
TurnMatches(p, t) ==
  \/ ~p.exists
  \/ t = NoTurn
  \/ p.turnId = NoTurn
  \/ p.turnId = t

(* Mutant of Clear: an entry kept for its queue keeps its lamp.            *)
ClearKeepsLamp(p, t) ==
  IF ~TurnMatches(p, t) \/ p.awaiting \/ p.queue # <<>> THEN p ELSE Absent

(* ClearSessionPending after its wait for replaying clients.               *)
Clear(p, t) ==
  IF ~TurnMatches(p, t) THEN p
  ELSE IF p.awaiting \/ p.queue # <<>> THEN [p EXCEPT !.active = FALSE]
  ELSE Absent
=============================================================================
