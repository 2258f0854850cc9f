---------------------------- MODULE StreamReplay ----------------------------
(***************************************************************************)
(* How a client that opens a session in the middle of a turn catches up    *)
(* with the turn's stream (stream_hub.go, stream_hub_replay.go).           *)
(*                                                                         *)
(* The hub keeps the events of the running turn.  An emitter appends an    *)
(* event, reads which clients are live, and sends it to each of them; a    *)
(* goroutine per session.ready replays the buffer: a first frame with      *)
(* reset, then batches until nothing is new, then the client is live.      *)
(* Appending, reading the recipients and collecting a batch are critical   *)
(* sections of the hub's mutex; sending is not, so the steps interleave.   *)
(* Frames to one client arrive in the order they are sent.                 *)
(*                                                                         *)
(* An event is <<epoch, seq>>: `epoch' counts the buffers the session has  *)
(* had and seq is NextEventSeq within one, so the buffer of the current    *)
(* epoch is its first `count' events.  Coalescing of shell output and the  *)
(* contents of events are left out.                                        *)
(***************************************************************************)
EXTENDS Naturals, Sequences

CONSTANTS
  Clients,
  Readies,        \* session.ready requests
  ReadyClient,    \* the client each of them comes from
  Emitters,       \* goroutines that call BroadcastSessionStream
  InitialEvents,  \* events in the buffer when the story begins
  MaxEvents,      \* bound: events emitted after that
  MaxQueueOps,    \* bound: queue edits
  MaxTurns        \* bound: turns

ASSUME ReplayAssumption ==
  /\ ReadyClient \in [Readies -> Clients]
  /\ InitialEvents \in Nat /\ MaxEvents \in Nat
  /\ MaxQueueOps \in Nat /\ MaxTurns \in Nat \ {0}

VARIABLES
  epoch, count,   \* the buffer
  phase,          \* the turn: "running", "done" sent, or "idle"
  turns,          \* turns started so far
  bound,          \* sessionClients: the clients that opened the session
  replay,         \* replayStates: status (or "none") and LastEventSeq
  ready,          \* each ReplayPending goroutine: place, batch and flags
  emitter,        \* each emitter: place, event and recipients left
  emitted,        \* events emitted so far
  queueOps,       \* queue edits so far
  tail            \* the transient rows each client shows

vars == <<epoch, count, phase, turns, bound, replay, ready, emitter, emitted,
          queueOps, tail>>

NoReplay == [status |-> "none", last |-> 0]
NoReplays == [c \in Clients |-> NoReplay]

(* Events i..j of the current buffer, in order.                            *)
Slice(i, j) == [k \in 1..(IF j < i THEN 0 ELSE j + 1 - i) |-> <<epoch, i + k - 1>>]

Shown(c) == {tail[c][i] : i \in 1..Len(tail[c])}

Event == Nat \X Nat

ReadyState == [at : {"new", "bound", "collect", "send", "over"},
               first : BOOLEAN, live : BOOLEAN, batch : Seq(Event)]
EmitterState == [at : {"idle", "stored", "sending"},
                 event : Event, to : SUBSET Clients]
ReplayState == [status : {"none", "replay", "live"}, last : Nat]

TypeOK ==
  /\ epoch \in Nat /\ count \in Nat
  /\ phase \in {"running", "done", "idle"} /\ turns \in 1..MaxTurns
  /\ bound \subseteq Clients
  /\ replay \in [Clients -> ReplayState]
  /\ ready \in [Readies -> ReadyState]
  /\ emitter \in [Emitters -> EmitterState]
  /\ emitted \in 0..MaxEvents /\ queueOps \in 0..MaxQueueOps
  /\ tail \in [Clients -> Seq(Event)]

Init ==
  /\ epoch = 1 /\ count = InitialEvents
  /\ phase = "running" /\ turns = 1
  /\ bound = {}
  /\ replay = NoReplays
  /\ ready = [r \in Readies |->
                [at |-> "new", first |-> TRUE, live |-> FALSE, batch |-> <<>>]]
  /\ emitter = [e \in Emitters |-> [at |-> "idle", event |-> <<0, 0>>, to |-> {}]]
  /\ emitted = 0 /\ queueOps = 0
  /\ tail = [c \in Clients |-> <<>>]

-----------------------------------------------------------------------------
(* Emitting (BroadcastSessionStream).                                      *)

(* Mutant of IsLive: does not skip clients that are catching up.           *)
IsBound(c) == c \in bound

IsLive(c) == c \in bound /\ replay[c].status # "replay"

(* The event of emitter e still has to be sent to these clients.           *)
Address(e, to) ==
  emitter' = [emitter EXCEPT ![e] =
                [at |-> IF to = {} THEN "idle" ELSE "sending",
                 event |-> emitter[e].event, to |-> to]]

AppendReplyEvent(e) ==
  /\ emitter[e].at = "idle" /\ emitted < MaxEvents
  /\ count' = count + 1
  /\ emitted' = emitted + 1
  /\ emitter' = [emitter EXCEPT ![e] =
                   [at |-> "stored", event |-> <<epoch, count + 1>>, to |-> {}]]
  /\ UNCHANGED <<epoch, phase, turns, bound, replay, ready, queueOps, tail>>

GetSessionClientIDs(e) ==
  /\ emitter[e].at = "stored"
  /\ Address(e, {c \in Clients : IsLive(c)})
  /\ UNCHANGED <<epoch, count, phase, turns, bound, replay, ready, emitted,
                 queueOps, tail>>

SendEvent(e, c) ==
  /\ emitter[e].at = "sending" /\ c \in emitter[e].to
  /\ tail' = [tail EXCEPT ![c] = Append(@, emitter[e].event)]
  /\ Address(e, emitter[e].to \ {c})
  /\ UNCHANGED <<epoch, count, phase, turns, bound, replay, ready, emitted,
                 queueOps>>

-----------------------------------------------------------------------------
(* Catching up (handleSessionReady, ReplayPending).                        *)

BindSessionClient(r) ==
  /\ ready[r].at = "new"
  /\ bound' = bound \cup {ReadyClient[r]}
  /\ ready' = [ready EXCEPT ![r].at = "bound"]
  /\ UNCHANGED <<epoch, count, phase, turns, replay, emitter, emitted, queueOps,
                 tail>>

EnterReplay(r) ==
  /\ ready[r].at = "bound"
  /\ replay' = [replay EXCEPT ![ReadyClient[r]] = [status |-> "replay", last |-> 0]]
  /\ ready' = [ready EXCEPT ![r].at = "collect"]
  /\ UNCHANGED <<epoch, count, phase, turns, bound, emitter, emitted, queueOps,
                 tail>>

(* Mutants of NothingNew: one event too early; and a replay state that     *)
(* somebody deleted is not the end.                                        *)
NothingNewButOne(c) == replay[c].status = "none" \/ replay[c].last + 1 >= count
NothingNewOfReplay(c) == replay[c].status # "none" /\ replay[c].last >= count

(* collectReplayStep: what the client has not been given yet, or nothing   *)
(* and the client is live.  A replay state that somebody deleted means     *)
(* live as well.                                                           *)
NothingNew(c) == replay[c].status = "none" \/ replay[c].last >= count

CollectNothing(r) ==
  /\ ready[r].at = "collect" /\ NothingNew(ReadyClient[r])
  /\ replay' = [replay EXCEPT ![ReadyClient[r]] =
                  IF @.status = "none" THEN @ ELSE [@ EXCEPT !.status = "live"]]
  /\ ready' = [ready EXCEPT ![r] =
                 [@ EXCEPT !.at = "send", !.live = TRUE, !.batch = <<>>]]
  /\ UNCHANGED <<epoch, count, phase, turns, bound, emitter, emitted, queueOps,
                 tail>>

CollectBatch(r) ==
  LET c == ReadyClient[r] IN
  /\ ready[r].at = "collect" /\ ~NothingNew(c)
  /\ replay' = [replay EXCEPT ![c] = [@ EXCEPT !.last = count]]
  /\ ready' = [ready EXCEPT ![r] =
                 [@ EXCEPT !.at = "send", !.batch = Slice(replay[c].last + 1, count)]]
  /\ UNCHANGED <<epoch, count, phase, turns, bound, emitter, emitted, queueOps,
                 tail>>

(* Mutant of SendReplayStep: one batch, without a look at what came since. *)
SendReplayOnce(r) ==
  LET c == ReadyClient[r] IN
  /\ ready[r].at = "send"
  /\ tail' = [tail EXCEPT ![c] =
                (IF ready[r].first THEN <<>> ELSE @) \o ready[r].batch]
  /\ ready' = [ready EXCEPT ![r] = [@ EXCEPT !.at = "over", !.first = FALSE]]
  /\ UNCHANGED <<epoch, count, phase, turns, bound, replay, emitter, emitted,
                 queueOps>>

(* The first frame carries reset: the client drops its tail, then applies  *)
(* the events.  Later batches are appended.                                *)
SendReplayStep(r) ==
  LET c == ReadyClient[r] IN
  /\ ready[r].at = "send"
  /\ tail' = [tail EXCEPT ![c] =
                (IF ready[r].first THEN <<>> ELSE @) \o ready[r].batch]
  /\ ready' = [ready EXCEPT ![r] =
                 [@ EXCEPT !.at = IF ready[r].live THEN "over" ELSE "collect",
                           !.first = FALSE]]
  /\ UNCHANGED <<epoch, count, phase, turns, bound, replay, emitter, emitted,
                 queueOps>>

-----------------------------------------------------------------------------
(* What else touches the replay states.                                    *)

(* Enqueue, remove, update, promote and pop all clear them.                *)
EditQueue ==
  /\ queueOps < MaxQueueOps
  /\ queueOps' = queueOps + 1
  /\ replay' = NoReplays
  /\ UNCHANGED <<epoch, count, phase, turns, bound, ready, emitter, emitted, tail>>

(* broadcastSessionDone: clients retire their transient rows, replaying    *)
(* ones included.                                                          *)
BroadcastSessionDone ==
  /\ phase = "running"
  /\ phase' = "done"
  /\ tail' = [c \in Clients |-> IF c \in bound THEN <<>> ELSE tail[c]]
  /\ UNCHANGED <<epoch, count, turns, bound, replay, ready, emitter, emitted,
                 queueOps>>

(* ClearSessionPending.  It waits for replaying clients, but two seconds   *)
(* at most, so it can come at any time.                                    *)
ClearSessionPending ==
  /\ phase = "done"
  /\ phase' = "idle"
  /\ epoch' = epoch + 1 /\ count' = 0
  /\ replay' = NoReplays
  /\ UNCHANGED <<turns, bound, ready, emitter, emitted, queueOps, tail>>

(* setPendingUserAt of the next turn.                                      *)
StartTurn ==
  /\ phase = "idle" /\ turns < MaxTurns
  /\ phase' = "running" /\ turns' = turns + 1
  /\ epoch' = epoch + 1 /\ count' = 0
  /\ replay' = NoReplays
  /\ UNCHANGED <<bound, ready, emitter, emitted, queueOps, tail>>

-----------------------------------------------------------------------------
EmitStep(e) ==
  \/ GetSessionClientIDs(e)
  \/ \E c \in Clients : SendEvent(e, c)

ReadyStep(r) ==
  \/ EnterReplay(r) \/ CollectNothing(r) \/ CollectBatch(r) \/ SendReplayStep(r)

Next ==
  \/ \E e \in Emitters : AppendReplyEvent(e) \/ EmitStep(e)
  \/ \E r \in Readies : BindSessionClient(r) \/ ReadyStep(r)
  \/ EditQueue
  \/ BroadcastSessionDone \/ ClearSessionPending \/ StartTurn

Spec == Init /\ [][Next]_vars

(* Goroutines that were started run on; nobody has to emit, attach or end. *)
FairSpec ==
  /\ Spec
  /\ \A e \in Emitters : WF_vars(EmitStep(e))
  /\ \A r \in Readies : WF_vars(ReadyStep(r))

-----------------------------------------------------------------------------
(* A client for which nothing is under way: attached, no replay running,   *)
(* and no event stored but not yet sent.                                   *)
Settled(c) ==
  /\ c \in bound
  /\ \A r \in Readies : ReadyClient[r] = c => ready[r].at \in {"new", "over"}
  /\ \A e \in Emitters : emitter[e].at # "stored" /\ c \notin emitter[e].to

(* Nothing has disturbed a client's replay: no queue edit and no next turn *)
(* has cleared it, and no second session.ready of the client has run into  *)
(* it.  (Each of the three does lose or repeat events.)                    *)
Undisturbed(c) ==
  /\ queueOps = 0 /\ turns = 1
  /\ \A r, s \in Readies :
       ReadyClient[r] = c /\ ReadyClient[s] = c /\ r # s
       => "new" \in {ready[r].at, ready[s].at}

HasAll(c) == \A i \in 1..count : <<epoch, i>> \in Shown(c)

(* No event of the running turn is missing from a settled client's tail.   *)
NoEventLost ==
  phase = "running" =>
    \A c \in Clients : Settled(c) /\ Undisturbed(c) => HasAll(c)

(* Refuted: nor after a queue edit, a turn, or a second session.ready.     *)
NoEventLostEver ==
  phase = "running" => \A c \in Clients : Settled(c) => HasAll(c)

(* While the turn runs, replayed and live events do not overtake each      *)
(* other in a client's tail.                                               *)
Later(a, b) == a[1] > b[1] \/ (a[1] = b[1] /\ a[2] > b[2])

TailInOrder ==
  phase = "running" => \A c \in Clients : Undisturbed(c) =>
    \A i, k \in 1..Len(tail[c]) : i < k => ~Later(tail[c][i], tail[c][k])

(* A client that live broadcasts skip has a goroutine that will make it    *)
(* live again: nothing leaves it cut off from the stream.                  *)
ReplayHasRunner ==
  \A c \in Clients : replay[c].status = "replay" =>
    \E r \in Readies : ReadyClient[r] = c /\ ready[r].at \in {"collect", "send"}
                       /\ ~ready[r].live

(* Every session.ready ends with its client live, whatever is emitted.     *)
ReadyEnds ==
  \A r \in Readies : ready[r].at = "bound" ~> ready[r].at = "over"
=============================================================================
