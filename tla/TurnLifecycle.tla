---------------------------- MODULE TurnLifecycle ----------------------------
(***************************************************************************)
(* The life of the turns of one session: how a message is submitted,       *)
(* reserved or queued, run under the session's send lock, finished, and    *)
(* how the next queued message is started.                                 *)
(*                                                                         *)
(* Every message and every background run (a scheduled task or a kanban    *)
(* stage that talks to the same session) is a goroutine with a program     *)
(* counter; a step is one critical section of the hub's mutex, one use of  *)
(* the send lock, or one frame sent to a client.  The goroutines share     *)
(* only `pending' (the hub's entry for the session) and `activeTurn' (the  *)
(* holder of the send lock, registered in activeTurns while it holds it).  *)
(*                                                                         *)
(* Actors: ws_session_message.go (submit, run), ws_session_queue.go (queue *)
(* operations), ws.go (answer, cancel), appcontext_task_flags.go           *)
(* (EndSessionTurn), scheduled/tasks_runner.go and appcontext.go           *)
(* (background runs), usecase/session_send.go (SendMessage).               *)
(***************************************************************************)
EXTENDS SessionPending

CONSTANTS
  UserMsgs,   \* messages submitted over WebSocket or HTTP
  Commands,   \* those of them whose session type is "command": never reserved
  BgRuns,     \* scheduled-task runs and kanban stages on this session
  Cancels,    \* session.cancel requests
  SendNows    \* session.queue.send_now requests

ASSUME JobsAssumption ==
  /\ Commands \subseteq UserMsgs
  /\ UserMsgs \cap BgRuns = {}
  /\ NoTurn \notin UserMsgs \cup BgRuns
  /\ Cancels \cap SendNows = {}

Jobs == UserMsgs \cup BgRuns
Requests == Cancels \cup SendNows

VARIABLES
  pending,      \* the hub's entry for the session
  pc,           \* where the goroutine of each job is
  ident,        \* its local turnID: the identity OnStart gave it, if it ran
  activeTurn,   \* the job that holds the send lock and is in activeTurns
  handler,      \* the last job that attached its OnUpdate to the agent session
  lamp,         \* the last frame of a turn that clients got is a
                \* session.user_message, not a session.done
  rpc,          \* where the handler of each request is
  target,       \* cancel: the turn that ran when the request was read
  found,        \* the turn its handler found running later
  hit           \* the interrupts delivered so far: <<request, interrupted turn>>

vars == <<pending, pc, ident, activeTurn, handler, lamp, rpc, target,
          found, hit>>
requestVars == <<rpc, target, found, hit>>

(* Program counters, in the order a job goes through them.                 *)
Holding == {"preflight", "announcing", "opening", "running"}
Started == {"announcing", "opening", "running"}
Ending == {"erring", "settling", "gated", "notified"}
Live == {"reserved", "launched"} \cup Holding \cup Ending
PCs == {"fresh", "queued", "removed", "cleared", "over"} \cup Live
RPCs == {"new", "received", "promoted", "lookup", "popping",
         "runtime", "context", "failed", "done"}

TypeOK ==
  /\ pending \in Entries(Jobs, UserMsgs)
  /\ pc \in [Jobs -> PCs]
  /\ ident \in [Jobs -> Jobs \cup {NoTurn}]
  /\ activeTurn \in Jobs \cup {NoTurn}
  /\ handler \in Jobs \cup {NoTurn}
  /\ lamp \in BOOLEAN
  /\ rpc \in [Requests -> RPCs]
  /\ target \in [Requests -> Jobs \cup {NoTurn}]
  /\ found \in [Requests -> Jobs \cup {NoTurn}]
  /\ hit \subseteq Requests \X Jobs

Init ==
  /\ pending = Absent
  /\ pc = [j \in Jobs |-> "fresh"]
  /\ ident = [j \in Jobs |-> NoTurn]
  /\ activeTurn = NoTurn
  /\ handler = NoTurn
  /\ lamp = FALSE
  /\ rpc = [r \in Requests |-> "new"]
  /\ target = [r \in Requests |-> NoTurn]
  /\ found = [r \in Requests |-> NoTurn]
  /\ hit = {}

Goto(j, l) == pc' = [pc EXCEPT ![j] = l]

-----------------------------------------------------------------------------
(* Submitting (submitSessionMessage).                                      *)

(* Somebody is active: the message waits in the queue.                     *)
SubmitQueued(m) ==
  /\ pc[m] = "fresh" /\ m \notin Commands
  /\ pending.active
  /\ pending' = Enqueue(pending, m)
  /\ Goto(m, "queued")
  /\ UNCHANGED <<ident, activeTurn, handler, lamp, requestVars>>

SubmitReserved(m) ==
  /\ pc[m] = "fresh" /\ m \notin Commands
  /\ ~pending.active
  /\ pending' = Reserve(pending)
  /\ Goto(m, "reserved")
  /\ UNCHANGED <<ident, activeTurn, handler, lamp, requestVars>>

(* A command message skips the reservation altogether.                     *)
SubmitCommand(m) ==
  /\ pc[m] = "fresh" /\ m \in Commands
  /\ Goto(m, "reserved")
  /\ UNCHANGED <<pending, ident, activeTurn, handler, lamp, requestVars>>

(* A message that starts at once takes the brake off the queue, in a       *)
(* second critical section, and its runner goroutine begins.               *)
SubmitLaunches(m) ==
  /\ pc[m] = "reserved"
  /\ pending' = Unfreeze(pending)
  /\ Goto(m, "launched")
  /\ UNCHANGED <<ident, activeTurn, handler, lamp, requestVars>>

(* The scheduler or the kanban executor calls SendMessage directly: no     *)
(* reservation, no look at the entry.                                      *)
BackgroundLaunches(b) ==
  /\ pc[b] = "fresh"
  /\ Goto(b, "launched")
  /\ UNCHANGED <<pending, ident, activeTurn, handler, lamp, requestVars>>

-----------------------------------------------------------------------------
(* Running (SendMessage and the callbacks the runner gives it).            *)

TakeSendLock(j) ==
  /\ pc[j] = "launched" /\ activeTurn = NoTurn
  /\ activeTurn' = j
  /\ Goto(j, "preflight")
  /\ UNCHANGED <<pending, ident, handler, lamp, requestVars>>

(* OnStart: the user row is on disk, the entry now carries this turn.      *)
OnStart(j) ==
  /\ pc[j] = "preflight"
  /\ pending' = SetPending(AskClosed(pending), j)
  /\ ident' = [ident EXCEPT ![j] = j]
  /\ Goto(j, "announcing")
  /\ UNCHANGED <<activeTurn, handler, lamp, requestVars>>

(* The session.user_message frame reaches the clients.                     *)
Announce(j) ==
  /\ pc[j] = "announcing"
  /\ lamp' = TRUE
  /\ Goto(j, "opening")
  /\ UNCHANGED <<pending, ident, activeTurn, handler, requestVars>>

(* ensureAgentSession succeeded: the turn is findable with its session and *)
(* listens to it.  A command turn never has an agent session.              *)
AttachRuntime(j) ==
  /\ pc[j] = "opening" /\ j \notin Commands
  /\ handler' = j
  /\ Goto(j, "running")
  /\ UNCHANGED <<pending, ident, activeTurn, lamp, requestVars>>

(* SendMessage returns, with an error (model rejected, row not written,    *)
(* agent not opened, runtime failed) or without one; its defers            *)
(* unregister the turn and release the lock.                               *)
Return(j, l) ==
  /\ activeTurn' = NoTurn
  /\ Goto(j, l)
  /\ UNCHANGED <<pending, ident, handler, lamp, requestVars>>

(* Mutant of FailsEarly: the early return forgets the send lock.           *)
FailsEarlyLocked(j) ==
  /\ pc[j] = "preflight"
  /\ Goto(j, "erring")
  /\ UNCHANGED <<pending, ident, activeTurn, handler, lamp, requestVars>>

FailsEarly(j) == pc[j] = "preflight" /\ Return(j, "erring")
Fails(j) == pc[j] \in {"opening", "running"} /\ Return(j, "erring")
Finishes(j) == pc[j] \in {"opening", "running"} /\ Return(j, "settling")

(* Mutant of ReportError: a turn that failed skips EndSessionTurn.         *)
ReportErrorAndStop(j) ==
  /\ pc[j] = "erring"
  /\ pending' = Ensure(pending)
  /\ Goto(j, "over")
  /\ UNCHANGED <<ident, activeTurn, handler, lamp, requestVars>>

(* BroadcastSessionError appends to the entry, creating it if need be.     *)
ReportError(j) ==
  /\ pc[j] = "erring"
  /\ pending' = Ensure(pending)
  /\ Goto(j, "settling")
  /\ UNCHANGED <<ident, activeTurn, handler, lamp, requestVars>>

(* An update reaches BroadcastSessionUpdate.  A handler stays attached     *)
(* until the next turn replaces it, so updates also come after the end;    *)
(* a command reports its output itself while it runs.                      *)
AgentTalks == handler # NoTurn
CommandTalks == activeTurn \in Commands /\ pc[activeTurn] = "opening"

AgentAsks ==
  /\ AgentTalks
  /\ pending' = AskOpened(pending)
  /\ UNCHANGED <<pc, ident, activeTurn, handler, lamp, requestVars>>

AgentGotAnswer ==
  /\ AgentTalks
  /\ pending' = Ensure(AskClosed(pending))
  /\ UNCHANGED <<pc, ident, activeTurn, handler, lamp, requestVars>>

UpdateStreams ==
  /\ AgentTalks \/ CommandTalks
  /\ pending' = Ensure(pending)
  /\ UNCHANGED <<pc, ident, activeTurn, handler, lamp, requestVars>>

-----------------------------------------------------------------------------
(* Ending (EndSessionTurn, then startNextQueuedSessionMessage).            *)

(* Mutant of AfterEnd: nobody looks at the queue.                          *)
AfterEndIgnoresQueue(j) == "over"

(* A background runner is over after EndSessionTurn; the runner of a       *)
(* message still has to look at the queue.                                 *)
AfterEnd(j) == IF j \in UserMsgs THEN "cleared" ELSE "over"

(* PendingTurnIDMatches: a done of another turn is dropped whole.          *)
EndGate(j) ==
  /\ pc[j] = "settling"
  /\ Goto(j, IF TurnMatches(pending, ident[j]) THEN "gated" ELSE AfterEnd(j))
  /\ UNCHANGED <<pending, ident, activeTurn, handler, lamp, requestVars>>

(* broadcastSessionDone: clients clear the lamp by session key.            *)
BroadcastDone(j) ==
  /\ pc[j] = "gated"
  /\ lamp' = FALSE
  /\ Goto(j, "notified")
  /\ UNCHANGED <<pending, ident, activeTurn, handler, requestVars>>

ClearPending(j) ==
  /\ pc[j] = "notified"
  /\ pending' = Clear(pending, ident[j])
  /\ Goto(j, AfterEnd(j))
  /\ UNCHANGED <<ident, activeTurn, handler, lamp, requestVars>>

StartNext(m) ==
  /\ pc[m] = "cleared"
  /\ IF CanPop(pending)
       THEN /\ pending' = Pop(pending)
            /\ pc' = [pc EXCEPT ![m] = "over", ![Head(pending.queue)] = "launched"]
       ELSE pending' = pending /\ Goto(m, "over")
  /\ UNCHANGED <<ident, activeTurn, handler, lamp, requestVars>>

-----------------------------------------------------------------------------
(* Clients: queue edits, answers, cancel, send now.                        *)

RemoveQueued(m) ==
  /\ pc[m] = "queued"
  /\ pending' = Remove(pending, m)
  /\ Goto(m, "removed")
  /\ UNCHANGED <<ident, activeTurn, handler, lamp, requestVars>>

(* handleSessionAnswerQuestion, once the runtime took the answer.          *)
UserAnswers ==
  /\ pending.awaiting
  /\ pending' = AskClosed(pending)
  /\ UNCHANGED <<pc, ident, activeTurn, handler, lamp, requestVars>>

RGoto(r, l) == rpc' = [rpc EXCEPT ![r] = l]

(* The read loop notes which turn runs; the handler is a goroutine.        *)
CancelReceived(c) ==
  /\ rpc[c] = "new"
  /\ target' = [target EXCEPT ![c] = activeTurn]
  /\ RGoto(c, "received")
  /\ UNCHANGED <<pending, pc, ident, activeTurn, handler, lamp, found, hit>>

CancelFreezes(c) ==
  /\ rpc[c] = "received"
  /\ pending' = Freeze(pending)
  /\ RGoto(c, "lookup")
  /\ UNCHANGED <<pc, ident, activeTurn, handler, lamp, target, found, hit>>

SendNowPromotes(s, m) ==
  /\ rpc[s] = "new"
  /\ Queued(pending.queue, m)
  /\ pending' = Promote(pending, m)
  /\ RGoto(s, "promoted")
  /\ UNCHANGED <<pc, ident, activeTurn, handler, lamp, target, found, hit>>

SendNowDispatches(s) ==
  /\ rpc[s] = "promoted"
  /\ RGoto(s, IF pending.active THEN "lookup" ELSE "popping")
  /\ UNCHANGED <<pending, pc, ident, activeTurn, handler, lamp, target, found, hit>>

SendNowPops(s) ==
  /\ rpc[s] = "popping"
  /\ IF CanPop(pending)
       THEN /\ pending' = Pop(pending)
            /\ Goto(Head(pending.queue), "launched")
       ELSE UNCHANGED <<pending, pc>>
  /\ RGoto(s, "done")
  /\ UNCHANGED <<ident, activeTurn, handler, lamp, target, found, hit>>

(* Mutant of StaleTarget: a cancel read while nothing ran is not pinned.   *)
StaleUnlessIdle(r) ==
  r \in Cancels /\ target[r] # NoTurn /\ target[r] # activeTurn

(* A pinned cancel is stale unless the very turn it names still runs.      *)
StaleTarget(r) == r \in Cancels /\ target[r] # activeTurn

(* CancelSessionTurn looks the turn up; what it will interrupt is the      *)
(* agent session if one is attached, else the turn's own context.          *)
CancelLookup(r) ==
  /\ rpc[r] = "lookup"
  /\ IF activeTurn = NoTurn \/ StaleTarget(r)
       THEN RGoto(r, "done") /\ UNCHANGED found
       ELSE /\ found' = [found EXCEPT ![r] = activeTurn]
            /\ RGoto(r, IF pc[activeTurn] = "running" THEN "runtime" ELSE "context")
  /\ UNCHANGED <<pending, pc, ident, activeTurn, handler, lamp, target, hit>>

(* The agent session is the conversation's, not the turn's: an interrupt   *)
(* reaches whichever turn is sending on it now.                            *)
OnRuntime == {j \in Jobs : pc[j] = "running"}

InterruptRuntime(r) ==
  /\ rpc[r] = "runtime"
  /\ hit' = hit \cup {<<r, j>> : j \in OnRuntime}
  /\ RGoto(r, "done")
  /\ UNCHANGED <<pending, pc, ident, activeTurn, handler, lamp, target, found>>

(* The runtime refuses: the turn's own context is cancelled instead and    *)
(* the caller is told (a cancel takes its freeze back).                    *)
InterruptRefused(r) ==
  /\ rpc[r] = "runtime"
  /\ hit' = hit \cup {<<r, j>> : j \in {found[r]} \cap {activeTurn}}
  /\ RGoto(r, IF r \in Cancels THEN "failed" ELSE "done")
  /\ UNCHANGED <<pending, pc, ident, activeTurn, handler, lamp, target, found>>

CancelContext(r) ==
  /\ rpc[r] = "context"
  /\ hit' = hit \cup {<<r, j>> : j \in {found[r]} \cap {activeTurn}}
  /\ RGoto(r, "done")
  /\ UNCHANGED <<pending, pc, ident, activeTurn, handler, lamp, target, found>>

CancelUnfreezes(c) ==
  /\ rpc[c] = "failed"
  /\ pending' = Unfreeze(pending)
  /\ RGoto(c, "done")
  /\ UNCHANGED <<pc, ident, activeTurn, handler, lamp, target, found, hit>>

-----------------------------------------------------------------------------
(* What a runner does on its own, once launched.                           *)
RunnerStep(j) ==
  \/ TakeSendLock(j) \/ OnStart(j) \/ Announce(j)
  \/ AttachRuntime(j) \/ FailsEarly(j) \/ Fails(j) \/ Finishes(j)
  \/ ReportError(j) \/ EndGate(j) \/ BroadcastDone(j) \/ ClearPending(j)

SubmitStep(m) ==
  \/ SubmitQueued(m) \/ SubmitReserved(m) \/ SubmitCommand(m)

AgentStep == AgentAsks \/ AgentGotAnswer \/ UpdateStreams

CancelStep(c) == CancelReceived(c) \/ CancelFreezes(c) \/ CancelUnfreezes(c)

SendNowStep(s) ==
  \/ \E m \in UserMsgs : SendNowPromotes(s, m)
  \/ SendNowDispatches(s) \/ SendNowPops(s)

InterruptStep(r) ==
  \/ CancelLookup(r) \/ InterruptRuntime(r) \/ InterruptRefused(r)
  \/ CancelContext(r)

Next ==
  \/ \E m \in UserMsgs : SubmitStep(m) \/ SubmitLaunches(m) \/ StartNext(m)
                         \/ RemoveQueued(m)
  \/ \E b \in BgRuns : BackgroundLaunches(b)
  \/ \E j \in Jobs : RunnerStep(j)
  \/ \E c \in Cancels : CancelStep(c)
  \/ \E s \in SendNows : SendNowStep(s)
  \/ \E r \in Requests : InterruptStep(r)
  \/ AgentStep
  \/ UserAnswers

Spec == Init /\ [][Next]_vars

(* Goroutines run, the send lock is handed on (sync.Mutex does not starve  *)
(* a waiter), and an agent's turn ends; nobody has to submit, remove,      *)
(* answer or cancel anything.                                              *)
Fairness ==
  /\ \A j \in Jobs : WF_vars(RunnerStep(j)) /\ SF_vars(TakeSendLock(j))
  /\ \A m \in UserMsgs : WF_vars(SubmitLaunches(m)) /\ WF_vars(StartNext(m))
  /\ \A c \in Cancels : WF_vars(CancelFreezes(c) \/ CancelUnfreezes(c))
  /\ \A s \in SendNows : WF_vars(SendNowDispatches(s) \/ SendNowPops(s))
  /\ \A r \in Requests : WF_vars(InterruptStep(r))

FairSpec == Spec /\ Fairness
-----------------------------------------------------------------------------
(* Safety, for every mix of user messages, commands and background runs.   *)

(* The solid lamp never stays on for nobody: whenever the entry is active  *)
(* some live goroutine has still to run EndSessionTurn, and its identity   *)
(* cannot be refused (appcontext_task_flags.go: every ending edge goes     *)
(* through the one terminator).                                            *)
LampHasOwner ==
  pending.active =>
    \E j \in Jobs : pc[j] \in Live /\ ident[j] \in {NoTurn, pending.turnId}

(* The queue holds exactly the accepted messages that neither started nor  *)
(* were withdrawn, each once: clearing or deleting the entry, promoting,   *)
(* answering and popping lose none and bring none back.                    *)
QueueIsExact ==
  /\ \A m \in UserMsgs : pc[m] = "queued" <=> Queued(pending.queue, m)
  /\ Distinct(pending.queue)

(* A cancel that was read while no turn ran never interrupts one           *)
(* (ws_upgrade.go takes the target in the read loop for this).             *)
IdleCancelIsHarmless ==
  \A c \in Cancels : (target[c] = NoTurn) => \A j \in Jobs : <<c, j>> \notin hit

(* Safety of a session only its users drive with chat messages.            *)

UserDriven == BgRuns = {} /\ Commands = {}

(* reserveOrQueueSessionMessage and the queue make one conversation: from  *)
(* its reservation to the clearing of its entry a message is alone.        *)
OneConversation ==
  \A m, n \in UserMsgs : pc[m] \in Live /\ pc[n] \in Live => m = n

(* While a turn runs the entry is lit for this turn, and clients that got  *)
(* its user_message still show the lamp: no other done put it out.         *)
RunningTurnIsLit ==
  \A j \in Jobs : pc[j] \in {"opening", "running"} =>
                    pending.active /\ pending.turnId = j /\ lamp

(* A turn starts only after the done of the turn before it was sent.       *)
TurnsDoNotOverlap ==
  \A j, k \in Jobs :
    /\ j # k
    /\ pc[k] \in Started
    => ~(ident[j] = j /\ pc[j] \in {"erring", "settling", "gated"})

(* The session keeps the promise of Conversation: the live message is the  *)
(* speaker, the hub's queue is the line.                                   *)
Speaker ==
  IF \E m \in UserMsgs : pc[m] \in Live
    THEN CHOOSE m \in UserMsgs : pc[m] \in Live ELSE NoTurn

Promise == INSTANCE Conversation
  WITH Msgs <- UserMsgs, NoMsg <- NoTurn, Drop <- Without, Front <- ToFront,
       line <- pending.queue, speaker <- Speaker,
       spoken <- {m \in UserMsgs : pc[m] \in {"cleared", "over"}},
       withdrawn <- {m \in UserMsgs : pc[m] = "removed"}

KeepsPromise == Promise!Spec

(* A cancel interrupts the turn that ran when it was read, or none.        *)
CancelHitsOnlyItsTarget ==
  \A c \in Cancels, j \in Jobs : <<c, j>> \in hit => j = target[c]

-----------------------------------------------------------------------------
(* Liveness.                                                               *)

(* A queued message leaves the queue unless a cancel froze it there.       *)
QueuedMessageStarts ==
  \A m \in UserMsgs : pc[m] = "queued" ~> (pc[m] # "queued" \/ pending.frozen)

(* Every lamp a client lit goes out again.                                 *)
LampGoesOut == lamp ~> ~lamp

(* Every launched goroutine ends, whoever else waits for the send lock.    *)
LaunchedJobEnds == \A j \in Jobs : pc[j] = "launched" ~> pc[j] = "over"
=============================================================================
