---------------------------- MODULE TurnRecovery ----------------------------
(***************************************************************************)
(* How one turn talks to its agent session: the first send, the bounded    *)
(* recovery after a failure, and the stop requests that reach it meanwhile *)
(* (usecase/session_send.go from the registered session to the result of   *)
(* the send, session_recovery.go, CancelSessionTurn of session.go).        *)
(*                                                                         *)
(* This is what TurnLifecycle calls one "running" turn.  A stop here has   *)
(* already passed the target check: it names this turn.  It interrupts the *)
(* agent session (CancelCurrentTurn), which knows only the send that is in *)
(* flight (types.TurnCanceler); the turn's own context is cancelled only   *)
(* when the runtime refuses.                                               *)
(*                                                                         *)
(* The names of the state machine carry a prefix, so that one module can   *)
(* extend this one and TurnLifecycle.                                      *)
(***************************************************************************)
EXTENDS Naturals

CONSTANTS
  Stops,        \* stop requests that name this turn
  MaxAttempts   \* sessionRecoveryAttempts

ASSUME RecoveryAssumption == MaxAttempts \in Nat \ {0}

VARIABLES
  at,            \* the turn: before a send, in it, in the recovery delay, over
  attempt,       \* 0 for the first send, then the recovery attempts
  spoke,         \* sawAssistantChunk
  sends,         \* sends that reached the agent
  prompts,       \* those of them that carried the prompt, not "continue"
  sendCancelled, \* the context of the send in flight is cancelled
  turnCancelled, \* the turn's context is cancelled
  stop,          \* where the handler of each stop is
  result         \* what SendMessage will report

recoveryVars ==
  <<at, attempt, spoke, sends, prompts, sendCancelled, turnCancelled, stop, result>>
sendVars == <<sends, prompts, sendCancelled>>

RecoveryTypeOK ==
  /\ at \in {"ready", "sending", "waiting", "over"}
  /\ attempt \in 0..MaxAttempts
  /\ spoke \in BOOLEAN
  /\ sends \in 0..(MaxAttempts + 1) /\ prompts \in 0..(MaxAttempts + 1)
  /\ sendCancelled \in BOOLEAN /\ turnCancelled \in BOOLEAN
  /\ stop \in [Stops -> {"new", "found", "done"}]
  /\ result \in {"none", "ok", "canceled", "failed"}

RecoveryInit ==
  /\ at = "ready" /\ attempt = 0
  /\ spoke = FALSE
  /\ sends = 0 /\ prompts = 0
  /\ sendCancelled = FALSE /\ turnCancelled = FALSE
  /\ stop = [s \in Stops |-> "new"]
  /\ result = "none"

-----------------------------------------------------------------------------
(* The turn.                                                               *)

(* runtime.SendMessage begins: its context is a child of the turn's.  The  *)
(* first send carries the prompt; a recovery sends "continue" once the     *)
(* agent has spoken.                                                       *)
BeginSend ==
  /\ at = "ready"
  /\ at' = "sending"
  /\ sends' = sends + 1
  /\ prompts' = IF attempt = 0 \/ ~spoke THEN prompts + 1 ELSE prompts
  /\ sendCancelled' = turnCancelled
  /\ UNCHANGED <<attempt, spoke, turnCancelled, stop, result>>

AgentSpeaks ==
  /\ at = "sending"
  /\ spoke' = TRUE
  /\ UNCHANGED <<at, attempt, sendVars, turnCancelled, stop, result>>

End(r) ==
  /\ at' = "over" /\ result' = r
  /\ UNCHANGED <<attempt, spoke, sendVars, turnCancelled, stop>>

(* The agent finishes, perhaps just before it notices the cancellation.    *)
SendSucceeds == at = "sending" /\ End("ok")

(* The send reports context.Canceled: nobody retries.                      *)
SendCanceled == at = "sending" /\ sendCancelled /\ End("canceled")

(* Model rejected, login expired and the like: isNonRecoverableAgentError. *)
SendFailsForGood == at = "sending" /\ End("failed")

(* Mutant of GivesUp: resends although the agent has said nothing.         *)
GivesUpUnlessFirst == attempt > 0 /\ (turnCancelled \/ attempt = MaxAttempts)

(* An error worth a retry.  The first send is not retried while the agent  *)
(* has said nothing; a recovery attempt looks at the turn's context first. *)
GivesUp ==
  IF attempt = 0 THEN ~spoke ELSE turnCancelled \/ attempt = MaxAttempts

SendFails ==
  /\ at = "sending"
  /\ IF GivesUp
       THEN End("failed")
       ELSE /\ IF attempt = 0 THEN at' = "ready" /\ attempt' = 1
                              ELSE at' = "waiting" /\ attempt' = attempt
            /\ UNCHANGED <<spoke, sendVars, turnCancelled, stop, result>>

(* Mutant of DelayEnds: the delay listens to the context alone.            *)
DelayWithoutTimer ==
  /\ at = "waiting" /\ turnCancelled
  /\ at' = "ready" /\ attempt' = attempt + 1
  /\ UNCHANGED <<spoke, sendVars, turnCancelled, stop, result>>

(* waitForRecoveryDelay: the timer, or the turn's context.                 *)
DelayEnds ==
  /\ at = "waiting"
  /\ at' = "ready" /\ attempt' = attempt + 1
  /\ UNCHANGED <<spoke, sendVars, turnCancelled, stop, result>>

DelayCanceled == at = "waiting" /\ turnCancelled /\ End("canceled")

-----------------------------------------------------------------------------
(* A stop.                                                                 *)

(* getActiveTurn: the turn is still registered, with its agent session.    *)
StopFinds(s) ==
  /\ stop[s] = "new"
  /\ stop' = [stop EXCEPT ![s] = IF at = "over" THEN "done" ELSE "found"]
  /\ UNCHANGED <<at, attempt, spoke, sendVars, turnCancelled, result>>

(* CancelCurrentTurn of the runtime: cancels the send in flight, if any,   *)
(* and reports success either way.                                         *)
StopInterrupts(s) ==
  /\ stop[s] = "found"
  /\ stop' = [stop EXCEPT ![s] = "done"]
  /\ sendCancelled' = (sendCancelled \/ at = "sending")
  /\ UNCHANGED <<at, attempt, spoke, sends, prompts, turnCancelled, result>>

(* The runtime cannot be told: the turn's context is cancelled instead.    *)
StopRefused(s) ==
  /\ stop[s] = "found"
  /\ stop' = [stop EXCEPT ![s] = "done"]
  /\ turnCancelled' = TRUE
  /\ sendCancelled' = (sendCancelled \/ at = "sending")
  /\ UNCHANGED <<at, attempt, spoke, sends, prompts, result>>

-----------------------------------------------------------------------------
SendStep ==
  \/ BeginSend \/ SendSucceeds \/ SendCanceled \/ SendFailsForGood
  \/ SendFails \/ DelayEnds \/ DelayCanceled

StopStep(s) == StopFinds(s) \/ StopInterrupts(s) \/ StopRefused(s)

RecoveryNext == SendStep \/ AgentSpeaks \/ \E s \in Stops : StopStep(s)

RecoverySpec == RecoveryInit /\ [][RecoveryNext]_recoveryVars

(* The turn's goroutine runs, a send to the agent comes back some time,    *)
(* and a stop that was read is carried out; nobody has to press stop.      *)
FairRecoverySpec == RecoverySpec /\ WF_recoveryVars(SendStep)

-----------------------------------------------------------------------------
(* The user's message reaches the agent once: recovery goes on with what   *)
(* the agent has begun, and is not tried when the agent has begun nothing. *)
PromptSentOnce == prompts <= 1 /\ (sends > 1 => spoke)

(* Recovery gives up some time, so the send lock is released.              *)
TurnEnds == <>(at = "over")

(* A turn that was stopped is not resent by the recovery.                  *)
StoppedTurnIsNotResent ==
  [][(\E s \in Stops : stop[s] = "done") /\ sends > 0 => sends' = sends]_recoveryVars
=============================================================================
