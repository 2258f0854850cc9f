# MindFS: a TLA+ model of its session core and of its web client's connection

MindFS is a Go server (`src/server`) with a web client (`src/web`) that lets
several people and several devices talk to coding agents (Claude Code, Codex, ACP
agents) about a project directory.  A *session* is one conversation with one
agent; a *turn* is one message, what the agent does about it, and its end.  Turns
come from chat messages (WebSocket or HTTP), from scheduled tasks, from the kanban
executor, and from queued messages the server starts on its own.  Most of what is
hard in this code is at this point: who may run a turn now, what happens to the
messages that must wait, which turn a *stop* means, what a client that opens the
session in the middle of a turn gets to see, what is in the log when a turn, an import and
a crash meet - and, on the client's side, that a message survives a broken connection, that
the connection comes back, and that what is shown is what was said.

This directory holds the models of that core, the TLC configurations that check
them, and the TLAPS proofs about them.  `PROJECT.json` is the index: components,
runs, the code lines each definition models (`map`), the mutations each property
catches and the hazards.

Paths below are relative to `src/server/internal/` unless they begin with `src/`, or,
if they end in `.ts`, to `src/web/src/`.

## 1. Inventory

### 1.1 Components

| Component | Code | State | Operations | Hard behaviour | Module |
|---|---|---|---|---|---|
| Pending entry of a session | `api/stream_hub_types.go`, `stream_hub_pending.go`, `stream_hub_queue.go` | per session: active, MindFSID, awaiting, queue, frozen, under one mutex | reserve-or-queue, remove, promote, pop, freeze, unfreeze, set, clear, mark awaiting, match identity | three entrances submit at once; an entry outlives its turn and keeps its identity | `SessionPending` |
| Turn lifecycle | `api/ws_session_message.go`, `ws_session_message_queue.go`, `ws_session_queue.go`, `ws.go`, `appcontext_task_flags.go`; `api/usecase/session_send.go`, `session.go`, `session_turn_registry.go` | goroutines, send lock per session, registered active turn, attached update handler, lamps at the clients | submit, run, OnStart, end, start next, cancel, send now, answer | lock, done frame and entry are released at three moments; a cancel is carried out later than it is read | `TurnLifecycle` |
| Recovery of a failed send | `api/usecase/session_recovery.go`, `session_send.go`, `agent/types/turn.go` | attempt, did the agent speak, contexts of turn and send | send, retry, delay, stop | stop against retry; resending a prompt | `TurnRecovery` |
| Stream replay | `api/stream_hub.go`, `stream_hub_replay.go` | event buffer, bound clients, replay state per client | append, fan out, attach, drain, clear | fan-out and drain interleave; other operations delete the replay state | `StreamReplay` |
| Delivery of a message | `api/ws_broadcast.go`, `ws_session_message.go`; `app/useSendMessage.ts`, `pendingDraftRecovery.ts`, `realtimeWsSessionAccepted.ts`, `services/session/sessionConnectionOutbound.ts` | server: reserved request ids with their session; client: unanswered frames, drafts, what the composer is bound to | submit, reserve, create, refuse, record, confirm, hand over, repeat, resend, replay a draft, promote | a frame resent while its first copy runs; an answer, the connection or the server lost at any moment | `RequestDelivery` |
| Connection of the client | `services/session/sessionConnectionManager.ts` | one socket, four timers, probe failures, node | connect, open, close, retry, probe, watch, check | six causes act on one socket | `ClientConnection` |
| Transcript in the client | `app/useSessionLifecycle.ts`, `useRealtimeEvents.ts`, `realtimeWs*.ts`, `useReplyingSessionPoll.ts`, `services/session/sessionWindowFetch.ts`, `sessionExchangeMerge.ts` | rows in memory, lamp, load in flight, reusable window | open, load, merge, stream, reset, done, echo, poll | loads over HTTP overlap frames of the socket | `ClientTranscript` |
| Client registry of the server | `api/ws_upgrade.go` | connections, superseded connections | connect, supersede, unregister | old read loop against new connection | planned |
| Settling of updates | `api/ws_turn_tracker.go` | updates in flight per turn | begin, end, WaitIdle | updates after the end of the send | in `TurnLifecycle` as "updates at any time" |
| Sub-agent sessions | `api/usecase/session_subagents.go`, `session_subagent_synthetic.go`, `session_subagent_stream.go`; callbacks in `api/ws_session_message.go` | per turn: attached children with identity, closed, done sent; registration and entry of each child | attach, adopt, stream, report, close, finish all, drain, stop | three kinds of goroutines close one child; a child outlives its turn | `SubAgents` |
| Command sessions, transient slash commands | `api/usecase/session_command_shell.go` | shell, output limiter, send lock | run, output, stop | another holder of the send lock | a command is a job of `TurnLifecycle`; shell planned |
| Scheduled tasks | `scheduled/tasks_runner.go` | task list, running guard | tick, run, update | lost update of the task list; turn without reservation | turn in `TurnLifecycle`; store planned |
| Kanban executor | `api/appcontext.go`, `kanban/` | board, stage, worktree | start stage, move | turn without reservation | turn in `TurnLifecycle` |
| Agent pool | `agent/pool.go`, `pool_idle.go`, `pool_open.go`, `pool_config.go`; `api/usecase/session_repoint.go` | entries by agent and session: open handle, uses, closing mark; one lock per runtime group; closed | get or create, get, begin and end a use, release idle, close, move, kill, shut down | opening and closing are slow and happen outside of the mutex; release against use, shutdown against an opening | `AgentPool` |
| Agent runtimes | `agent/claude`, `agent/codex`, `agent/acp` | process, turn in flight | send, cancel, answer | cancel with nothing in flight | interrupt and outcome only |
| Session store | `session/manager_exchange_write.go`, `blocks_store.go`; `api/usecase/session_send.go`, `session_turn_identity*.go`, `external_sessions_sync*.go` | exchange log, block stream, agent binding; the agent's own transcript | append a row, append its blocks, bind; import what the log lacks | two writers of one log, which look first and write later; a crash between the writes of one turn | `SessionLog` |
| Rest of the web client | `src/web/src` | views, composer, settings, its view of the queue | render, edit | little of its own: the server decides | not modelled |
| Provider configuration, authentication, preferences, push, files, git, GitHub import, nodes, CLI, mobile shells | `api/agent_api_provider.go`, `auth/`, `webpush/`, `fs/`, ... | files, small stores behind one mutex | read, write | little state of their own | not modelled |

### 1.2 How they interact

* `submitSessionMessage` reserves the entry or enqueues, and starts
  `runSessionMessage` as a goroutine.  That calls `usecase.SendMessage`, which holds
  the session's **send lock** from its first to its last line.  Callbacks
  (`OnStart`, `OnUpdate`) go back into the hub.
* After `SendMessage` returned (**lock released**), the runner calls
  `EndSessionTurn` (**done frame**, then **entry cleared**), then
  `startNextQueuedSessionMessage` (**look at the queue**).  These four moments are
  four critical sections, and other goroutines run between them.
* Scheduled runs and kanban stages call `SendMessage` and `EndSessionTurn` directly:
  they share the send lock, but never reserve and never look at the queue.
* A stop is read in the connection's read loop, which notes the turn that runs,
  and carried out by a goroutine: freeze the queue, find the turn, compare,
  interrupt the *agent session* (shared by all turns of the session).
* A turn gets its agent session from the **pool**: the entry that is there (`Get`), or a new
  one (`GetOrCreate`); only when it is about to send does it register its use.  An idle loop,
  the user's release, a move of the session, a kill and the shutdown close entries.
* A turn of Claude's opens *child sessions* for its sub-agents.  They have no process of
  their own: the parent's reader feeds and closes them, and so do the parent's turn when it
  ends (`FinishAll` under the lock, a drain after it) and a stop of the child.
* A turn writes the user's row before it asks the agent and the agent's row when the send
  has returned; what was said goes to the block stream, in a write of its own.  Whoever reads
  the session may start an **import** of the agent's own transcript into the same log, under a
  lock of its own: the send lock does not keep it out.
* Emitters append to the session's buffer and fan out to live clients, while one
  goroutine per `session.ready` drains the buffer for its client.
* A message carries a request id.  The client keeps its frame until the server answers
  and sends it again on every new connection; the server runs it once and repeats the
  answer.  A first message is bound to a *draft* until the answer brings its session.
* The client shows what three sources tell it: windows of the log over HTTP, frames over
  the socket, and the reset that answers `session.ready` after a load.  Its *lamp* is lit
  and put out by frames, by sending, and by a poll; loads keep rows without a place in
  the log only while it is lit.

### 1.3 What makes it correct

* Pending entry: what waits in the queue is exactly what was accepted and neither
  started nor withdrawn; no operation on lamps or questions loses it.
* Turn lifecycle: one message holds the conversation; a lit lamp has somebody who
  will put it out; the lamp and the identity are those of the turn that runs; a turn
  begins after the previous one's done; a stop hits the turn it names or nothing; a
  queued message starts; the send lock is always handed on.
* Sub-agents: a child's output is written once per turn; while a child is open a stop finds it,
  and its lamp goes out with the turn that lit it, unless a late stop or a lost row of the turn
  before came in between; the lamp does go out.
* Recovery: the prompt reaches the agent once; attempts end; a stopped turn stays
  stopped.
* Agent pool: a session runs in one process at a time; a counted use keeps the release away;
  no process is left over, at shutdown neither; every call returns.
* Replay: a client that caught up misses no event; order is kept; no client stays
  cut off.
* Delivery: a message runs once; a draft becomes a session of its own request, in which, while
  the server lives, its message runs; no sent message is left without an answer on its way.
* Connection: a dead link is noticed in bounded time, a healthy one is not given up, the
  socket belongs to the node shown, and the connection comes back.
* Log: every block hangs on one row and has its identity; what can be recognised is stored
  once; an import leaves out nothing it has read.
* Transcript: each row of the log once and in order; a live tail equal to the hub's
  buffer; the echo of a message gives way to its row; after a reload the log is what is
  shown; the lamp of an idle session goes out; an answer that was shown stays.

The full list of what is hard to test, each at its line and with the properties that
cover it, is `hazards` in `PROJECT.json`.

## 2. Modules

```
SessionPending            one entry of the hub, one operator per method
   ^
TurnLifecycle  ---------> Conversation      (refinement: what a session promises)
   ^    ^                        ^
   |    TurnLifecycle_proofs     (with the refinement)
   MCTurnLifecycle
TurnRecovery              inside of one "running" turn of TurnLifecycle
   ^    ^-- TurnLifecycle_proofs,  MCTurnRecovery
StreamReplay              the event buffer while a turn runs
   ^    ^-- StreamReplay_proofs,   MCStreamReplay

SubAgents                 the children of several turns of one session, each with an
   ^    ^                 entry of SessionPending
   |    SubAgents_proofs
   MCSubAgents

SessionLog                what one turn after the other, and imports, write to disk
        ^-- SessionLog_proofs,  MCSessionLog

AgentPool                 the agent sessions the turns of all sessions run in
        ^-- AgentPool_proofs,   MCAgentPool

RequestDelivery           from the composer to submitSessionMessage, and back
        ^-- RequestDelivery_proofs,   MCRequestDelivery
ClientConnection          the socket RequestDelivery only opens and drops
        ^-- ClientConnection_proofs,  MCClientConnection
ClientTranscript          what a client shows of the turns and replays of the server
        ^-- ClientTranscript_proofs, MCClientTranscript
```

`RequestDelivery` ends where `TurnLifecycle` begins (`submitSessionMessage`), and
`ClientTranscript` reduces a turn to the writes and frames a client can tell apart, in
the order `TurnLifecycle` and `StreamReplay` establish: user row, events, assistant row,
done, clear.

### 2.1 SessionPending and TurnLifecycle

`SessionPending` has no variables: the entry is a record and each method of the hub
is an operator from entry to entry.  Since each method runs under the hub's mutex, an
action of `TurnLifecycle` applies one of them atomically.  Go's zero values are the
record `Absent`; `turnId = NoTurn` is the empty MindFSID.  Positions, texts,
timestamps and the copies sent to clients are left out; a message is a model value.

In `TurnLifecycle` every chat message, command and background run is a goroutine
with a program counter:

| `pc` | where the goroutine is |
|---|---|
| `fresh`, `queued`, `removed` | not submitted; waits in the queue; withdrawn |
| `reserved` | reservation won, queue not yet unfrozen (`ws_session_message.go:223-231`) |
| `launched` | runner started, waits for the send lock |
| `preflight` | holds the lock, before `OnStart` |
| `announcing`, `opening`, `running` | `OnStart` done; user message broadcast; agent session attached |
| `erring`, `settling` | `SendMessage` returned, lock released, `EndSessionTurn` not yet called |
| `gated`, `notified` | inside `EndSessionTurn`: identity accepted; done sent |
| `cleared`, `over` | entry cleared, queue not yet looked at; finished |

`activeTurn` is both the holder of the send lock and the entry in `activeTurns`:
`SendMessage` registers right after it locked and unregisters right before it
unlocks.  `ident` is the turn identity the runner passes to `EndSessionTurn`, empty
if `OnStart` never ran.  `handler` is the update callback attached to the agent
session, which stays attached after the turn; so updates and questions may come at any
time after the first turn (`AgentStep`), also those that recreate an entry.  `lamp` is
what clients show: on by a user message, off by a done frame.  Requests (`rpc`,
`target`, `found`, `hit`) are stops and send-nows: `target` is what the read loop noted,
`found` what the handler looked up, `hit` the interrupts that were delivered and whom
they reached.

An entry that is gone answers every method as the zero entry does, except that some
methods create it; `exists` keeps that apart.

### 2.2 Conversation

The promise of a session in four variables: the line, the speaker, what was spoken and
what was withdrawn.  `KeepsPromise` in `TurnLifecycle` is the refinement: the queue is
the line, the one live message is the speaker.  `Speaker` uses CHOOSE; in the runs
and theorems that use it at most one message is live (`OneConversation`), so it
is a unique choice and symmetry over messages is sound.  The promise lets a newcomer
speak before those who wait if nobody speaks at that moment: the code does that between
clearing the entry and looking at the queue, and nothing rules it out.

### 2.3 TurnRecovery

One turn from the first send to the result of `SendMessage`: what TurnLifecycle calls
`running`.  Which errors are worth a retry is a list of texts in the code and a
nondeterministic choice here.  `attempt = 0` is the first send; recovery attempts
count from 1 to `MaxAttempts` (3 in the code).  A stop here has already passed the
comparison with its target.

### 2.4 StreamReplay

An event is a pair of buffer epoch and sequence number; a buffer is its first `count`
events.  `AppendReplyEvent`, `GetSessionClientIDs` and `SendEvent` are the three steps
of `BroadcastSessionStream`; `BindSessionClient`, `EnterReplay`, `Collect...` and
`SendReplayStep` those of `handleSessionReady` and `ReplayPending`.  A frame is applied
when it is sent: frames to one client go through one ordered connection, so the order
of sending is the order of arrival.  `ClearSessionPending` waits for replaying
clients, but two seconds at most, so the model lets it come at any time.

`NoEventLost` and `TailInOrder` speak of clients whose replay nothing has disturbed
(`Undisturbed`): no queue edit and no next turn cleared the buffer or the replay state, and no
second `session.ready` of the same client shares it.  The run has all three; without the
premise the statement is `NoEventLostEver` (section 5).

### 2.5 RequestDelivery

| Variable | Code |
|---|---|
| `outbox`, `awaiting`, `attempts` | `pendingMessages`, `pendingRequestRef`, the replay counter of `pendingDraftRecovery.ts` |
| `bound`, `promoted` | `boundSessionByRootRef`; the key a draft became in `handleSessionAccepted` |
| `requests` | `WSHandler.requests`: seen, and the session recorded for the id |
| `handlers` | one goroutine per frame in `handleSessionMessage`, reserving first or answering as a repeat |
| `frames`, `answers`, `epoch` | what is on the wire, and the connection it was sent on |
| `created`, `turns`, `life` | sessions created and messages submitted, per life of the server |

`Connect` is the whole of `onopen`: replay of drafts, then the resend of every noted
frame.  `Drop` loses all answers and any subset of the frames; frames that were read
already go on, and their answers go nowhere (`Reply`).  The goroutine of a first frame takes
the steps of `handleSessionMessage` one by one, and a restart of the server may cut it off
between any two:

| `stage`, step | Code (`api/ws_session_message.go`) |
|---|---|
| `first`, `Create` | a frame without a key creates its session (84) |
| `first` or `ready`, `Refuse` | every error return up to 174: plan mode, the session, its worktree; the session is deleted again or kept |
| `ready` (`first` with a key), `Record` | `recordClientRequestSession` (180) |
| `recorded`, `Confirm` | `session.accepted` (181) |
| `answered`, `HandOver` | `submitSessionMessage` (215) |

`PromotedWhereItRuns` speaks of a message that is handed over or past every error return, as
long as the server lives that answered: a restart after the answer and before the hand-over
loses the message (`PromotedIsRun`, section 5).

### 2.6 ClientConnection

Time is part of this model: a tick is a second, a timer is the set of the ticks it has
left, and a timer that is due fires before the clock goes on.  Each callback is an action:
the app's `connect`/`disconnect`, `onopen`, `onmessage`, `onclose`, the reconnect and connect
timeouts, the probe timeout, the lifecycle check and the watchdog.  Two delays belong to the
network, not to the code: `Handshake` and `PongDelay`.  `onclose` opens the window of fast
reconnection just before it schedules, so the doubling of the delay up to
`maxReconnectDelayMs` is never used and not modelled.

### 2.7 ClientTranscript

A row is a place in the log (0 if it has none yet), a turn, an author and the chunks
streamed into it.  `Merge`, `Compose`, `Chunk` and `Claim` are the code's rules for putting rows
together; a load remembers the cache of the moment it was asked for, as
`restoreActiveSession` does.  The server's side is reduced to one turn after the other;
`HandleSessionReady` is the whole replay.  Of the messages at most one is the browser's
own, written while nothing is on its way to it; all others come from elsewhere.  `Select`
stands for the filters of the code; it and `Chunks` are recursive functions, so that proofs can
reason about them.

### 2.8 SubAgents

An *attachment* is a turn and a child: the `claudeSyntheticSubagent` the router of that turn
made for it.  `att` holds its identity, the identity noted in `subIDs`, and the flags
`closed` and `doneSent`.  Everything else is found by the child's key alone and shared
by all turns: the hub's `entry`, the registration (`reg`, `runtime`) and the log (`rows`).
Whether a late end of one turn spoils the child for the next is the question of this module.
A stop may name the attachment of any turn and be carried out whenever it gets to run, and any
row may be lost.  Three variables are history, read by no step: `lit`, the turn that last lit a
child; `robbed`, the attachments that a stop of an earlier turn's attachment unregistered;
`spoiled`, the attachments that a stop began to end or whose row was lost.  The properties use
them to name the one thing that may go wrong, and so say that nothing else does.

Each goroutine has a `job`: the step it takes next on one attachment.  The reader of the runtime
attaches (`register`, `bind`, `light`, `enlist`), streams and reports; every actor may end a
child:

| Steps | Code |
|---|---|
| `enter`, `mark` | `close` reads and sets `closed`, without a lock |
| `finish`, `write` | the first to set `doneSent` writes the row |
| `frame`, `gate`, `clear` | the final frame, then `EndSessionTurn` with the identity noted |
| `cut`, `gate`, `clear` | unregister by key, then `OnSubAgentTurnFinished` with the identity of the attachment |

A report of the sub-agent enters at `finish` and closes afterwards; a drain is `gate`, `clear`
alone.  An identity is the number `Mint` takes from the log; the parent's own entry and queue are
left to `TurnLifecycle`, and of the parent's turn only its phases remain, in the order of the send
lock.  One goroutine reads the runtime (`agent/claude/session_open.go:139`), so there is one
`Agent`.  A `subagent_result` names no child and may close another one
than its own; `Reports` lets any child be reported at any time.  The done frame to the
clients, between `gate` and `clear`, is left out.

### 2.9 AgentPool

An entry is a *handle*: the pool key (agent and session) and the number of its opening.
`sessions` is the map, `closing` the marks of the release, `uses` the callers counted in
`activeUses`, `live` what is open at the agent, in the map or not, and `lock` the runtime locks.
A caller is any goroutine; `at` is the place between two critical sections of the pool's
mutex where it is:

| `at` | Code |
|---|---|
| `check`, `wait` | `GetOrCreate` before the lock; waiting for `closeDone` of an entry that is being released |
| `openLock`, `opening`, `publish` | the runtime lock and the second look; `openSession`; the entry goes into the map, or is closed because the pool was |
| `got`, `use` | the caller has a session; between `BeginSessionUse` and the function it returns |
| `closeLock`, `killLock`, `downLock`, then `shut`, `downShut` | `Close`, `KillAgentProcess`, `CloseAll`: locks, then `takeSessions`, then each `Close` |
| `move`, `moveLock`, then `shut` | `RepointSession`: no use is counted; files are read; the session is closed |
| `releaseLock`, `release`, `settle` | `releaseSessionsDetailed`: locks, mark, close, forget or restore, wake |

`Peek` is `Get`, which also returns an entry that is being released; `GiveUp` ends a wait with the
caller's context, which may happen at any time and need not happen.  How long an entry has
been idle is left open, so the release may take any unused entries; `CloseAll` is called once, when
the server stops.  A `Close` of the pool that finds no entry locks nothing and may then take one
that was entered meanwhile, without the lock (`Stray`); `OneProcess` excuses what it is closing.

### 2.10 SessionLog

| Variable | Code |
|---|---|
| `log` | the rows of `exchanges.jsonl`, as the manager has them in memory |
| `blocks` | the entries of `blocks.jsonl`, each with the seq and the MindFSID it is joined by |
| `live` | the turn inside `SendMessage`, from its first look at the log to the agent state |
| `sync` | the import inside `SyncExternalSessionDelta`, with what is left of its delta |
| `bound`, `ctx` | the agent binding and its `agent_ctx_seq` |
| `agent`, `transcript` | the agent (external): what it was asked, and its own record |
| `texts`, `echoes` | what was said; whether the agent repeats the id a prompt came with |

| `live.at` | Code |
|---|---|
| `new`, `user body` | `persistUserTurnExchange`: row, then block |
| `ready`, `running` | agent session opened; prompt sent |
| `returned`, `agent body`, `state` | the agent's row, its block, `UpdateAgentState` (`session_send.go:390-437`) |

| `sync.at` | Code |
|---|---|
| `import` | the transcript is read and cut at `agent_ctx_seq` |
| `check`, `append`, `body` | `appendImportedExchange` per message: recorded?, row, block |
| `finish` | `UpdateAgentState` |

Appending a row mints its seq under the manager's mutex; everything between two such critical
sections is a step of its own.  `of` and `own` are ghosts: the message a row stands for, and
the row an import has just appended.  A crash ends turn and import and leaves the files; an
agent session that no turn has bound yet is lost with it.  Failed writes of blocks are logged
by the user's half of a turn and by imports, and end the agent's half.

A turn's answer is one message and the agent speaks ACP, whose messages have ids: for agents
without (Codex) the code compares texts instead, and Claude's import has a floor, a cursor and
a throttle; neither is modelled, nor are auxiliary rows, imported sub-agents, an agent session
that cannot be resumed and is opened anew, window reads, fork and repoint.

## 3. Runs

| Run | Instance | Distinct states | What it shows |
|---|---|---|---|
| `turn_user` | 3 messages, 1 stop, 1 send-now | 400 253 (with symmetry) | `TypeOK`, `QueueIsExact`, `OneConversation`, `RunningTurnIsLit`, `IdleCancelIsHarmless`, refinement of `Conversation` |
| `turn_live_user` | 3 messages, 1 send-now | 95 thousand | `QueuedMessageStarts` under fairness |
| `turn_mixed` | 1 message, 1 command, 1 background run, 1 send-now | 74 811 | `LampHasOwner`; under fairness `LampGoesOut`, `LaunchedJobEnds` |
| `turn_recovery` | 2 stops, 3 attempts | 513 | `PromptSentOnce`; under fairness `TurnEnds` |
| `replay` | 1 client attaches twice, 2 events, 1 queue edit, 2 turns | 351 thousand | `NoEventLost`, `TailInOrder`, `ReplayHasRunner`; under fairness `ReadyEnds` |
| `log` | 2 messages, 2 imports, 2 crashes or failed writes | 1.6 million | `BlocksNameTheirRow`, `StoredOnce`, `SyncedIsRecorded` |
| `resend` | 2 messages, 2 connections, 1 restart of the server between any two steps, 1 replay of each draft | 1.76 million (with symmetry and `NoIdleRepeat`) | `RunsOnce`, `PromotedWhereItRuns`, `NoneForgotten` |
| `link` | the code's times, 2 nodes, 3 calls of the app | 25 500 | `SilenceIsBounded`, `RightNode`, `HealthyLinkKept`; under fairness `Reconnects` |
| `view` | 2 turns, opened once, 1 connection lost, perhaps 1 own message | 3.5 million | `RowsInOrder`, `EchoRetires`, `LiveTail`, `CaughtUp` |
| `lamp` | 1 turn, opened twice, 1 connection lost, perhaps 1 own message | 605 thousand | under fairness `LampGoesOut` |
| `children` | 2 turns of the parent, 1 sub-agent, 1 stop of either turn's attachment, any row may be lost | 453 183 | `WrittenOnce`, `OnlyLateStopUnregisters`, `OnlyItsOwnTurnEnds`; under fairness `ChildLampGoesOut` |
| `pool` | 2 goroutines, 2 agents, 1 session, 2 openings, 1 failing release | 162 thousand | `ReleaseSparesUses`, `OneProcess`, `NothingLeaks`, `HandedOutOpen`; under fairness `CallsReturn` |

**Bounds.**  Nothing in `TurnLifecycle` counts, so the instance alone bounds it.  Three
messages are what the queue needs: one that runs, and two that wait, so that promote and
remove meet a queue whose head is not the named message.  Two jobs are enough for every
overlap of an ending turn with a starting one, a third lets a new submission come in
between.  `turn_mixed` has each kind of job once, all three contending for the lock.
One stop and one send-now in `turn_user` race each other for the same turn.
`StreamReplay` is bounded by `MaxEvents`, `MaxQueueOps` and `MaxTurns`: an event before
the attach (`InitialEvents`), one in each of the windows append/fan-out and
collect/send; a drain with two batches and an empty last step fits in.  Two clients that attach
once each while three events are emitted, with neither queue edit nor second turn, were checked as
well (478 thousand states).  `log` begins with a session nobody has spoken in or with one that
was imported (one message and its answer).  Two messages make one turn follow another, or a turn
follow words said past MindFS; two imports meet the same transcript twice; a crash and a failed
write, or two crashes, cut one message apart.
`resend` has three frames of one request in flight (submitted, replayed, resent), a second
message that meets the draft of the first, and a connection that breaks twice; one restart
is what it takes to forget the table.  The constraint `NoIdleRepeat` leaves out
repeats that were read from a connection that is gone: they have nobody to answer and change
nothing, so whatever the properties see is reached without them; unconstrained the run has 3.66 million states
and passes too.  `link` runs on the code's own numbers; `MaxOps` allows
connect, change of node, disconnect.  `view` has a turn that leaves rows behind and one that
follows; one connection is enough to lose any suffix of frames, since a new one starts from
nothing.  `children` has a turn that lights the child and one that adopts it, the reader, both
turns and a stop to close it.  Children share goroutines and nothing else, so one shows every race
for its registration, entry and log.  The two properties about adoption were searched further:
with late attaches `OnlyLateStopUnregisters` passes; with two stops, or with three turns, no
violation was found in the first eight million states.  For every size they are theorems
(section 4).  `pool` has two locks,
so that their order matters, and an opening beside every other call; an entry is opened,
released and opened again.  Its safety properties were also checked with three goroutines and
one agent (362 thousand states) or two (1.5 million).

**Deadlock.**  `resend`, `link` and `pool` check for deadlock: the user, the clock and the next
call can always go on.  The other configurations say `CHECK_DEADLOCK FALSE`: when every message is over
and every request answered, the modelled system rightly does nothing more.  That it
does not stop *earlier* is what `LaunchedJobEnds`, `QueuedMessageStarts`, `ReadyEnds`,
`TurnEnds`, `LampGoesOut` and `ChildLampGoesOut` say.

**Fairness.**  Goroutines that were started get to run: weak fairness of each runner,
submitter, handler, emitter and replay goroutine.  The send lock needs strong fairness of
`TakeSendLock`, since others may take it in between; Go's `sync.Mutex` hands the lock
to a waiter that starved for a millisecond.  An agent's turn is assumed to end (the
runner's weak fairness covers `Finishes` and `Fails`); without that assumption no lock
is ever released.  Users owe nothing: no fairness for submitting, removing, answering,
pressing stop, emitting or attaching.  In `ClientConnection` the clock goes on and timers that
are due fire; the network owes nothing.  In `ClientTranscript` requests are answered, frames
arrive, and the poll of `useReplyingSessionPoll.ts` (every five seconds while the page is
visible) goes on; nobody has to start or end a turn.  In `SubAgents` goroutines at work go on
and a turn of the parent ends; a sub-agent may fall silent for ever, and nobody has to press stop.
In `AgentPool` a goroutine inside a call goes on, agents answer an open or a close, and runtime
locks are as fair as the send lock; nobody has to call anything, to end a use or to give up.

**Restrictions of instances.**  `replay` starts with one event in the buffer: with an empty one
`NoEventLost` does not hold (section 5).  It has one emitter, since `TailInOrder` does not hold with two (section 5).  `turn_user`, `turn_live_user` and the theorems that assume
`UserDriven` have neither background runs nor commands, `turn_live_user` has no
stop, for the same reason.  `link` has a handshake shorter than the watchdog's period, since
`Reconnects` does not hold otherwise (section 5).  In `children` no child is attached
after its turn began to end (`LateAttach = FALSE`): `ChildLampGoesOut` and
`OnlyItsOwnTurnEnds` are refuted without it (section 5).  A message of the browser's own is written
only when no frame is on its way to it: a row of another client's message that arrives after the
echo is put behind it and is out of order until the next load.

## 4. Proofs

All theorems hold for every value of the constants.  Assumptions on constants:
`JobsAssumption` (messages, background runs and "no turn" are different things,
commands are messages, stops are not send-nows), `RecoveryAssumption` (at least one
attempt), `ReplayAssumption` (each request comes from a client; bounds are numbers),
`BoundsAssumption` of `RequestDelivery` and `TimesAssumption` of `ClientConnection` (the numbers
are numbers, periods and delays are not zero), `SubAgentsAssumption` (reader, turns and stops are
different things, identities are not "no turn"), `PoolAssumption` and `NoneAssumption` of
`AgentPool` (bounds are numbers; "no caller", "no handle" and "no key" are none),
`LogAssumption` of `SessionLog` and `TranscriptAssumption` of `ClientTranscript` (bounds are
numbers).

| Module | Theorems | Inductive invariant |
|---|---|---|
| `TurnLifecycle_proofs` | `TypeCorrect`, `QueueCorrect` | `QueueInv` = types and exact queue.  Type correctness of the queue needs its exactness: `Position` is a CHOOSE. |
| | `LampCorrect` | `LampInv` adds `IdentInv`: an identity is the turn's own or empty, and empty before `OnStart`.  Without it a done could be refused for ever. |
| | `ConversationCorrect`, `RunningCorrect`, `OverlapCorrect` (assume `UserDriven`) | `UserInv`: a live message means an active entry, a started one that the entry carries its identity, an announced one that the lamp is on |
| | `IdleCancelCorrect` | `CancelInv`: a stop with no target never gets past the comparison |
| | `Refinement` (assumes `UserDriven`): `Spec => KeepsPromise` | `UserInv` and `LampInv`: an active entry and a live message come together, so "somebody speaks" is what the hub tests |
| | of `TurnRecovery`: `RecoveryTypeCorrect`, `PromptCorrect` | `TurnInv`: sends equal the first send plus counted attempts; recovery began after the agent spoke; a turn that waits has an attempt left |
| `StreamReplay_proofs` | `ReplayTypeCorrect`, `RunnerCorrect` | `RunnerInv` adds `EarlyInv`: a goroutine that has not collected its last step is not marked live, so that the one that entered the replay is the one that ends it |
| | `NoEventLostCorrect` (assumes `InitialEvents # 0`) | `CaughtInv`: for a client that has been reset and that nothing disturbed, an event of the buffer is in its tail, or a replay that goes on has collected it and will send it, or will collect it, or an emitter has it in hand for a client that is live |
| | `TailInOrderCorrect` (assumes `OneEmitter`) | `OrderInv`: what a client's tail shows comes before what its replay has in hand, this before what it has not collected, and all of it before the event that the emitter sends to live clients |
| `RequestDelivery_proofs` | `DeliveryTypeCorrect`, `RunsOnceCorrect` | `Inv`: a goroutine between reservation and hand-over owns its id, has run nothing and has created what its stage says (`Exclusive`); an id nobody reserved has created and run nothing (`Fresh`) |
| | `PromotedCorrect` | `Keys`: a draft's key that is recorded, answered or promoted is a session of its own request that was not deleted, and in this life the message was handed over there or is in a goroutine that has recorded it (`Kept`); `Paths`: a draft's frames carry no key |
| | `ForgottenCorrect` | `Noted`: what waits for its answer is in the outbox, so the next connection sends it |
| `ClientConnection_proofs` | `ConnectionTypeCorrect`, `SilenceCorrect`, `RightNodeCorrect` | `Inv`: the age of whatever is not open and the time to the next watchdog add up to at most its period; the silence of an open socket and what its probes have left add up to at most `Quiet` |
| | `HealthyCorrect` (assumes `Responsive`: an answer comes within two probe timeouts) | `Answering`: a probed link that works has an answer on its way, due before the last timeout |
| `SubAgents_proofs` | `SubAgentsTypeCorrect` | the types themselves; any number of turns, children and stops, with late attaches and failing writes |
| | `WrittenOnceCorrect` | `Rows`: a row in the log means a marked attachment, who is about to write has marked it and not written yet, and is alone.  `Quiet` is what all other steps have in common. |
| | `LateStopCorrect` | `ReachInv`: turns begin one after the other, everybody works for the turn whose drain he is, the reader is at the newest attachment, whoever cuts a registration has closed the attachment before; so an open child's registration is the work of its own attach, or a stop of an earlier attachment wiped it.  No hypothesis: late attaches, lost rows and stops of any attachment are covered |
| | `OwnTurnEndsCorrect` (assumes `LateAttach = FALSE`) | `OwnInv` on top of `ReachInv` and `Rows`: an identity is a place in the log, a turn does not return before it has seen to the row and the lamp of each of its children, so the identities of one child grow from turn to turn past every attachment that no stop ends and whose row is not lost (`IdsGrow`), and an end of such an attachment that comes late carries an older one |
| `AgentPool_proofs` | `PoolTypeCorrect`, `ReleaseCorrect`, `OneProcessCorrect`, `LeaksCorrect`, `HandedOutCorrect` | `LocksInv`: who opens, marks or shuts down holds the locks it needs.  `EntriesInv`: an entry is open or marked, a marked one is in the hands of its release, an open session is in the map or in somebody's hands.  None of the five follows without the locks. |
| `SessionLog_proofs` | `LogTypeCorrect`, `BlocksCorrect` | `LogInv`: a row's seq is its place in the log, so that a seq names one row; references are to messages that were said; who is about to write a block has its row |
| | `SyncedCorrect` | `ReadInv`: of what an import has read, the part it is done with is recorded; while no live row is in the log, rows line up with the transcript, so that cutting it at `agent_ctx_seq` leaves nothing out (`RowsLineUp`); the row a turn will bind its agent by is live (`WriterOwns`).  `Unbound`: before a binding there is nothing to import |
| | `StoredOnceCorrect` | `OnceInv` on top of `ReadInv`: a message has one name in the transcript, the name of its user's row if the agent repeats the prompt's id, and is not there before it was sent; so what an import finds unrecorded is nothing a turn still stores under that name |
| `ClientTranscript_proofs` | `TypeCorrect`, `RowsInOrderCorrect` | `SocketInv`: replies are beginnings of the log; frames that carry a row name one and come in its order; only resets come before the frame of the message written here.  `RowsInv` adds, for the cache and for the rows a load remembers, `Shown`: saved rows are the log's, in its order, without a gap except for a row that is in the socket (`Filled`), and one echo at most |
| | `EchoRetiresCorrect` | `EchoGoes` on top of `RowsInv`: an echo whose turn has started is taken away by a frame in the socket, its own row or a reset, or by the replay that was asked for.  Needs `EchoIsLast`: nothing saved comes after an echo that is to become a row |
| | `CaughtUpCorrect` | `CurrentInv` on top of `RowsInv`: the load that counts was asked for when nothing ran (`OnlyIdle`), its reply is the whole log, so is what is shown, and a transient row is dropped by a reset on its way, behind which nothing brings another (`TailGoes`) |
| | `LiveTailCorrect` | `TailInv` on top of `RowsInv`: a bound client will have the hub's buffer by one of three ways, and every frame keeps one of them: a reset of the turn with the events after it (`ByReset`), all events from the first on (`FromFirst`), or the tail up to the n-th event and the events after it (`Further`).  While none of them is open, a replay has been asked for |

The lemmas about the queue are at the head of `TurnLifecycle_proofs`: removing, promoting,
popping and appending keep a queue without repetitions and change its set of messages by exactly
the message named.  `OverlapCorrect` is about a statement no run checks:
`OneConversation` implies that turns do not overlap.  The theorems of `TurnLifecycle` without `UserDriven` hold with
any number of background runs and commands.

The hypotheses of the theorems of `StreamReplay` and `SubAgents` restrict what happens to the
code, and each is needed: without it TLC refutes the property (section 5; of `SubAgents` only `OwnTurnEndsCorrect` has one).  `OneEmitter` says that one goroutine emits, as the update handler
of a turn does while the agent speaks (`api/ws_session_message.go:318`); it leaves out the error
frame of a failed send (371), which another goroutine may send beside a late update.  `children`
satisfies that of `OwnTurnEndsCorrect`, `replay` those of both theorems of `StreamReplay`.

`Select` and `Chunks` of `ClientTranscript` are recursive functions.  What they return is proved
from their unfolding by induction over a set of numbers (`Induction`, from `WFMin` of the library),
which needs no theorem with an operator parameter: `SelectLemma` gives the increasing map of places
behind `Select`, `ChunksTail` the tail that the events of a turn make.

Only model-checked: the liveness properties (`QueuedMessageStarts`, `LaunchedJobEnds`, `TurnEnds`,
`ReadyEnds`, `Reconnects`, `ChildLampGoesOut`, `CallsReturn` and `LampGoesOut` of `TurnLifecycle` and
of `ClientTranscript`), which need `ENABLED` and are out of the prover's reach.  Every invariant and every action
property that a run checks is a theorem, under the hypotheses named in the table.
The counterexamples of section 5 are results of TLC.

## 5. Where code and documentation disagree

These statements of the modules are in no configuration.  Each is refuted by TLC with the
constants given here and `CHECK_DEADLOCK FALSE`:

| Statement | Constants | What happens |
|---|---|---|
| `TurnLifecycle!QueuedMessageStarts` (FairSpec) | 2 messages, 1 background run | A background run ends with `EndSessionTurn` alone (`scheduled/tasks_runner.go:250`); nobody calls `startNextQueuedSessionMessage`, and a message queued behind it is stranded |
| `TurnLifecycle!TurnsDoNotOverlap` | 1 message, 1 background run | A scheduled run starts before the done of a user's turn, though `src/docs/message-mechanisms.md` calls that impossible: the lock is released before the done is sent and background runs never reserve |
| `TurnLifecycle!OneConversation` | 2 messages, 1 background run | The end of a background run clears the reservation of a message that waits for the lock |
| `TurnLifecycle!CancelHitsOnlyItsTarget` | 2 messages, 1 stop | The target is compared once (`api/usecase/session.go:328`), then the shared agent session is interrupted: the stop hits the turn that followed |
| `TurnRecovery!StoppedTurnIsNotResent` | 1 stop, 3 attempts | Between two sends the runtime has nothing in flight, reports success, and recovery sends again |
| `StreamReplay!NoEventLostEver` | as `replay` | A queue edit deletes the replay state of a client whose reset frame is not sent yet |
| `SessionLog!BodyOnItsRow` | as `log`, with `MaxFaults = 0` | An import asks for the greatest seq of the session outside the mutex (`api/usecase/external_sessions_sync_helpers.go:82`), after its row was appended.  A row the turn has appended in between gets the imported words, though the comment above (81) takes the seq for that of the imported row |
| `SessionLog!SyncedHasBody` | the same | The row whose words went elsewhere stays without; with a fault also a row whose block was never written.  Later imports find the row recorded and do not complete it |
| `SessionLog!AnswerOnce` | the same | An import that reads the transcript while the turn's send returns stores the answer, and so does the turn, which appends without looking (`api/usecase/session_send.go:390`): two rows, though the two writers' ids are meant to match |
| `SessionLog!PassingSyncSparesLive` | the same | A sync in passing asks once whether a live row is there (`api/usecase/external_sessions_sync.go:86`), then reads the transcript; a turn that began in between has rows when the import appends, against the comment at 74: such sessions belong to the live path alone |
| `ClientConnection!Reconnects` (FairSpec) | as `link`, with `Handshake = 5` | A slow handshake never ends: the watchdog probes every three seconds, a probe of a socket that is not open reconnects (`services/session/sessionConnectionManager.ts:308`), so the handshake is begun again for ever and the 15 s of `connectTimeoutMs` never come to pass |
| `SubAgents!StopReachesChild` | as `children` | A stop of an earlier turn's child unregisters by key (`api/usecase/session_subagent_synthetic.go:95`) and wipes the registration of the turn that adopted the child meanwhile; the stop button then does nothing, which the comment at `session_subagents.go:216-217` wants to exclude |
| `SubAgents!EndsWithItsTurn` | as `children`, also with `Stops = {}` | The identity of an attachment is the next place in the log.  If the row was not written, or not yet, the next turn mints the same identity, and the drain of the turn before puts out the adopted child's lamp, against `session_subagent_synthetic.go:68-70` |
| `SubAgents!ChildLampGoesOut` (FairSpec) | as `children`, with `LateAttach = TRUE` | A child attached after the drain took its snapshot is nobody's: its lamp stays lit, though `api/ws_session_message.go:339-340` says such children do not stay lit |
| `SubAgents!OnlyItsOwnTurnEnds` | as `children`, with `LateAttach = TRUE`, also with `Stops = {}` | A child attached after the end of its turn has written no row when the next turn adopts it: both attachments have one identity, and the end of either puts the lamp out |
| `ClientTranscript!AnswerStays` | 1 turn, 1 chunk, opened once, no drop | The reload that follows `session.done` may get the window that was read up to two seconds earlier, or join a load that was asked for before; the lamp is out, so the streamed rows are dropped, and the row of the log is not in that window.  The answer is back with the next load |
| `AgentPool!UsePreventsCleanup` | 1 agent, 2 callers, 1 opening | A turn takes the resident session with `Get` (`api/usecase/session_agent_open.go:110`) and registers its use only before it sends (`session_send.go:321`).  If the release marks the entry in between, `BeginSessionUse` counts nothing and says nothing (`agent/pool.go:176-179`), though its comment (line 171) says it prevents the cleanup; the turn sends to a closed session, and recovery resends to the same one (`session_recovery.go:77`) |
| `AgentPool!ReplyingIsNotMoved` | the same | `RepointSession` asks once whether the session is replying (`session_repoint.go:115`), then reads files, then closes it (149-152): a turn that began in between is cut off, against the comment at 111-112 |
| `RequestDelivery!PromotedIsRun` | 1 message, 1 connection, 1 restart, no replay | The answer goes out (`api/ws_session_message.go:181`) before the message is anywhere but in its goroutine; a restart before the hand-over (215) loses it.  The draft is promoted to an empty session, and the client has dropped the frame it noted (`services/session/sessionConnectionManager.ts:391`), so nobody sends it again |
| `RequestDelivery!ReplayedAsComposed` | 1 message, 2 connections, no restart | A replayed draft is the bare text: no plan prefix, no view context, no worktree, though `app/useSendMessage.ts:345` wants it replayed as it was |
| `RequestDelivery!AcceptedNamesSession` | the same | A repeat that is answered before the first frame's key is recorded names no session, though `api/ws_broadcast.go:252-254` says it returns the one first resolved |

Further cases of these mechanisms:

* `NoEventLost` with `InitialEvents = 0`: an empty buffer makes the client live before its
  reset frame is sent, and the first live event is wiped.  `NoEventLostEver` with
  `MaxQueueOps = 0` and `MaxTurns = 1`: two replays of one client share one replay state and the later reset
  wipes what the earlier one delivered.
* An event that is appended before an attach and fanned out after it reaches the client
  twice; `TailInOrder` allows a repetition, so `replay` holds.
* `TailInOrder` with two emitters: `BroadcastSessionStream` stores an event and sends it in two
  steps without a common lock, so two events reach a live client in the other order.
* `RunningTurnIsLit` with one message and one background run: a run that failed before
  `OnStart` ends with the empty identity, which every comparison accepts.
* `QueuedMessageStarts` with two messages and a stop (`SendNows = {}`): reserving and
  unfreezing are two critical sections, and a stop's own unfreeze starts nothing, so an
  unfrozen queue can be left with nobody to look at it.
* The table of reserved requests is in memory: a request resent after a restart of the server
  runs again, in a new session if it was a draft.  `RunsOnce` counts per life of the server.
* `connect()` on a socket that is open announces the connection again
  (`services/session/sessionConnectionManager.ts:93-94`), so drafts are replayed whenever the
  project changes, though `pendingDraftRecovery.ts` says only when a connection is established.
* A worktree is created under the context of its connection: a connection that breaks makes
  the creation fail, and the id stays reserved without a session.
* A reset that arrives when the turn's row is already in the cache appends the whole text to that
  row (`LiveTail` therefore speaks of turns without a row); a `session.ready` served between done
  and clear lights the lamp again and shows the answer twice, until the poll and the next load.
* Rows that arrive during a load are lost from the cache if they have a place in the log that
  the window did not reach, until the next load; `app/useSessionLifecycle.ts:164` says that
  loading only adds.

## 6. Not modelled, and the plan

Written first: the pending entry and the turn lifecycle with its promise, then recovery and
replay, then the path of a message from the client, its connection and its transcript, then the
sub-agents, the agent pool and the store's log.  Next, in this order:

1. **ScheduledTasks**: tick, running guard, update of the task list
   (`scheduled/tasks_runner.go`).  Promise: no two runs of a task, no lost update.
2. **ClientRegistry**: a connection superseded by its successor (`api/ws_upgrade.go:84-149`).
3. Transient slash commands as a further holder of the send lock in `TurnLifecycle`
   (`api/usecase/session_command_shell.go:296-380`).

Most of the repository's lines are the web client's views and settings.  They keep no state
that several actors change, so the modules cover only a small share of its lines.

Left out for good: agent processes and their protocols (external programs), files, git
and network I/O, configuration and preference stores (sequential edits behind one
mutex), rendering in the client, packaging.
