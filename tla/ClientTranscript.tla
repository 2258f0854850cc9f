-------------------------- MODULE ClientTranscript --------------------------
(***************************************************************************)
(* What one browser shows of one session: the rows in its memory cache,    *)
(* put together from three sources that nobody orders.  Window loads read  *)
(* the exchange log over HTTP and replace the cache with the union of what *)
(* they read and what the cache held when they were asked; the frames of   *)
(* the socket change the cache as they arrive; session.ready, sent when a  *)
(* load ends, makes the server answer with a reset and the whole buffer of *)
(* the turn.  The lamp (multiProjectPendingByKey) decides whether a load   *)
(* keeps transient rows.                                                   *)
(*                                                                         *)
(* A row is [seq, turn, by, text]: seq is its place in the log, 0 for a    *)
(* transient row; text holds the chunks streamed into it, so a row of the  *)
(* log itself has none.  The windows are long enough for the whole log.    *)
(* The browser writes one of the messages itself and shows its echo, a     *)
(* transient row, until session.user_message tells its seq.  It writes     *)
(* with no frame on its way to it, and nobody writes while another message *)
(* is under way or its turn goes on, so that no message is queued.  How    *)
(* the hub replays to a client while events are emitted is in              *)
(* StreamReplay; it is one step here.                                      *)
(***************************************************************************)
EXTENDS Naturals, Sequences

CONSTANTS
  MaxTurns,   \* bound: turns of the session
  MaxChunks,  \* bound: events of a turn
  MaxOpens,   \* bound: times the user opens the session
  MaxDrops    \* bound: connections lost

ASSUME TranscriptAssumption ==
  MaxTurns \in Nat /\ MaxChunks \in Nat /\ MaxOpens \in Nat /\ MaxDrops \in Nat

VARIABLES
  log,      \* the exchange log: the turn and the author of each row
  phase,    \* the turn: "idle", "running", or "done" sent but not cleared
  turn,     \* turns started so far
  sent,     \* events in the turn's buffer
  bound,    \* the hub sends the session's frames to the client
  link,     \* the socket is open
  wire,     \* frames on their way to the client
  readies,  \* session.ready requests on their way to the server
  cache,    \* sessionCacheRef: the rows of the session
  mine,     \* the message written here: "none" yet, "sent", or the turn "started"
  lamp,     \* multiProjectPendingRef: the session is replying
  viewing,  \* the session is the selected one, a replay target
  load,     \* restoreActiveSession in flight
  kept,     \* windowSettled: the last window reply, while it may be reused
  poll,     \* the answer of /api/replying-sessions in flight
  opens, drops,
  current   \* some load was asked for since the session became idle

server == <<log, phase, turn, sent>>
socket == <<bound, link, wire, readies>>
count  == <<opens, drops>>
vars   == <<server, socket, cache, mine, lamp, viewing, load, kept, poll, count, current>>

-----------------------------------------------------------------------------
(* Rows, and the rules that put them together.                             *)

Row == [seq : Nat, turn : Nat, by : {"user", "agent"}, text : Seq(Nat)]
Entry == [turn : Nat, by : {"user", "agent"}]
Frame == [type : {"user", "mine", "chunk", "reset", "done"}, turn : Nat, n : Nat]

Transient(row) == row.seq = 0
Saved(row) == ~Transient(row)

(* The rows at some places, in their order.                                *)
Select(rows, places) ==
  LET F[n \in 0..Len(rows)] ==
        IF n = 0 THEN <<>>
        ELSE IF n \in places THEN Append(F[n - 1], rows[n]) ELSE F[n - 1]
  IN  F[Len(rows)]

(* dropTransientExchanges.                                                 *)
Persisted(rows) == Select(rows, {i \in 1..Len(rows) : Saved(rows[i])})

(* The rows of the log, as a window reply carries them.                    *)
RowsOf(entries) ==
  [i \in 1..Len(entries) |->
     [seq |-> i, turn |-> entries[i].turn, by |-> entries[i].by, text |-> <<>>]]

(* mergeSessionExchanges: one row per seq, the incoming one if both have   *)
(* it, in the order of seq.  The incoming rows are the log's first ones.   *)
(* Mutant of Merge: concatenates.                                          *)
Concatenated(base, incoming) == Persisted(base) \o incoming

Merge(base, incoming) ==
  incoming \o Select(base, {i \in 1..Len(base) : base[i].seq > Len(incoming)})

(* composeLoadedExchanges: transient rows are kept while the lamp is lit.  *)
Compose(reply, before, inFlight) ==
  Merge(before, reply) \o
    (IF inFlight THEN Select(before, {i \in 1..Len(before) : Transient(before[i])})
                 ELSE <<>>)

(* appendAgentChunk: the text goes into the last row if that is an agent's *)
(* row of the same turn, saved or not.                                     *)
Chunk(rows, t, n) ==
  LET last == rows[Len(rows)]
  IN  IF rows # <<>> /\ last.by = "agent" /\ last.turn = t
      THEN [rows EXCEPT ![Len(rows)].text = Append(@, n)]
      ELSE Append(rows, [seq |-> 0, turn |-> t, by |-> "agent", text |-> <<n>>])

(* The events 1..n of a turn, applied one by one.                          *)
Chunks(rows, t, n) ==
  LET apply[i \in 0..n] == IF i = 0 THEN rows ELSE Chunk(apply[i - 1], t, i)
  IN  apply[n]

(* The echo of a message whose turn is not known yet.                      *)
Echo == [seq |-> 0, turn |-> 0, by |-> "user", text |-> <<>>]

(* handleSessionUserMessage: a row that is already there by identity or    *)
(* seq stays one row; failing that, the echo of the same text becomes the  *)
(* row.  Mutants: only the latest row is looked at; the echo is not.       *)
ClaimLast(rows, said, own) ==
  IF rows # <<>> /\ rows[Len(rows)] \in {said, Echo}
  THEN [rows EXCEPT ![Len(rows)] = said] ELSE Append(rows, said)

ClaimSaved(rows, said, own) ==
  IF \E i \in 1..Len(rows) : rows[i].seq = said.seq THEN rows ELSE Append(rows, said)

Claim(rows, said, own) ==
  IF \E i \in 1..Len(rows) : rows[i].seq = said.seq THEN rows
  ELSE IF own /\ \E i \in 1..Len(rows) : rows[i] = Echo
       THEN [i \in 1..Len(rows) |-> IF rows[i] = Echo THEN said ELSE rows[i]]
       ELSE Append(rows, said)

-----------------------------------------------------------------------------
TypeOK ==
  /\ log \in Seq(Entry) /\ Len(log) <= 2 * MaxTurns
  /\ phase \in {"idle", "running", "done"}
  /\ turn \in 0..MaxTurns /\ sent \in 0..MaxChunks
  /\ bound \in BOOLEAN /\ link \in BOOLEAN
  /\ wire \in Seq(Frame) /\ readies \in Nat
  /\ cache \in Seq(Row)
  /\ mine \in {"none", "sent", "started"}
  /\ lamp \in BOOLEAN /\ viewing \in BOOLEAN
  /\ load \in [at : {"none", "asked", "answered"}, before : Seq(Row),
               reply : Seq(Entry), reused : BOOLEAN, current : BOOLEAN]
  /\ kept \in [on : BOOLEAN, reply : Seq(Entry)]
  /\ poll \in {"none", "replying", "quiet"}
  /\ opens \in 0..MaxOpens /\ drops \in 0..MaxDrops
  /\ current \in BOOLEAN

NoLoad == [at |-> "none", before |-> <<>>, reply |-> <<>>, reused |-> FALSE,
           current |-> FALSE]
NotKept == [on |-> FALSE, reply |-> <<>>]

Init ==
  /\ log = <<>> /\ phase = "idle" /\ turn = 0 /\ sent = 0
  /\ bound = FALSE /\ link = TRUE /\ wire = <<>> /\ readies = 0
  /\ cache = <<>> /\ mine = "none" /\ lamp = FALSE /\ viewing = FALSE
  /\ load = NoLoad /\ kept = NotKept /\ poll = "none"
  /\ opens = 0 /\ drops = 0 /\ current = FALSE

-----------------------------------------------------------------------------
(* The server.                                                             *)

Send(frame) == wire' = IF bound THEN Append(wire, frame) ELSE wire

(* The user row is written, then session.user_message is broadcast, to the *)
(* sender as well, whom its message bound to the session.                  *)
StartTurn ==
  /\ phase = "idle" /\ turn < MaxTurns
  /\ phase' = "running" /\ turn' = turn + 1 /\ sent' = 0
  /\ log' = Append(log, [turn |-> turn + 1, by |-> "user"])
  /\ mine' = IF mine = "sent" THEN "started" ELSE mine
  /\ bound' = (bound \/ (mine = "sent" /\ link))
  /\ wire' = IF ~bound' THEN wire
             ELSE Append(wire, [type |-> IF mine = "sent" THEN "mine" ELSE "user",
                                turn |-> turn + 1, n |-> Len(log) + 1])
  /\ current' = FALSE /\ load' = [load EXCEPT !.current = FALSE]
  /\ UNCHANGED <<link, readies, cache, lamp, viewing, kept, poll, count>>

Answered == log # <<>> /\ log[Len(log)].by = "agent"

BroadcastSessionStream ==
  /\ phase = "running" /\ ~Answered /\ sent < MaxChunks
  /\ sent' = sent + 1
  /\ Send([type |-> "chunk", turn |-> turn, n |-> sent + 1])
  /\ UNCHANGED <<log, phase, turn, bound, link, readies, cache, mine, lamp, viewing,
                 load, kept, poll, count, current>>

(* The assistant row is written at the end of the turn; a turn that fails  *)
(* may have none.                                                          *)
SaveAnswer ==
  /\ phase = "running" /\ ~Answered
  /\ log' = Append(log, [turn |-> turn, by |-> "agent"])
  /\ UNCHANGED <<phase, turn, sent, socket, cache, mine, lamp, viewing, load, kept,
                 poll, count, current>>

BroadcastSessionDone ==
  /\ phase = "running"
  /\ phase' = "done"
  /\ Send([type |-> "done", turn |-> turn, n |-> 0])
  /\ UNCHANGED <<log, turn, sent, bound, link, readies, cache, mine, lamp, viewing,
                 load, kept, poll, count, current>>

ClearSessionPending ==
  /\ phase = "done"
  /\ phase' = "idle" /\ sent' = 0
  /\ UNCHANGED <<log, turn, socket, cache, mine, lamp, viewing, load, kept, poll,
                 count, current>>

(* handleSessionReady: the client is bound and gets a reset with all the   *)
(* events of the buffer.                                                   *)
HandleSessionReady ==
  /\ readies > 0
  /\ readies' = readies - 1 /\ bound' = TRUE
  /\ wire' = Append(wire, [type |-> "reset", turn |-> turn, n |-> sent])
  /\ UNCHANGED <<server, link, cache, mine, lamp, viewing, load, kept, poll, count,
                 current>>

-----------------------------------------------------------------------------
(* Loads (restoreActiveSession), and the message the user writes.          *)

(* The rows of the cache are put aside before the window is asked for.  A  *)
(* window reply of the last two seconds is used again; a load in flight is *)
(* joined, and nothing changes.                                            *)
Restore ==
  load' = IF load.at # "none" THEN load
          ELSE [at |-> IF kept.on THEN "answered" ELSE "asked",
                before |-> cache, reply |-> kept.reply, reused |-> kept.on,
                current |-> phase = "idle" /\ ~kept.on]

Open ==
  /\ opens < MaxOpens
  /\ opens' = opens + 1 /\ viewing' = TRUE
  /\ Restore
  /\ UNCHANGED <<server, socket, cache, mine, lamp, kept, poll, drops, current>>

(* handleSendMessage: the lamp is lit; an echo is shown unless the message *)
(* is taken for one that will be queued, which the lamp decides.           *)
SendMessage ==
  /\ viewing /\ link /\ mine = "none" /\ phase = "idle" /\ turn < MaxTurns
  /\ wire = <<>>
  /\ mine' = "sent" /\ lamp' = TRUE
  /\ cache' = IF lamp THEN cache ELSE Append(cache, Echo)
  /\ UNCHANGED <<server, socket, viewing, load, kept, poll, count, current>>

Leave ==
  /\ viewing /\ viewing' = FALSE
  /\ UNCHANGED <<server, socket, cache, mine, lamp, load, kept, poll, count, current>>

ReadLog ==
  /\ load.at = "asked"
  /\ load' = [load EXCEPT !.at = "answered", !.reply = log]
  /\ UNCHANGED <<server, socket, cache, mine, lamp, viewing, kept, poll, count, current>>

(* The reply of the window request, or of the full sync that is tried      *)
(* after it, becomes the cache; then the session is ready, if the socket   *)
(* is open.  Only window replies can be reused.                            *)
LoadEnds ==
  /\ load.at = "answered"
  /\ cache' = Compose(RowsOf(load.reply), load.before, lamp)
  /\ \/ kept' = kept
     \/ ~load.reused /\ kept' = [on |-> TRUE, reply |-> load.reply]
  /\ readies' = IF link THEN readies + 1 ELSE readies
  /\ current' = (current \/ load.current)
  /\ load' = NoLoad
  /\ UNCHANGED <<server, bound, link, wire, mine, lamp, viewing, poll, count>>

LoadFails ==
  /\ load.at \in {"asked", "answered"} /\ ~load.reused
  /\ load' = NoLoad
  /\ UNCHANGED <<server, socket, cache, mine, lamp, viewing, kept, poll, count, current>>

(* OPEN_SESSION_WINDOW_REUSE_MS have passed.                               *)
ReuseExpires ==
  /\ kept.on /\ kept' = NotKept
  /\ UNCHANGED <<server, socket, cache, mine, lamp, viewing, load, poll, count, current>>

-----------------------------------------------------------------------------
(* Frames.                                                                 *)

Arrives(type) == wire # <<>> /\ wire[1].type = type /\ wire' = Tail(wire)

UserMessage ==
  /\ Arrives("user") \/ Arrives("mine")
  /\ lamp' = TRUE
  /\ cache' = Claim(cache, [seq |-> wire[1].n, turn |-> wire[1].turn, by |-> "user",
                            text |-> <<>>], wire[1].type = "mine")
  /\ UNCHANGED <<server, bound, link, readies, viewing, load, kept, poll, count,
                 current, mine>>

StreamEvent ==
  /\ Arrives("chunk")
  /\ lamp' = TRUE
  /\ cache' = Chunk(cache, wire[1].turn, wire[1].n)
  /\ UNCHANGED <<server, bound, link, readies, viewing, load, kept, poll, count,
                 current, mine>>

(* The transient rows go, then every event of the batch is applied like    *)
(* one that came alone.  Mutant: they stay.                                *)
StreamBatch ==
  /\ Arrives("reset")
  /\ lamp' = (lamp \/ wire[1].n > 0)
  /\ cache' = Chunks(cache, wire[1].turn, wire[1].n)
  /\ UNCHANGED <<server, bound, link, readies, viewing, load, kept, poll, count,
                 current, mine>>

StreamReset ==
  /\ Arrives("reset")
  /\ lamp' = (lamp \/ wire[1].n > 0)
  /\ cache' = Chunks(Persisted(cache), wire[1].turn, wire[1].n)
  /\ UNCHANGED <<server, bound, link, readies, viewing, load, kept, poll, count,
                 current, mine>>

(* handleSessionStreamDone: a session that is looked at is loaded again    *)
(* and keeps its tail until then; another one drops it.                    *)
SessionDone ==
  /\ Arrives("done")
  /\ lamp' = FALSE
  /\ \/ viewing /\ Restore /\ cache' = cache
     \/ ~viewing /\ cache' = Persisted(cache) /\ load' = load
  /\ UNCHANGED <<server, bound, link, readies, viewing, kept, poll, count, current, mine>>

-----------------------------------------------------------------------------
(* The connection and the poll.                                            *)

Drop ==
  /\ link /\ drops < MaxDrops
  /\ drops' = drops + 1
  /\ link' = FALSE /\ bound' = FALSE /\ wire' = <<>> /\ readies' = 0
  /\ UNCHANGED <<server, cache, mine, lamp, viewing, load, kept, poll, opens, current>>

(* ws.reconnected: replayTargetsForAllRoots.                               *)
Reconnect ==
  /\ ~link /\ link' = TRUE
  /\ IF viewing THEN Restore ELSE load' = load
  /\ UNCHANGED <<server, bound, wire, readies, cache, mine, lamp, viewing, kept, poll,
                 count, current>>

PollReads ==
  /\ poll = "none"
  /\ poll' = IF phase = "idle" THEN "quiet" ELSE "replying"
  /\ UNCHANGED <<server, socket, cache, mine, lamp, viewing, load, kept, count, current>>

(* The answer overwrites the lamp.  Mutant: it can only light it.          *)
PollLights ==
  /\ poll # "none" /\ poll' = "none"
  /\ lamp' = (lamp \/ poll = "replying")
  /\ UNCHANGED <<server, socket, cache, viewing, load, kept, count, current, mine>>

PollAnswers ==
  /\ poll # "none" /\ poll' = "none"
  /\ lamp' = (poll = "replying")
  /\ UNCHANGED <<server, socket, cache, viewing, load, kept, count, current, mine>>

-----------------------------------------------------------------------------
Turn == StartTurn \/ BroadcastSessionStream \/ SaveAnswer \/ BroadcastSessionDone
Load == ReadLog \/ LoadEnds
Deliver == UserMessage \/ StreamEvent \/ StreamReset \/ SessionDone
Poll == PollReads \/ PollAnswers

Next ==
  \/ Turn \/ ClearSessionPending \/ HandleSessionReady
  \/ Open \/ SendMessage \/ Leave \/ Load \/ LoadFails \/ ReuseExpires
  \/ Deliver \/ Drop \/ Reconnect \/ Poll

Spec == Init /\ [][Next]_vars

(* Requests are answered, frames arrive and the poll runs every five       *)
(* seconds while the page is visible.  Nobody has to start or end a turn.  *)
FairSpec ==
  /\ Spec
  /\ WF_vars(HandleSessionReady) /\ WF_vars(Load) /\ WF_vars(Deliver)
  /\ WF_vars(Poll)

-----------------------------------------------------------------------------
(* Nothing is under way between the server and the client.                 *)
Quiet == bound /\ wire = <<>> /\ readies = 0 /\ load.at = "none"

(* The rows of the log are shown once each and in the order of the log,    *)
(* whatever loads, broadcasts and resets overlapped.                       *)
RowsInOrder ==
  LET rows == Persisted(cache)
  IN  \A i, k \in 1..Len(rows) : i < k => rows[i].seq < rows[k].seq

(* The echo of the message written here gives way to its row: once the     *)
(* turn has started and nothing is under way the message is not shown      *)
(* twice.                                                                  *)
EchoRetires ==
  Quiet /\ mine = "started" => \A i \in 1..Len(cache) : cache[i] # Echo

(* While the agent works and nothing is under way, the tail of the turn is *)
(* the hub's buffer: no event twice, none missing, none out of order and   *)
(* none in a row of the log.                                               *)
LiveTail ==
  Quiet /\ phase = "running" /\ ~Answered =>
    LET Mine(row) == row.turn = turn /\ row.by = "agent"
        tail == Select(cache, {i \in 1..Len(cache) : Mine(cache[i])})
    IN  IF sent = 0 THEN tail = <<>>
        ELSE /\ Len(tail) = 1
             /\ Transient(tail[1]) /\ tail[1].text = [n \in 1..sent |-> n]

(* Once a load that was asked for after the turn has ended, and what was   *)
(* under way has arrived, the client shows the rows of the log and no      *)
(* transient one, until it writes the next message.                        *)
CaughtUp ==
  Quiet /\ phase = "idle" /\ mine # "sent" /\ current =>
    /\ Len(cache) = Len(log)
    /\ \A i \in 1..Len(cache) : cache[i].seq = i

(* A session that stays idle ends up with its lamp off, also when the      *)
(* session.done frame was lost or an old poll answer came after it.        *)
LampGoesOut == <>[](phase = "idle") => <>[](~lamp)

(* Something of the answer of the latest turn is in the cache.             *)
Shows == \E i \in 1..Len(cache) : cache[i].by = "agent" /\ cache[i].turn = turn

(* The answer of a turn that is over does not vanish from the screen: the  *)
(* tail only gives way to the row of the log (useRealtimeEvents.ts).       *)
AnswerStays ==
  [][phase = "idle" /\ Answered /\ viewing /\ wire = <<>> /\ Shows => Shows']_vars
=============================================================================
