------------------------------ MODULE SubAgents ------------------------------
(***************************************************************************)
(* The child sessions a turn of a Claude session opens for its sub-agents. *)
(* A child has no process of its own: its output comes in the stream of    *)
(* the parent's runtime, and the router of the parent's turn attaches,     *)
(* feeds and closes it (usecase/session_subagents.go,                      *)
(* session_subagent_synthetic.go, session_subagent_stream.go; callbacks in *)
(* ws_session_message.go).                                                 *)
(*                                                                         *)
(* Three kinds of goroutines end a child, and any two of them may do so at *)
(* once: the reader of the runtime (the sub-agent reports its result), the *)
(* parent's turn (FinishAll, then the drain after the lock is released)    *)
(* and the stop button.  A child outlives its turn: the next turn's router *)
(* adopts it by its binding when its output comes again.                   *)
(***************************************************************************)
EXTENDS SessionPending

CONSTANTS
  MaxTurns,    \* the parent's turns are 1..MaxTurns, in the order of the send lock
  Children,    \* the sub-agents, each with the session it is bound to
  Stops,       \* presses of a child's stop button
  Agent,       \* the goroutine that reads the parent's runtime
  LateAttach   \* a child may be attached after its turn began to end

Turns == 1..MaxTurns
Actors == {Agent} \cup Turns \cup Stops
Attachments == Turns \X Children    \* a router attaches a child at most once

ASSUME SubAgentsAssumption ==
  /\ MaxTurns \in Nat
  /\ Agent \notin Turns \cup Stops
  /\ Stops \cap Turns = {}
  /\ NoTurn \notin Nat
  /\ LateAttach \in BOOLEAN

VARIABLES
  phase,     \* where the goroutine of each parent turn is
  handler,   \* the turn whose router gets the runtime's updates; 0: none
  todo,      \* the children a turn has still to finish, or to drain
  att,       \* what the router knows of each attachment
  job,       \* what each goroutine is doing to an attachment
  asked,     \* the attachment a stop named when it was read
  spent,     \* the stops that were carried out or dropped
  entry,     \* the hub's entry of each child
  reg,       \* the turn registered for each child in activeTurns; 0: none
  runtime,   \* that registration has its session
  rows,      \* the highest place in each child's log
  written,   \* the rows each attachment wrote
  lit,       \* history: the turn that last lit each child; 0: none
  robbed,    \* history: attachments a stop of an earlier turn's unregistered
  spoiled    \* history: attachments a stop began to end or whose row was lost

vars == <<phase, handler, todo, att, job, asked, spent, entry, reg, runtime,
          rows, written, lit, robbed, spoiled>>
turnVars == <<phase, handler, todo>>
stopVars == <<asked, spent>>
activeVars == <<reg, runtime>>
logVars == <<rows, written>>
stopTraces == <<robbed, spoiled>>    \* no step reads them

Ids == Nat \ {0}

(* `id' is the identity minted by attach, `noted' what OnSubAgentAttached  *)
(* put into subIDs, `closed' and `sent' the flags of close and of finish.  *)
Unattached == [id |-> NoTurn, noted |-> NoTurn, closed |-> FALSE, sent |-> FALSE]
AttStates == [id : Ids \cup {NoTurn}, noted : Ids \cup {NoTurn},
              closed : BOOLEAN, sent : BOOLEAN]

(* A goroutine at work on an attachment: the step it takes next, the       *)
(* identity it ends with, and where it goes after EndSessionTurn.          *)
Idle == [at |-> "idle"]
Opening == {"register", "bind", "light", "enlist"}
Steps == Opening \cup {"emit", "report", "enter", "mark", "finish", "write",
                       "frame", "gate", "clear", "cut"}
Thens == {"enter", "cut", "idle"}
Jobs == [at : Steps, of : Attachments, id : Ids \cup {NoTurn}, then : Thens]

TypeOK ==
  /\ phase \in [Turns -> {"waiting", "running", "finishing", "settling",
                          "draining", "over"}]
  /\ handler \in Turns \cup {0}
  /\ todo \in [Turns -> SUBSET Children]
  /\ att \in [Attachments -> AttStates]
  /\ job \in [Actors -> Jobs \cup {Idle}]
  /\ asked \in [Stops -> SUBSET Attachments]
  /\ spent \subseteq Stops
  /\ entry \in [Children -> Entries(Ids, {})]
  /\ reg \in [Children -> Turns \cup {0}]
  /\ runtime \in [Children -> BOOLEAN]
  /\ rows \in [Children -> Nat]
  /\ written \in [Attachments -> Nat]
  /\ lit \in [Children -> Turns \cup {0}]
  /\ robbed \subseteq Attachments
  /\ spoiled \subseteq Attachments

Init ==
  /\ phase = [t \in Turns |-> "waiting"]
  /\ handler = 0
  /\ todo = [t \in Turns |-> {}]
  /\ att = [a \in Attachments |-> Unattached]
  /\ job = [w \in Actors |-> Idle]
  /\ asked = [s \in Stops |-> {}]
  /\ spent = {}
  /\ entry = [c \in Children |-> Absent]
  /\ reg = [c \in Children |-> 0]
  /\ runtime = [c \in Children |-> FALSE]
  /\ rows = [c \in Children |-> 0]
  /\ written = [a \in Attachments |-> 0]
  /\ lit = [c \in Children |-> 0]
  /\ robbed = {} /\ spoiled = {}

Task(a, at) == [at |-> at, of |-> a, id |-> NoTurn, then |-> "cut"]
Become(w, task) == job' = [job EXCEPT ![w] = task]
Goto(w, at) == job' = [job EXCEPT ![w].at = at]
Working(w, at) == job[w].at = at
Of(w) == job[w].of
ChildOf(w) == job[w].of[2]

(* The runner took what OnSubAgentAttached noted before this moment.       *)
Listed(t) == {c \in Children : att[<<t, c>>].noted # NoTurn}
Opens(t) == job[Agent].at \in Opening /\ job[Agent].of[1] = t

-----------------------------------------------------------------------------
(* Attaching (ensure, attach).                                             *)

(* Mutant of Mint: an identity made of the child's key alone.              *)
MintOfKey(c) == 1

(* subagentTurnID: the place the child's next row will have.               *)
Mint(c) == rows[c] + 1

(* An update of a sub-agent the router does not know: a new child, or one  *)
(* found by its binding.                                                   *)
Attach(c) ==
  LET a == <<handler, c>> IN
  /\ job[Agent] = Idle
  /\ handler # 0 /\ att[a].id = NoTurn
  /\ LateAttach \/ phase[handler] = "running"
  /\ att' = [att EXCEPT ![a].id = Mint(c)]
  /\ Become(Agent, Task(a, "register"))
  /\ UNCHANGED <<turnVars, stopVars, entry, activeVars, logVars, lit, stopTraces>>

(* Mutant of Register: an adopted child is not registered.                 *)
RegisterNew ==
  /\ Working(Agent, "register")
  /\ reg' = IF rows[ChildOf(Agent)] = 0
              THEN [reg EXCEPT ![ChildOf(Agent)] = Of(Agent)[1]] ELSE reg
  /\ runtime' = [runtime EXCEPT ![ChildOf(Agent)] = FALSE]
  /\ Goto(Agent, "bind")
  /\ UNCHANGED <<turnVars, att, stopVars, entry, logVars, lit, stopTraces>>

(* The child counts as a running turn from here on.                        *)
Register ==
  /\ Working(Agent, "register")
  /\ reg' = [reg EXCEPT ![ChildOf(Agent)] = Of(Agent)[1]]
  /\ runtime' = [runtime EXCEPT ![ChildOf(Agent)] = FALSE]
  /\ Goto(Agent, "bind")
  /\ UNCHANGED <<turnVars, att, stopVars, entry, logVars, lit, stopTraces>>

(* setActiveTurnSession: nothing happens if the registration is gone.      *)
Bind ==
  /\ Working(Agent, "bind")
  /\ runtime' = [runtime EXCEPT ![ChildOf(Agent)] = reg[ChildOf(Agent)] # 0]
  /\ Goto(Agent, "light")
  /\ UNCHANGED <<turnVars, att, stopVars, entry, reg, logVars, lit, stopTraces>>

(* SetPendingReply.                                                        *)
Light ==
  LET c == ChildOf(Agent) IN
  /\ Working(Agent, "light")
  /\ entry' = [entry EXCEPT ![c] = SetPending(@, att[Of(Agent)].id)]
  /\ lit' = [lit EXCEPT ![c] = Of(Agent)[1]]
  /\ Goto(Agent, "enlist")
  /\ UNCHANGED <<turnVars, att, stopVars, activeVars, logVars, stopTraces>>

(* The identity goes into subIDs and the child into the router's list; the *)
(* update that opened it is streamed unless the child was closed meanwhile.*)
Enlist ==
  LET a == Of(Agent) IN
  /\ Working(Agent, "enlist")
  /\ att' = [att EXCEPT ![a].noted = att[a].id]
  /\ Become(Agent, IF att[a].closed THEN Idle ELSE Task(a, "emit"))
  /\ UNCHANGED <<turnVars, stopVars, entry, activeVars, logVars, lit, stopTraces>>

-----------------------------------------------------------------------------
(* Updates of an attached child (Handle).  A closed child's are swallowed. *)

Known(c) == handler # 0 /\ att[<<handler, c>>].noted # NoTurn

Streams(c) ==
  /\ job[Agent] = Idle /\ Known(c) /\ ~att[<<handler, c>>].closed
  /\ Become(Agent, Task(<<handler, c>>, "emit"))
  /\ UNCHANGED <<turnVars, att, stopVars, entry, activeVars, logVars, lit, stopTraces>>

(* BroadcastSessionUpdate appends to the entry, creating it if need be.    *)
Emit ==
  /\ Working(Agent, "emit")
  /\ entry' = [entry EXCEPT ![ChildOf(Agent)] = Ensure(@)]
  /\ Become(Agent, Idle)
  /\ UNCHANGED <<turnVars, att, stopVars, activeVars, logVars, lit, stopTraces>>

(* The result of a sub-agent, with a summary to show or without, also of   *)
(* one that is closed; a done of its own is the same, but only while open. *)
Reports(c) ==
  /\ job[Agent] = Idle /\ Known(c)
  /\ \E at \in {"report", "finish"} :
       Become(Agent, [Task(<<handler, c>>, at) EXCEPT !.then = "enter"])
  /\ UNCHANGED <<turnVars, att, stopVars, entry, activeVars, logVars, lit, stopTraces>>

EmitSummary ==
  /\ Working(Agent, "report")
  /\ entry' = [entry EXCEPT ![ChildOf(Agent)] = Ensure(@)]
  /\ Goto(Agent, "finish")
  /\ UNCHANGED <<turnVars, att, stopVars, activeVars, logVars, lit, stopTraces>>

-----------------------------------------------------------------------------
(* Ending a child (close, finish, EndSessionTurn), by any goroutine w.     *)

(* close returns at once if somebody closed the child; the flag is read    *)
(* and set without a lock.                                                 *)
Enter(w) ==
  /\ Working(w, "enter")
  /\ Become(w, IF att[Of(w)].closed THEN Idle ELSE Task(Of(w), "mark"))
  /\ UNCHANGED <<turnVars, att, stopVars, entry, activeVars, logVars, lit, stopTraces>>

Mark(w) ==
  /\ Working(w, "mark")
  /\ att' = [att EXCEPT ![Of(w)].closed = TRUE]
  /\ Goto(w, "finish")
  /\ UNCHANGED <<turnVars, stopVars, entry, activeVars, logVars, lit, stopTraces>>

(* Mutant of First: trusts that close and the done frame never meet.       *)
FirstAlways(w) == TRUE

First(w) == ~att[Of(w)].sent

(* finish: the first to come writes the row.  Another goes on, in close to *)
(* cutting the subscription, after a done of the stream to its frame.      *)
Finish(w) ==
  /\ Working(w, "finish")
  /\ att' = [att EXCEPT ![Of(w)].sent = TRUE]
  /\ Goto(w, IF First(w) THEN "write"
             ELSE IF job[w].then = "enter" THEN "frame" ELSE "cut")
  /\ UNCHANGED <<turnVars, stopVars, entry, activeVars, logVars, lit, stopTraces>>

Write(w) ==
  /\ Working(w, "write")
  /\ rows' = [rows EXCEPT ![ChildOf(w)] = @ + 1]
  /\ written' = [written EXCEPT ![Of(w)] = @ + 1]
  /\ Goto(w, "frame")
  /\ UNCHANGED <<turnVars, att, stopVars, entry, activeVars, lit, stopTraces>>

(* The row is not written; the error is logged and the end goes on.        *)
WriteFails(w) ==
  /\ Working(w, "write")
  /\ Goto(w, "frame")
  /\ spoiled' = spoiled \cup {Of(w)}
  /\ UNCHANGED <<turnVars, att, stopVars, entry, activeVars, logVars, lit, robbed>>

(* OnSubSessionUpdate of the final frame: streamed to the clients, then    *)
(* EndSessionTurn with whatever identity is noted.                         *)
Frame(w) ==
  /\ Working(w, "frame")
  /\ entry' = [entry EXCEPT ![ChildOf(w)] = Ensure(@)]
  /\ Become(w, [job[w] EXCEPT !.at = "gate", !.id = att[Of(w)].noted])
  /\ UNCHANGED <<turnVars, att, stopVars, activeVars, logVars, lit, stopTraces>>

After(w) == IF job[w].then = "idle" THEN Idle ELSE Task(Of(w), job[w].then)

Gate(w) ==
  /\ Working(w, "gate")
  /\ Become(w, IF TurnMatches(entry[ChildOf(w)], job[w].id)
                 THEN [job[w] EXCEPT !.at = "clear"] ELSE After(w))
  /\ UNCHANGED <<turnVars, att, stopVars, entry, activeVars, logVars, lit, stopTraces>>

ClearPending(w) ==
  /\ Working(w, "clear")
  /\ entry' = [entry EXCEPT ![ChildOf(w)] = Clear(@, job[w].id)]
  /\ Become(w, After(w))
  /\ UNCHANGED <<turnVars, att, stopVars, activeVars, logVars, lit, stopTraces>>

(* The subscription is cut and the child unregistered by its key; then     *)
(* OnSubAgentTurnFinished ends the turn with the identity of this attach.  *)
Robs(w) == w \in Stops /\ Of(w)[1] < reg[ChildOf(w)]

Cut(w) ==
  /\ Working(w, "cut")
  /\ robbed' = IF Robs(w) THEN robbed \cup {<<reg[ChildOf(w)], ChildOf(w)>>} ELSE robbed
  /\ reg' = [reg EXCEPT ![ChildOf(w)] = 0]
  /\ runtime' = [runtime EXCEPT ![ChildOf(w)] = FALSE]
  /\ Become(w, [job[w] EXCEPT !.at = "gate", !.id = att[Of(w)].id, !.then = "idle"])
  /\ UNCHANGED <<turnVars, att, stopVars, entry, logVars, lit, spoiled>>

Step(w) ==
  \/ Enter(w) \/ Mark(w) \/ Finish(w) \/ Write(w) \/ WriteFails(w)
  \/ Frame(w) \/ Gate(w) \/ ClearPending(w) \/ Cut(w)

-----------------------------------------------------------------------------
(* The parent's turns (SendMessage, runSessionMessage).                    *)

SetPhase(t, p) == phase' = [phase EXCEPT ![t] = p]
LockFree(t) == \A u \in Turns : u < t => phase[u] \in {"settling", "draining", "over"}

(* The turn has the send lock and its router gets the updates.             *)
StartTurn(t) ==
  /\ phase[t] = "waiting" /\ LockFree(t)
  /\ SetPhase(t, "running")
  /\ handler' = t
  /\ UNCHANGED <<todo, att, job, stopVars, entry, activeVars, logVars, lit, stopTraces>>

(* Mutant of EndTurn: an early return that skips the deferred calls.       *)
EndTurnAtOnce(t) ==
  /\ phase[t] = "running"
  /\ LateAttach \/ ~Opens(t)
  /\ SetPhase(t, "over")
  /\ todo' = todo
  /\ UNCHANGED <<handler, att, job, stopVars, entry, activeVars, logVars, lit, stopTraces>>

(* The send is over, by its result, an error or a stop; FinishAll begins.  *)
EndTurn(t) ==
  /\ phase[t] = "running"
  /\ LateAttach \/ ~Opens(t)
  /\ SetPhase(t, "finishing")
  /\ todo' = [todo EXCEPT ![t] = Listed(t)]
  /\ UNCHANGED <<handler, att, job, stopVars, entry, activeVars, logVars, lit, stopTraces>>

FinishChild(t) ==
  /\ phase[t] = "finishing" /\ job[t] = Idle
  /\ \E c \in todo[t] :
       /\ todo' = [todo EXCEPT ![t] = @ \ {c}]
       /\ Become(t, Task(<<t, c>>, "enter"))
  /\ UNCHANGED <<phase, handler, att, stopVars, entry, activeVars, logVars, lit, stopTraces>>

(* SendMessage returns and releases the lock; the handler stays attached.  *)
ReturnTurn(t) ==
  /\ phase[t] = "finishing" /\ job[t] = Idle /\ todo[t] = {}
  /\ SetPhase(t, "settling")
  /\ UNCHANGED <<handler, todo, att, job, stopVars, entry, activeVars, logVars, lit, stopTraces>>

(* After WaitIdle and its own EndSessionTurn the runner copies subIDs.     *)
Snapshot(t) ==
  /\ phase[t] = "settling"
  /\ SetPhase(t, "draining")
  /\ todo' = [todo EXCEPT ![t] = Listed(t)]
  /\ UNCHANGED <<handler, att, job, stopVars, entry, activeVars, logVars, lit, stopTraces>>

DrainChild(t) ==
  /\ phase[t] = "draining" /\ job[t] = Idle
  /\ \E c \in todo[t] :
       /\ todo' = [todo EXCEPT ![t] = @ \ {c}]
       /\ Become(t, [at |-> "gate", of |-> <<t, c>>, id |-> att[<<t, c>>].noted,
                     then |-> "idle"])
  /\ UNCHANGED <<phase, handler, att, stopVars, entry, activeVars, logVars, lit, stopTraces>>

Drained(t) ==
  /\ phase[t] = "draining" /\ job[t] = Idle /\ todo[t] = {}
  /\ SetPhase(t, "over")
  /\ UNCHANGED <<handler, todo, att, job, stopVars, entry, activeVars, logVars, lit, stopTraces>>

TurnStep(t) ==
  \/ EndTurn(t) \/ FinishChild(t) \/ ReturnTurn(t)
  \/ Snapshot(t) \/ DrainChild(t) \/ Drained(t)

-----------------------------------------------------------------------------
(* The stop button of a child.                                             *)

(* The read loop notes the turn that is registered; a stop that finds none *)
(* is dropped without a trace and not modelled.                            *)
Press(s) ==
  /\ s \notin spent /\ asked[s] = {}
  /\ \E c \in Children :
       /\ reg[c] # 0
       /\ asked' = [asked EXCEPT ![s] = {<<reg[c], c>>}]
  /\ UNCHANGED <<turnVars, att, job, spent, entry, activeVars, logVars, lit, stopTraces>>

(* CancelSessionTurn: a stale target is dropped, a registration without a  *)
(* session has only its context cancelled, a child with one is closed.     *)
CarryOut(s) ==
  \E a \in asked[s] :
    /\ asked' = [asked EXCEPT ![s] = {}]
    /\ spent' = spent \cup {s}
    /\ IF reg[a[2]] = a[1] /\ runtime[a[2]]
         THEN /\ job' = [job EXCEPT ![s] = Task(a, "enter")]
              /\ spoiled' = spoiled \cup {a}
         ELSE UNCHANGED <<job, spoiled>>
    /\ UNCHANGED <<turnVars, att, entry, activeVars, logVars, lit, robbed>>

-----------------------------------------------------------------------------
AgentStep == Register \/ Bind \/ Light \/ Enlist \/ Emit \/ EmitSummary

Next ==
  \/ \E c \in Children : Attach(c) \/ Streams(c) \/ Reports(c)
  \/ AgentStep
  \/ \E w \in Actors : Step(w)
  \/ \E t \in Turns : StartTurn(t) \/ TurnStep(t)
  \/ \E s \in Stops : Press(s) \/ CarryOut(s)

Spec == Init /\ [][Next]_vars

(* Goroutines that are at work go on, and turns end.  Sub-agents owe       *)
(* nothing: they may fall silent without a result.                         *)
Fairness ==
  /\ WF_vars(AgentStep)
  /\ \A w \in Actors : WF_vars(Step(w))
  /\ \A t \in Turns : WF_vars(TurnStep(t))

FairSpec == Spec /\ Fairness

-----------------------------------------------------------------------------
(* What the reader, the turn and the stop button close at the same time is *)
(* written once: however finish, close and FinishAll meet, an attachment   *)
(* adds at most one row to the child's log (doneSent in finish).           *)
WrittenOnce == \A a \in Attachments : written[a] <= 1

(* The stop button works: a child that is open in the turn that runs is    *)
(* registered as that turn, with its session, so that a stop can find it   *)
(* (the comment in attach: without it the button does nothing).            *)
Reachable(t, c) == reg[c] = t /\ runtime[c]

StopReachesChild ==
  \A t \in Turns : \A c \in Listed(t) :
    phase[t] = "running" /\ ~att[<<t, c>>].closed => Reachable(t, c)

(* Only one thing takes an open child out of reach of its stop: the stop   *)
(* of an earlier turn's attachment, carried out before the child was       *)
(* adopted and unregistering it by its key afterwards.  The reader, the    *)
(* end of the earlier turn, its drain and any other stop never do (attach  *)
(* registers; close, of whichever attachment, unregisters by key).         *)
OnlyLateStopUnregisters ==
  \A t \in Turns : \A c \in Listed(t) :
    phase[t] = "running" /\ ~att[<<t, c>>].closed =>
      Reachable(t, c) \/ <<t, c>> \in robbed

(* A lamp is put out by an end of the turn that lit it: a late close or    *)
(* drain of an earlier turn leaves a child that was adopted meanwhile lit  *)
(* (identities of attach compared by EndSessionTurn).  Two attachments can *)
(* have one identity only if the row of the earlier one is late or lost:   *)
(* then, and only then, may the lamp go with another turn's end.           *)
EndsFor(w, c) == job[w].at = "clear" /\ job'[w].at # "clear" /\ job[w].of[2] = c

RowLate(w, c) == \E u \in Turns : /\ <<u, c>> \in spoiled
                                  /\ u < lit[c] \/ u < Of(w)[1]

OnlyItsOwnTurnEnds ==
  [][\A c \in Children :
       entry[c].active /\ ~entry'[c].active =>
         \E w \in Actors : EndsFor(w, c) /\ (Of(w)[1] = lit[c] \/ RowLate(w, c))]_vars

(* The same without the exception: a late or repeated done is a no-op and  *)
(* puts out no later turn's lamp (the comment of EndSessionTurn).          *)
EndsWithItsTurn ==
  [][\A c \in Children :
       entry[c].active /\ ~entry'[c].active =>
         \E w \in Actors : EndsFor(w, c) /\ Of(w)[1] = lit[c]]_vars

(* The lamp of a child goes out, whether its sub-agent reports or falls    *)
(* silent (FinishAll and the drain of the parent's turn).                  *)
ChildLampGoesOut == \A c \in Children : entry[c].active ~> ~entry[c].active
=============================================================================
