----------------------------- MODULE SessionLog -----------------------------
(***************************************************************************)
(* The stored log of one session and its two writers: the live turn        *)
(* (usecase/session_send.go, session_turn_identity_persist.go), which      *)
(* writes the user's row before the agent is asked and the agent's row     *)
(* when it has returned, and the import of the agent's own transcript      *)
(* (external_sessions_sync.go), which a reader of the session starts.      *)
(*                                                                         *)
(* A row (exchanges.jsonl) carries identities only; what was said is in    *)
(* the block stream (blocks.jsonl), joined by seq and MindFSID.  Appending *)
(* a row and appending its blocks are two critical sections of the         *)
(* manager's mutex; the writers look for what is already recorded outside  *)
(* it, and the process may die between any two steps.  The send lock       *)
(* admits one turn, the sync lock one import; nothing excludes a turn and  *)
(* an import from each other.                                              *)
(*                                                                         *)
(* The agent is external and speaks ACP: its transcript is replayed from   *)
(* the start by every import and every message in it has an id.  A row's   *)
(* `of' is a ghost: the message it stands for.                             *)
(***************************************************************************)
EXTENDS Naturals, Sequences

CONSTANTS
  MaxSaid,      \* bound: messages, said here or to the agent directly
  MaxSyncs,     \* bound: imports
  MaxFaults     \* bound: crashes and failed writes of blocks

ASSUME LogAssumption == MaxSaid \in Nat /\ MaxSyncs \in Nat /\ MaxFaults \in Nat

VARIABLES
  echoes,       \* the agent's transcript repeats the id a prompt came with
  log,          \* the rows
  blocks,       \* the block stream
  texts,        \* what was said: texts[s] is the content of message s
  live,         \* the turn that holds the send lock
  agent,        \* the agent: idle, asked, or asked and in the transcript
  transcript,   \* the agent's own record
  sync,         \* the import that holds the sync lock
  bound, ctx,   \* the agent binding: known to the database, agent_ctx_seq
  syncs, faults

vars == <<echoes, log, blocks, texts, live, agent, transcript, sync, bound, ctx,
          syncs, faults>>
agentVars == <<agent, transcript>>
bindVars == <<bound, ctx>>

-----------------------------------------------------------------------------
(* Identities.                                                             *)

(* The id the agent gives to a user's message or to its answer, an id      *)
(* minted from a user row's seq, or the id NewMindFSID derives from an     *)
(* agent's id.                                                             *)
Id(kind, n) == [kind |-> kind, n |-> n, derived |-> FALSE]
NoId == Id("none", 0)
NewUserTurnMindFSID(seq) == Id("turn", seq)
NewMindFSID(native) == [native EXCEPT !.derived = TRUE]

Idents == [kind : {"none", "user", "agent", "turn"}, n : Nat, derived : BOOLEAN]
Roles == {"user", "agent"}

Rows == [seq : Nat, role : Roles, source : {"live", "import"}, id : Idents,
         native : Idents, of : Nat]
Entries == [role : Roles, native : Idents, of : Nat]

Row(seq, role, source, id, native, of) ==
  [seq |-> seq, role |-> role, source |-> source, id |-> id,
   native |-> native, of |-> of]

(* maxExchangeSeq + 1.                                                     *)
MaxExchangeSeq(l) == IF l = <<>> THEN 0 ELSE l[Len(l)].seq
NextSeq == MaxExchangeSeq(log) + 1

RowAt(seq) == CHOOSE i \in 1..Len(log) : log[i].seq = seq

SessionIsLiveOwned == \E i \in 1..Len(log) : log[i].source = "live"

(* recordedExchangeBody: the text the stream holds for a row's seq.        *)
Body(seq) == {b.text : b \in {c \in blocks : c.seq = seq}}

(* Mutant of IdentityRecorded: without the id of the turn, echoed.         *)
AgentIdRecorded(role, native) ==
  \E i \in 1..Len(log) : log[i].role = role /\ log[i].native = native

(* exchangeIdentityRecorded, for an id that is not empty.                  *)
IdentityRecorded(role, native) ==
  \E i \in 1..Len(log) :
    /\ log[i].role = role
    /\ log[i].native = native \/ (role = "user" /\ log[i].id = native)

-----------------------------------------------------------------------------
NoTurn == [at |-> "idle", of |-> 0, seq |-> 0, lines |-> 0, id |-> NoId,
           answer |-> NoId]
NoAsk == [at |-> "idle", of |-> 0, id |-> NoId]
NoSync == [at |-> "idle", full |-> FALSE, ctx |-> 0, read |-> 0, items |-> <<>>,
           own |-> 0]

LiveStates ==
  [at : {"idle", "new", "user body", "ready", "running", "returned", "agent body",
         "state"},
   of : Nat, seq : Nat, lines : Nat, id : Idents, answer : Idents]
AskStates == [at : {"idle", "asked", "heard"}, of : Nat, id : Idents]
SyncStates ==
  [at : {"idle", "import", "check", "append", "body", "finish"}, full : BOOLEAN,
   ctx : Nat, read : Nat, items : Seq(Entries), own : Nat]
Blocks == [seq : Nat, id : Idents, role : Roles, text : Nat]

TypeOK ==
  /\ echoes \in BOOLEAN
  /\ log \in Seq(Rows) /\ blocks \subseteq Blocks /\ texts \in Seq(Nat)
  /\ live \in LiveStates /\ agent \in AskStates /\ sync \in SyncStates
  /\ transcript \in Seq(Entries)
  /\ bound \in BOOLEAN /\ ctx \in Nat
  /\ syncs \in Nat /\ faults \in Nat

(* A session of MindFS that nobody has spoken in, or one that has just     *)
(* been imported from the agent: one message and its answer.               *)
Question == [role |-> "user", native |-> Id("user", 1), of |-> 1]
Answer == [role |-> "agent", native |-> Id("agent", 1), of |-> 1]

Imported(seq, e) ==
  Row(seq, e.role, "import", NewMindFSID(e.native), e.native, e.of)
ImportedBlock(seq, e) ==
  [seq |-> seq, id |-> NewMindFSID(e.native), role |-> e.role, text |-> e.of]

InitNew ==
  /\ log = <<>> /\ blocks = {} /\ texts = <<>> /\ transcript = <<>>
  /\ bound = FALSE /\ ctx = 0

InitImported ==
  /\ log = <<Imported(1, Question), Imported(2, Answer)>>
  /\ blocks = {ImportedBlock(1, Question), ImportedBlock(2, Answer)}
  /\ texts = <<1>>
  /\ transcript = <<Question, Answer>>
  /\ bound = TRUE /\ ctx = 2

Init ==
  /\ echoes \in BOOLEAN
  /\ InitNew \/ InitImported
  /\ live = NoTurn /\ agent = NoAsk /\ sync = NoSync
  /\ syncs = 0 /\ faults = 0

-----------------------------------------------------------------------------
(* The live turn.                                                          *)

UnchangedByLive == UNCHANGED <<echoes, transcript, sync, syncs>>

(* The user rows that say the same, as far as the block stream knows.      *)
SaidBefore(text) ==
  {i \in 1..Len(log) : log[i].role = "user" /\ Body(log[i].seq) = {text}}

(* persistUserTurnExchange looks first, outside the mutex, for a row that  *)
(* says the same and is less than five seconds old (a message resent after *)
(* a crash): a repetition may be recent or not.                            *)
LiveBegin(text) ==
  /\ live.at = "idle" /\ Len(texts) < MaxSaid
  /\ texts' = Append(texts, text)
  /\ live' = [NoTurn EXCEPT !.at = "new", !.of = Len(texts) + 1]
  /\ UnchangedByLive /\ UNCHANGED <<log, blocks, agent, bindVars, faults>>

LiveBeginRecorded(text, i) ==
  /\ live.at = "idle" /\ Len(texts) < MaxSaid
  /\ i \in SaidBefore(text)
  /\ texts' = Append(texts, text)
  /\ live' = [NoTurn EXCEPT !.at = "ready", !.of = Len(texts) + 1,
                            !.seq = log[i].seq, !.lines = log[i].seq - 1,
                            !.id = log[i].id]
  /\ UnchangedByLive /\ UNCHANGED <<log, blocks, agent, bindVars, faults>>

(* addExchangeForAgentAtWithIdentityFactory: seq and identity are minted   *)
(* under the mutex.                                                        *)
LiveAppendUser ==
  /\ live.at = "new"
  /\ LET id == NewUserTurnMindFSID(NextSeq) IN
       /\ log' = Append(log, Row(NextSeq, "user", "live", id, NoId, live.of))
       /\ live' = [live EXCEPT !.at = "user body", !.seq = NextSeq,
                               !.lines = NextSeq - 1, !.id = id]
  /\ UnchangedByLive /\ UNCHANGED <<blocks, texts, agent, bindVars, faults>>

(* AppendBlocks of the user's words; a failure is logged and the turn goes *)
(* on.                                                                     *)
LiveUserBody ==
  /\ live.at = "user body"
  /\ live' = [live EXCEPT !.at = "ready"]
  /\ \/ /\ blocks' = blocks \cup {[seq |-> live.seq, id |-> live.id,
                                   role |-> "user", text |-> texts[live.of]]}
        /\ faults' = faults
     \/ /\ faults < MaxFaults /\ faults' = faults + 1
        /\ blocks' = blocks
  /\ UnchangedByLive /\ UNCHANGED <<log, texts, agent, bindVars>>

(* The prompt goes to the agent and carries the turn's id.                 *)
LiveSend ==
  /\ live.at = "ready"
  /\ live' = [live EXCEPT !.at = "running"]
  /\ agent' = [at |-> "asked", of |-> live.of, id |-> live.id]
  /\ UnchangedByLive /\ UNCHANGED <<log, blocks, texts, bindVars, faults>>

(* ensureAgentSession fails: nothing more is written.                      *)
LiveFails ==
  /\ live.at = "ready"
  /\ live' = NoTurn
  /\ UnchangedByLive /\ UNCHANGED <<log, blocks, texts, agent, bindVars, faults>>

(* The send returns: the agent has answered, was stopped or has failed.    *)
LiveReturns ==
  /\ live.at = "running"
  /\ live' = [live EXCEPT !.at = "returned"]
  /\ UnchangedByLive /\ UNCHANGED <<log, blocks, texts, agent, bindVars, faults>>

(* The agent's row is written without a look at what is recorded.          *)
LiveAppendAgent ==
  /\ live.at = "returned"
  /\ log' = Append(log, Row(NextSeq, "agent", "live", live.id, live.answer,
                            IF live.answer = NoId THEN 0 ELSE live.of))
  /\ live' = [live EXCEPT !.at = "agent body", !.seq = NextSeq]
  /\ UnchangedByLive /\ UNCHANGED <<blocks, texts, agent, bindVars, faults>>

(* A failure ends the turn with an error; no text, no block.               *)
LiveAgentBody ==
  /\ live.at = "agent body"
  /\ \/ /\ blocks' = IF live.answer = NoId THEN blocks
                     ELSE blocks \cup {[seq |-> live.seq, id |-> live.id,
                                        role |-> "agent", text |-> live.of]}
        /\ live' = [live EXCEPT !.at = "state"]
        /\ faults' = faults
     \/ /\ faults < MaxFaults /\ faults' = faults + 1
        /\ live' = NoTurn
        /\ blocks' = blocks
  /\ UnchangedByLive /\ UNCHANGED <<log, texts, agent, bindVars>>

(* UpdateAgentState: linesBeforeThisTurn + 2.                              *)
LiveState ==
  /\ live.at = "state"
  /\ live' = NoTurn
  /\ bound' = TRUE /\ ctx' = live.lines + 2
  /\ UnchangedByLive /\ UNCHANGED <<log, blocks, texts, agent, faults>>

-----------------------------------------------------------------------------
(* The agent (external).                                                   *)

UnchangedByAgent == UNCHANGED <<echoes, log, blocks, sync, bindVars, syncs, faults>>

AgentHears ==
  /\ agent.at = "asked"
  /\ agent' = [agent EXCEPT !.at = "heard"]
  /\ transcript' = Append(transcript,
       [role |-> "user", of |-> agent.of,
        native |-> IF echoes THEN agent.id ELSE Id("user", agent.of)])
  /\ UNCHANGED <<texts, live>> /\ UnchangedByAgent

(* The turn sees the answer's id if it still runs.                         *)
AgentAnswers ==
  /\ agent.at = "heard"
  /\ agent' = NoAsk
  /\ transcript' = Append(transcript,
       [role |-> "agent", native |-> Id("agent", agent.of), of |-> agent.of])
  /\ live' = IF live.at = "running" /\ live.of = agent.of
               THEN [live EXCEPT !.answer = Id("agent", agent.of)] ELSE live
  /\ UNCHANGED texts /\ UnchangedByAgent

AgentStops ==
  /\ agent.at # "idle"
  /\ agent' = NoAsk
  /\ UNCHANGED <<texts, live, transcript>> /\ UnchangedByAgent

(* Somebody speaks to the agent past MindFS.                               *)
SpokenElsewhere ==
  /\ bound /\ agent.at = "idle" /\ Len(texts) < MaxSaid
  /\ LET n == Len(texts) + 1 IN
       /\ texts' = Append(texts, n)
       /\ transcript' = transcript \o
            <<[role |-> "user", native |-> Id("user", n), of |-> n],
              [role |-> "agent", native |-> Id("agent", n), of |-> n]>>
  /\ UNCHANGED <<agent, live>> /\ UnchangedByAgent

-----------------------------------------------------------------------------
(* The import (SyncExternalSessionDelta).                                  *)

UnchangedBySync == UNCHANGED <<echoes, texts, live, agentVars>>

(* A reader asks for it, in passing or with the "sync" button (full).      *)
SyncStart(full) ==
  /\ sync.at = "idle" /\ syncs < MaxSyncs
  /\ bound /\ log # <<>>
  /\ full \/ ~SessionIsLiveOwned
  /\ sync' = [NoSync EXCEPT !.at = "import", !.full = full, !.ctx = ctx]
  /\ syncs' = syncs + 1
  /\ UnchangedBySync /\ UNCHANGED <<log, blocks, bindVars, faults>>

(* Mutant of Delta: a full sync of a live session is cut at ctx, too.      *)
DeltaAfterCtxSeq ==
  IF sync.full THEN SubSeq(transcript, sync.ctx + 1, Len(transcript))
               ELSE transcript

(* externalSessionDeltaAfterCtxSeq counts rows, which line up with the     *)
(* transcript only while no live row is among them.                        *)
Delta ==
  IF sync.full /\ ~SessionIsLiveOwned
    THEN SubSeq(transcript, sync.ctx + 1, Len(transcript))
    ELSE transcript

SyncImport ==
  /\ sync.at = "import"
  /\ sync' = [sync EXCEPT !.at = "check", !.read = Len(transcript), !.items = Delta]
  /\ UnchangedBySync /\ UNCHANGED <<log, blocks, bindVars, syncs, faults>>

SyncFails ==
  /\ sync.at = "import"
  /\ sync' = NoSync
  /\ UnchangedBySync /\ UNCHANGED <<log, blocks, bindVars, syncs, faults>>

(* appendImportedExchange: what is recorded is skipped.                    *)
SyncSkip ==
  /\ sync.at = "check" /\ sync.items # <<>>
  /\ IdentityRecorded(Head(sync.items).role, Head(sync.items).native)
  /\ sync' = [sync EXCEPT !.items = Tail(@)]
  /\ UnchangedBySync /\ UNCHANGED <<log, blocks, bindVars, syncs, faults>>

SyncMisses ==
  /\ sync.at = "check" /\ sync.items # <<>>
  /\ ~IdentityRecorded(Head(sync.items).role, Head(sync.items).native)
  /\ sync' = [sync EXCEPT !.at = "append"]
  /\ UnchangedBySync /\ UNCHANGED <<log, blocks, bindVars, syncs, faults>>

SyncAppend ==
  /\ sync.at = "append"
  /\ log' = Append(log, Imported(NextSeq, Head(sync.items)))
  /\ sync' = [sync EXCEPT !.at = "body", !.own = NextSeq]
  /\ UnchangedBySync /\ UNCHANGED <<blocks, bindVars, syncs, faults>>

(* Mutant of BlockFor: the identity computed before the row was appended.  *)
BlockForIdentity(seq, e) ==
  [seq |-> seq, id |-> NewMindFSID(e.native), role |-> e.role,
   text |-> IF e.role = "user" THEN texts[e.of] ELSE e.of]

(* The identity is read back from the row that has the seq.                *)
BlockFor(seq, e) ==
  [seq |-> seq, id |-> log[RowAt(seq)].id, role |-> e.role,
   text |-> IF e.role = "user" THEN texts[e.of] ELSE e.of]

(* The seq is the greatest in the shared session, read outside the mutex:  *)
(* the own row's, or that of a row the turn has appended since.  A failure *)
(* is logged, and the import goes on.                                      *)
SyncBody ==
  /\ sync.at = "body"
  /\ \/ /\ \E seq \in sync.own..MaxExchangeSeq(log) :
             blocks' = blocks \cup {BlockFor(seq, Head(sync.items))}
        /\ faults' = faults
     \/ /\ faults < MaxFaults /\ faults' = faults + 1
        /\ blocks' = blocks
  /\ sync' = [sync EXCEPT !.at = "check", !.items = Tail(@), !.own = 0]
  /\ UnchangedBySync /\ UNCHANGED <<log, bindVars, syncs>>

SyncChecked ==
  /\ sync.at = "check" /\ sync.items = <<>>
  /\ sync' = [sync EXCEPT !.at = "finish"]
  /\ UnchangedBySync /\ UNCHANGED <<log, blocks, bindVars, syncs, faults>>

(* UpdateAgentState: the rows there are now.                               *)
SyncFinish ==
  /\ sync.at = "finish"
  /\ sync' = NoSync
  /\ bound' = TRUE /\ ctx' = Len(log)
  /\ UnchangedBySync /\ UNCHANGED <<log, blocks, syncs, faults>>

-----------------------------------------------------------------------------
(* The process dies; the files stay.  An agent session that is not bound   *)
(* yet is lost: the next turn opens a new one, with an empty transcript.   *)
Crash ==
  /\ faults < MaxFaults
  /\ live.at # "idle" \/ sync.at # "idle" \/ (~bound /\ transcript # <<>>)
  /\ live' = NoTurn /\ sync' = NoSync
  /\ \/ bound /\ UNCHANGED agentVars
     \/ ~bound /\ agent' = NoAsk /\ transcript' = <<>>
  /\ faults' = faults + 1
  /\ UNCHANGED <<echoes, log, blocks, texts, bindVars, syncs>>

Repetition == IF texts = <<>> THEN {} ELSE {texts[Len(texts)]}

LiveStep ==
  \/ \E text \in {Len(texts) + 1} \cup Repetition :
       LiveBegin(text) \/ \E i \in 1..Len(log) : LiveBeginRecorded(text, i)
  \/ LiveAppendUser \/ LiveUserBody \/ LiveSend \/ LiveFails \/ LiveReturns
  \/ LiveAppendAgent \/ LiveAgentBody \/ LiveState

AgentStep == AgentHears \/ AgentAnswers \/ AgentStops \/ SpokenElsewhere

SyncStep ==
  \/ \E full \in BOOLEAN : SyncStart(full)
  \/ SyncImport \/ SyncFails \/ SyncSkip \/ SyncMisses \/ SyncAppend
  \/ SyncBody \/ SyncChecked \/ SyncFinish

Next == LiveStep \/ AgentStep \/ SyncStep \/ Crash

Spec == Init /\ [][Next]_vars

-----------------------------------------------------------------------------
(* What is in the block stream can be hung on a turn: its seq is that of   *)
(* exactly one row, and the row has the block's identity, whichever writer *)
(* came between.                                                           *)
BlocksNameTheirRow ==
  \A b \in blocks : \E i \in 1..Len(log) :
    /\ log[i].seq = b.seq /\ log[i].id = b.id
    /\ \A j \in 1..Len(log) : log[j].seq = b.seq => j = i

(* A message is stored once: no import writes again what an import or, for *)
(* the user's words, the turn has written.  What is left is an answer      *)
(* that both have written, and a prompt whose id the agent does not repeat *)
(* (AnswerOnce).                                                           *)
StoredOnce ==
  \A i, j \in 1..Len(log) :
    /\ i # j
    /\ log[i].role = log[j].role /\ log[i].of = log[j].of /\ log[i].of # 0
    => /\ log[i].source # log[j].source
       /\ log[i].role = "user" => ~echoes

(* An import that runs to its end leaves no message out of those it has    *)
(* read, whatever a crash has cut off before and whoever wrote meanwhile.  *)
Carries(row, e) ==
  row.role = e.role /\ (row.native = e.native \/ (e.role = "user" /\ row.id = e.native))

SyncedIsRecorded ==
  sync.at = "finish" =>
    \A k \in 1..sync.read : \E i \in 1..Len(log) : Carries(log[i], transcript[k])

(* Refuted: what hangs on a row is what the row stands for.                *)
BodyOnItsRow ==
  \A b \in blocks : \A i \in 1..Len(log) : log[i].seq = b.seq =>
    /\ log[i].role = b.role
    /\ b.text = IF b.role = "user" THEN texts[log[i].of] ELSE log[i].of

(* Refuted: an answer is stored once, by the turn or by an import.         *)
AnswerOnce ==
  \A i, j \in 1..Len(log) :
    /\ log[i].role = "agent" /\ log[j].role = "agent"
    /\ log[i].of = log[j].of /\ log[i].of # 0
    => i = j

(* Refuted: a sync in passing does not write to a session that a turn of   *)
(* MindFS has written to.                                                  *)
PassingSyncSparesLive ==
  [][sync.at = "append" /\ ~sync.full /\ SessionIsLiveOwned => log' = log]_vars

(* Refuted: what an import has read has a body when the import is done.    *)
SyncedHasBody ==
  sync.at = "finish" => \A i \in 1..Len(log) :
    (\E k \in 1..sync.read : Carries(log[i], transcript[k])) => Body(log[i].seq) # {}
=============================================================================
